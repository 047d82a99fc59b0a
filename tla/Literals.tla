------------------------------- MODULE Literals -------------------------------
(***************************************************************************)
(* From the text of a literal to a value (storeLiteral, literalInterface,  *)
(* unquoteBytes and parseMultiline of decode.go, convertInterface for      *)
(* aliases), and back from a string to its text (isNeedQuotedOpts,         *)
(* quoteString and stringEncoder of encode.go, in ValueText).              *)
(*                                                                         *)
(* A class of bytes stands for the byte it is named after.  A number is    *)
(* the text that spells it; words other than ~ with a meaning of their own *)
(* (true, null, .inf) cannot be spelled, nor times and durations.  Of the  *)
(* explicit types there is one, str.  The operators are what Parser takes  *)
(* as its parameters: from a text and the anchors to a value, without the  *)
(* decodeState.                                                            *)
(***************************************************************************)
EXTENDS Values, ScannerOps, Separators, SequencesExt

\* v.SetZero
RECURSIVE Zero(_)
Zero(t) ==
  CASE Kind(t) = "string" -> Text(<<>>)
    [] Kind(t) = "array"  -> List([i \in 1..t[3] |-> Zero(t[2])])
    [] Kind(t) = "struct" -> Mapping([f \in DOMAIN t[2] |-> Zero(t[2][f])])
    [] OTHER -> Nil

\* What a call gives, and how it ends: "saved" when it saves an error and goes on,
\* "error" when the error ends the decoding.
Gives(val, how) == [val |-> val, how |-> how]

\* The target gets nothing from the literal.
Saves(t) == Gives(Zero(t), "saved")

-----------------------------------------------------------------------------
(***************************************************************************)
(* Quoted literals.                                                        *)
(***************************************************************************)
TrimRight(b, S) == Keep(b, SelectLastInSeq(b, LAMBDA c : c \notin S))
TrimSpace(b)    == Reverse(TrimRight(Reverse(TrimRight(b, White)), White))

\* The bytes of the escape at the beginning of b.  An escape that gives a rune the
\* classes do not tell is kept as it is written.
EscapeLength == [x |-> 4, u |-> 6, U |-> 10]

EscapeEnd(b) ==
  CASE b[2] \in DOMAIN EscapeLength -> EscapeLength[b[2]]
    [] StartsWith(Tail(b), <<"CR", "LF">>) -> 3
    [] OTHER -> 2

RECURSIVE Unescape(_)
Unescape(b) ==
  LET c == b[2]
      rune == CASE c \in {"dq", "sq", "\\", "/", "SP"} -> <<c>>
                [] c = "n"       -> <<"LF">>
                [] c \in LineBreak -> <<>>
                [] OTHER         -> Keep(b, EscapeEnd(b))
  IN  CASE b = <<>>      -> <<>>
        [] b # <<>> /\ b[1] # "\\" -> <<b[1]>> \o Unescape(Tail(b))
        [] OTHER -> rune \o Unescape(Drop(b, EscapeEnd(b)))

\* A quote that is not escaped, or a control byte, cannot stand in a string.
RECURSIVE Escapes(_)
Escapes(b) ==
  CASE b = <<>> -> TRUE
    [] b # <<>> /\ b[1] = "\\" ->
         /\ Len(b) > 1 /\ b[2] \in Escaped \cup {"sq", "x", "u", "U"} \cup LineBreak
         /\ Escapes(Drop(b, EscapeEnd(b)))
    [] OTHER -> b[1] \notin Control \cup {"dq"} /\ Escapes(Tail(b))

\* unquoteBytesSq: '' is one quote; a tab or a line break becomes the two bytes of its
\* escape, \t, \n or \r, whose letters are of one class.  So do \b and \f, which ctl,
\* the other control bytes, does not stand for.
RECURSIVE SingleQuoted(_)
SingleQuoted(b) ==
  CASE b = <<>> -> <<>>
    [] StartsWith(b, <<"sq", "sq">>) -> <<"sq">> \o SingleQuoted(Drop(b, 2))
    [] OTHER -> (IF b[1] \in {"TAB", "LF", "CR"} THEN <<"\\", "n">> ELSE <<b[1]>>) \o SingleQuoted(Tail(b))

Within(b, q) == Len(b) > 1 /\ b[1] = q /\ b[Len(b)] = q
Inner(b)     == SubSeq(b, 2, Len(b) - 1)

\* unquoteBytes, and whether it succeeds
Unquotes(b) ==
  /\ Len(b) = 1 => b[1] \notin {"dq", "sq"}
  /\ Within(b, "dq") => Escapes(Inner(b))

Unquoted(b) ==
  CASE Within(b, "sq") -> SingleQuoted(Inner(b))
    [] Within(b, "dq") -> Unescape(Inner(b))
    [] Len(b) <= 1     -> b
    [] OTHER           -> TrimSpace(b)

unquote(b) == IF Unquotes(b) THEN Gives(Text(Unquoted(b)), "ok") ELSE Gives(Text(<<>>), "error")

-----------------------------------------------------------------------------
(***************************************************************************)
(* Block literals.                                                         *)
(***************************************************************************)
CountOf(b, p) == Cardinality({i \in 0..Len(b) : StartsWith(Drop(b, i), p)})

\* detectLineBreakChars
LineBreakOf(b) ==
  LET n == CountOf(b, <<"LF">>)  r == CountOf(b, <<"CR">>)  rn == CountOf(b, <<"CR", "LF">>)
  IN  CASE n = rn /\ rn = r -> <<"CR", "LF">>
        [] ~(n = rn /\ rn = r) /\ r > n -> <<"CR">>
        [] OTHER -> <<"LF">>

\* bytes.Split and bytes.Join
RECURSIVE Split(_, _)
Split(b, sep) ==
  LET i == IndexOf(b, sep)
  IN  IF i = -1 THEN <<b>> ELSE <<Keep(b, i)>> \o Split(Drop(b, i + Len(sep)), sep)

Join(lines, sep) ==
  FlattenSeq([i \in 1..Len(lines) |-> IF i = 1 THEN lines[1] ELSE sep \o lines[i]])

Blank(line)  == \A i \in 1..Len(line) : line[i] \in Space
Leading(line) == SelectInSeq(line \o <<"LF">>, LAMBDA c : c # "SP") - 1

\* The indent of the first line with text that has one is taken off every line.
Dedent(lines) ==
  LET i == SelectInSeq(lines, LAMBDA l : ~Blank(l) /\ Leading(l) > 0)
      n == IF i = 0 THEN 0 ELSE Leading(lines[i])
  IN  [j \in 1..Len(lines) |->
        CASE Blank(lines[j]) -> <<>>
          [] ~Blank(lines[j]) /\ Leading(lines[j]) >= n -> Drop(lines[j], n)
          [] OTHER -> lines[j]]

\* The end of the text: clip keeps one line break, strip none, keep all.
Chomp(header) ==
  CASE Len(header) # 2 -> "clip" [] Len(header) = 2 /\ header[2] = "-" -> "strip" [] OTHER -> "keep"

LastText(lines) == SelectLastInSeq(lines, LAMBDA l : ~Blank(l))

Chomped(lines, last, chomp) ==
  CASE chomp = "keep" -> lines
    [] chomp = "strip" \/ last = 0 -> Keep(lines, last)
    [] OTHER -> Append(Keep(lines, last), <<>>)

\* The line breaks a folded text ends with; the other lines end with spaces.
BreaksAtEnd(lines, last, chomp) ==
  CASE chomp = "clip"  -> 1
    [] chomp = "keep"  -> Len(lines) - last
    [] chomp = "strip" -> 0

\* The last n bytes are line breaks: with more of them than bytes the index of the
\* loop is below zero.
Folded(b, n) ==
  IF b # <<>> /\ n > Len(b) THEN [text |-> b, how |-> "panic"]
  ELSE [text |-> [i \in 1..Len(b) |-> IF i > Len(b) - n THEN "LF" ELSE b[i]], how |-> "ok"]

\* parseMultiline.  last is the last of the lines with text.
ParsedLines(c, lines, last, chomp) ==
  IF c = "|" THEN [text |-> Join(Chomped(lines, last, chomp), <<"LF">>), how |-> "ok"]
  ELSE Folded(Join(Chomped(lines, last, chomp), <<"SP">>), BreaksAtEnd(lines, last, chomp))

Parsed(c, all) ==
  ParsedLines(c, Dedent(Tail(all)), LastText(Tail(all)), Chomp(TrimRight(all[1], {"SP"})))

parseMultiline(item) == Parsed(item[1], Split(item, LineBreakOf(item)))

-----------------------------------------------------------------------------
(***************************************************************************)
(* Anchors.  anchors maps a name to a copy of the target (value) or to the *)
(* value itself (valueInterface); reflection tells the two apart.          *)
(***************************************************************************)
\* convertInterface succeeds, and what it returns
RECURSIVE Converts(_, _)
Converts(val, t) ==
  CASE val[1] = "nil"  -> TRUE
    [] val[1] = "str"  -> Kind(t) = "string"
    [] val[1] = "num"  -> Kind(t) = "number"
    [] val[1] = "list" -> Kind(t) = "slice" /\ \A i \in DOMAIN val[2] : Converts(val[2][i], t[2])
    [] val[1] = "map"  -> Kind(t) = "mapping" /\ \A k \in DOMAIN val[2] : Converts(val[2][k], t[2])

RECURSIVE convertInterface(_, _)
convertInterface(val, t) ==
  CASE val[1] = "nil"  -> Zero(t)
    [] val[1] = "list" -> List([i \in DOMAIN val[2] |-> convertInterface(val[2][i], t[2])])
    [] val[1] = "map"  -> Mapping([k \in DOMAIN val[2] |-> convertInterface(val[2][k], t[2])])
    [] OTHER -> val

\* storeLiteral of *name.  Set panics when the kinds agree and the types do not.
StoreAlias(anchors, name, t) ==
  IF name \notin DOMAIN anchors THEN Saves(t)
  ELSE LET a == anchors[name]
           converted == Kind(a.type) = "any" /\ Kind(t) # "any"
       IN  CASE converted /\ Converts(a.val, t) -> Gives(convertInterface(a.val, t), "ok")
             [] converted /\ ~Converts(a.val, t) -> Saves(t)
             [] ~converted /\ a.type = t -> Gives(a.val, "ok")
             [] ~converted /\ a.type # t /\ Kind(a.type) \notin {Kind(t), "invalid"} -> Saves(t)
             [] OTHER -> Gives(Zero(t), "panic")

-----------------------------------------------------------------------------
(***************************************************************************)
(* storeLiteral for a target of type t, and literalInterface.              *)
(***************************************************************************)
\* strconv.ParseInt and ParseFloat accept the text: digits with at most one '.',
\* or hexadecimal digits after 0x, and a sign.
IsNumeral(b) ==
  LET n == IF b[1] \in {"+", "-"} THEN Tail(b) ELSE b
      Digits(S) == \A i \in 1..Len(n) : n[i] \in S
  IN  \/ /\ Digits(Digit \cup {"."}) /\ CountOf(n, <<".">>) <= 1
         /\ \E i \in 1..Len(n) : n[i] \in Digit
      \/ /\ StartsWith(n, <<"0", "x">>) /\ Len(n) > 2
         /\ \A i \in 3..Len(n) : n[i] \in Hex

Converted(b) == IF IsNumeral(b) THEN Number(b) ELSE Text(b)

NumberHead == Digit \cup {"-", "+", "."}

\* SetString, or an error for a target that is neither a string nor any
StoreText(b, t) == IF Kind(t) \in {"string", "any"} THEN Gives(Text(b), "ok") ELSE Saves(t)

StoreLines(r, t) == IF r.how = "ok" THEN StoreText(r.text, t) ELSE Gives(Zero(t), r.how)

StoreNumber(b, t) == IF Kind(t) = "any" THEN Gives(Converted(b), "ok") ELSE StoreText(b, t)

BlockHead == {"|", ">"}

\* storeExplicit: "!!str" and a text after one space
StoreTyped(data, t) ==
  CASE ~Unquotes(data) -> Saves(t)
    [] Unquotes(data) /\ Len(Unquoted(data)) > 0 /\ Unquoted(data)[1] \in BlockHead ->
         StoreLines(parseMultiline(Unquoted(data)), t)
    [] OTHER -> StoreText(Unquoted(data), t)

StoreExplicit(item, t) ==
  IF IndexOf(item, <<"SP">>) # -1 /\ StartsWith(item, <<"!", "!">>)
  THEN StoreTyped(Drop(item, IndexOf(item, <<"SP">>) + 1), t) ELSE Saves(t)

StoreTrimmed(b, t) ==
  IF b[1] \in BlockHead THEN StoreLines(parseMultiline(b), t) ELSE StoreText(b, t)

StorePlain(item, t) ==
  IF item = <<"~">> THEN Gives(Zero(t), "ok") ELSE StoreTrimmed(TrimRight(item, {"SP"}), t)

storeLiteral(anchors, item, t) ==
  CASE item = <<>> -> Gives(Zero(t), "ok")
    [] item # <<>> /\ item[1] = "*" -> StoreAlias(anchors, Tail(item), t)
    [] item # <<>> /\ item[1] = "!" -> StoreExplicit(item, t)
    [] item # <<>> /\ item[1] \in {"dq", "sq"} ->
         IF Unquotes(item) THEN StoreText(Unquoted(item), t) ELSE Saves(t)
    [] item # <<>> /\ item[1] \in NumberHead -> StoreNumber(TrimRight(item, Space), t)
    [] OTHER -> StorePlain(item, t)

\* literalInterface: neither null nor explicit types; an error ends the decoding.
literalInterface(anchors, item) ==
  LET b == TrimRight(item, {"SP"})
      name == Tail(item)
      lines == parseMultiline(item)
  IN  CASE item = <<>> -> Gives(Nil, "panic")
        [] item # <<>> /\ item[1] \in {"dq", "sq"} -> unquote(item)
        [] item # <<>> /\ item[1] = "*" ->
             CASE name \notin DOMAIN anchors -> Gives(Nil, "error")
               [] OTHER -> Gives(anchors[name].val,
                                 IF anchors[name].type = Invalid THEN "panic" ELSE "ok")
        [] item # <<>> /\ item[1] \in BlockHead -> Gives(Text(lines.text), lines.how)
        [] item # <<>> /\ item[1] \in Lower \cup Upper \cup {"hi"} -> Gives(Text(b), "ok")
        [] OTHER -> Gives(Converted(b), "ok")
===============================================================================
