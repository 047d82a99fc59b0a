------------------------------ MODULE ValueText ------------------------------
(***************************************************************************)
(* The text Marshal writes for a value (encode.go): where lines break, how *)
(* far they are indented and which strings are quoted.  The recursion of   *)
(* the encoder functions, with its errors and the choice of aliases, is    *)
(* ValueEncoder; here every reference has been decided.  An encoder        *)
(* function is a case of Encoded(v, ns, level, opts): ns is the set of the *)
(* bits of nestedState, level is e.level, and the text written is what the *)
(* operator returns.  Values are those of Literals, and                    *)
(*   Struct(fields), fields a sequence of [name, anchor, flow, val];       *)
(*   Alias(name, v), where v, anchored before as name, is written again.   *)
(***************************************************************************)
EXTENDS Literals

Struct(fields) == <<"fields", fields>>
Alias(name, v) == <<"alias", name, v>>

Spaces(n) == [i \in 1..n |-> "SP"]

\* indent: the hyphen stands two bytes before the element
Indent(level, isSlice, opts) ==
  IF level <= 0 THEN <<>>
  ELSE LET n == level * opts.indent
       IN  [i \in 1..n |-> IF isSlice /\ i = n - 1 THEN "-" ELSE "SP"]

\* appendIndentBuf
AppendIndent(inline, ns, level, opts) ==
  CASE "printed" \in ns -> <<>>
    [] "printed" \notin ns /\ "inSlice" \in ns ->
         IF opts.flow THEN <<>> ELSE <<"LF">> \o Indent(level, TRUE, opts)
    [] ns \subseteq {"inStruct", "inMap"} /\ ns # {} ->
         IF inline THEN <<"SP">> ELSE <<"LF">> \o Indent(level, FALSE, opts)
    [] OTHER -> IF inline THEN <<>> ELSE <<"LF">>

-----------------------------------------------------------------------------
(***************************************************************************)
(* Strings.                                                                *)
(***************************************************************************)
HasByte(b, S) == \E i \in 1..Len(b) : b[i] \in S
HasPair(b, p, S) == \E i \in 1..(Len(b) - 1) : b[i] \in p /\ b[i + 1] \in S

\* isNeedQuoted: of the reserved words ~ and - can be spelled; a timestamp is longer
\* than the strings here.  Of the class at the code lists @ and `.
isNeedQuoted(b) ==
  \/ b \in {<<>>, <<"-">>, <<"~">>}
  \/ b[1] \in NumberHead /\ IsNumeral(b)
  \/ b[1] \in {"*", "&", "[", "{", "}", "]", ",", "!", "|", ">", "%", "sq", "dq", "at", "SP"}
  \/ b[Len(b)] \in {":", "SP"}
  \/ HasByte(b, {"#", "\\"})
  \/ HasPair(b, {":", "-"}, {"SP"})

\* isNeedQuotedOpts
NeedsQuotes(b, opts) ==
  CASE opts.json -> TRUE
    [] ~opts.json /\ opts.literal /\ HasByte(b, LineBreak) -> FALSE
    [] OTHER ->
         \/ opts.flow /\ HasByte(b, {"]", "}", ",", "sq", "dq"})
         \/ opts.flow /\ \E i \in 1..Len(b) : b[i] = ":" /\ ~(i < Len(b) /\ b[i + 1] = "/")
         \/ isNeedQuoted(b)

\* quoteString: strconv.Quote, or quoteWith for single quotes, which writes the same
\* escapes for what does not print.
Quoted(b, opts) ==
  LET q == IF opts.single THEN "sq" ELSE "dq"
      Rune(c) == CASE c = "LF" -> <<"\\", "n">>
                   [] c = q    -> IF opts.single THEN <<q, q>> ELSE <<"\\", q>>
                   [] c = "\\" -> IF opts.single THEN <<c>> ELSE <<c, c>>
                   [] OTHER    -> <<c>>
  IN  <<q>> \o FlattenSeq([i \in 1..Len(b) |-> Rune(b[i])]) \o <<q>>

\* literalBlockHeader
BlockHeader(b, lbc) ==
  CASE IsSuffix(lbc \o lbc, b) -> <<"|", "+">>
    [] IsSuffix(lbc, b) /\ ~IsSuffix(lbc \o lbc, b) -> <<"|">>
    [] OTHER -> <<"|", "-">>

\* strings.TrimSuffix
TrimSuffix(b, s) == IF IsSuffix(s, b) THEN Keep(b, Len(b) - Len(s)) ELSE b

BlockLevel(ns, level) == IF "inSlice" \in ns THEN level ELSE level + 1

BlockText(b, ns, level, opts) ==
  LET lbc    == LineBreakOf(b)
      indent == Spaces(BlockLevel(ns, level) * opts.indent)
      lines  == Split(b, lbc)
      text   == Join([i \in 1..Len(lines) |-> indent \o lines[i]], lbc)
  IN  BlockHeader(b, lbc) \o lbc \o TrimSuffix(TrimSuffix(text, lbc \o indent), indent)

\* stringEncoder
String(b, ns, level, opts) ==
  CASE NeedsQuotes(b, opts) -> Quoted(b, opts)
    [] ~NeedsQuotes(b, opts) /\ IndexOf(b, LineBreakOf(b)) > -1 -> BlockText(b, ns, level, opts)
    [] OTHER -> b

-----------------------------------------------------------------------------
(***************************************************************************)
(* Collections.                                                            *)
(***************************************************************************)
\* A sequence is one level deeper, two with IndentSequence.
SliceLevel(ns, level, opts) ==
  IF ns # {} \/ (level = 0 /\ ~opts.flow)
  THEN level + (IF opts.sequence THEN 2 ELSE 1) ELSE level

\* A map or a struct in a sequence stands at the indent of the sequence.
MapLevel(ns, level) == IF ns # {} /\ "inSlice" \notin ns THEN level + 1 ELSE level

KeyText(key, opts) == (IF opts.json THEN Quoted(key, opts) ELSE key) \o <<":">>

\* Maps are written in the order of their keys, structs in that of their fields;
\* the fields of a map carry no anchors and no flow option.
Fields(v) ==
  IF v[1] = "fields" THEN v[2]
  ELSE [i \in 1..Cardinality(DOMAIN v[2]) |->
          LET key == SetToSeq(DOMAIN v[2])[i]
          IN  [name |-> key, anchor |-> <<>>, flow |-> FALSE, val |-> v[2][key]]]

\* The bits for the second field and on: the hyphen has been written.
LaterField(v, ns) ==
  IF v[1] = "map" \/ "inSlice" \in ns THEN {"inStruct"} ELSE ns \ {"printed"}

RECURSIVE Encoded(_, _, _, _)

FieldText(f, bit, level, opts) ==
  KeyText(f.name, opts) \o
  IF f.val[1] = "alias" THEN <<"SP", "*">> \o f.val[2]
  ELSE (IF f.anchor = <<>> THEN <<>> ELSE <<"SP", "&">> \o f.anchor)
       \o Encoded(f.val, {bit}, level, [opts EXCEPT !.flow = @ \/ f.flow])

\* mapEncoder.encode and structEncoder.encode
ObjectText(v, ns, level, opts) ==
  LET fs  == Fields(v)
      bit == IF v[1] = "map" THEN "inMap" ELSE "inStruct"
      lev == MapLevel(ns, level)
  IN  CASE fs = <<>> /\ ~opts.flow -> AppendIndent(TRUE, ns, lev, opts) \o <<"{", "}">>
        [] opts.flow ->
             AppendIndent(TRUE, ns, lev, opts) \o <<"{">>
             \o Join([i \in 1..Len(fs) |-> FieldText(fs[i], bit, lev, opts)], <<",", "SP">>)
             \o <<"}">>
        [] OTHER ->
             FlattenSeq([i \in 1..Len(fs) |->
               AppendIndent(FALSE, IF i = 1 THEN ns ELSE LaterField(v, ns), lev, opts)
               \o FieldText(fs[i], bit, lev, opts)])

ElementText(v, ns, level, opts) ==
  IF v[1] = "alias" THEN <<"*">> \o v[2] ELSE Encoded(v, ns, level, opts)

\* arrayEncoder.encode: it writes the hyphens itself.  The bit printed stands until
\* an element has been written that is no alias.
ArrayText(q, ns, level, opts) ==
  LET lev == SliceLevel(ns, level, opts)
      OnLine(i) == "printed" \in ns /\ \A j \in 1..(i - 1) : q[j][1] = "alias"
      HyphenFor(i) == IF OnLine(i) THEN Indent(1, TRUE, opts)
                      ELSE AppendIndent(FALSE, {"inSlice"}, lev, opts)
  IN  CASE q = <<>> \/ opts.flow ->
             AppendIndent(TRUE, ns, lev, opts) \o <<"[">>
             \o Join([i \in 1..Len(q) |-> ElementText(q[i], {"inSlice"}, lev, opts)], <<",", "SP">>)
             \o <<"]">>
        [] OTHER ->
             FlattenSeq([i \in 1..Len(q) |->
               HyphenFor(i) \o ElementText(q[i], {"inSlice", "printed"}, lev, opts)])

Encoded(v, ns, level, opts) ==
  CASE v[1] = "list" -> ArrayText(v[2], ns, level, opts)
    [] v[1] \in {"map", "fields"} -> ObjectText(v, ns, level, opts)
    [] OTHER -> AppendIndent(TRUE, ns, level, opts) \o
                CASE v[1] = "str" -> String(v[2], ns, level, opts)
                  [] v[1] = "num" -> v[2]
                  [] v[1] = "nil" -> <<"n", "u", "g", "g">>

\* MarshalWithOptions: the line break before the first field or hyphen is dropped.
Marshaled(v, opts) ==
  LET b == Encoded(v, {}, 0, opts)
  IN  IF b # <<>> /\ b[1] = "LF" THEN Tail(b) ELSE b
===============================================================================
