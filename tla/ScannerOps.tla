------------------------------ MODULE ScannerOps ------------------------------
(***************************************************************************)
(* The byte-driven scanner of scanner.go as operators on a scanner record. *)
(* A state function of the code (`func stateX(s *scanner, c byte) int`) is *)
(* an operator X(s, c) whose value is the scanner after the call; the      *)
(* opcode the call returns is the field op of that value.  The module has  *)
(* no variables: Scanner drives one scanner over arbitrary input, Decoder  *)
(* drives one inside Decoder.readValue.                                    *)
(***************************************************************************)
EXTENDS Integers, Sequences, FiniteSets

CONSTANT MaxNestingDepth   \* maxNestingDepth (10000 in the code)

ASSUME MaxNestingDepthAssumption == MaxNestingDepth \in Nat

-----------------------------------------------------------------------------
(***************************************************************************)
(* Bytes.  The scanner tells apart the classes below; a class of several   *)
(* bytes is named after one of them.  a: a b e f (hexadecimal and escape), *)
(* c: c d (hexadecimal), n: n r t v (escape), g: the other small letters,  *)
(* A: A..F, N: N L P (escape), G: the other capitals, 1: 1..9,             *)
(* hi: a byte >= 0x80 that Latin-1 calls a letter, at: a printable byte    *)
(* that cannot begin a value (@ ` $ = ? ; ^ and 0xD7), np: a byte >= 0x20  *)
(* that does not print and is no letter, ctl: the other control bytes.     *)
(***************************************************************************)
Space     == {"SP", "TAB"}
LineBreak == {"LF", "CR"}
White     == Space \cup LineBreak
Lower     == {"a", "c", "n", "x", "u", "g"}
Upper     == {"A", "N", "U", "G"}
Digit     == {"0", "1"}
Hex       == {"a", "c", "A"} \cup Digit
NameByte  == Lower \cup Upper \cup Digit \cup {"-", "_"}
Escaped   == {"a", "n", "0", "N", "\\", "/", "dq", "SP", "_"}
Control   == {"TAB", "LF", "CR", "ctl"}          \* c < 0x20
NoPrint   == Control \cup {"np"}                 \* ~unicode.IsPrint
PlainHead == Lower \cup Upper \cup Digit \cup {"hi", "~", "\\", "/", "_", "(", ")", "+"}
Indicator == {"{", "}", "[", "]", ",", ":", "dq", "sq", "%", "-", "&", "*",
              "!", ".", "<", "|", ">", "#"}
Byte      == PlainHead \cup Indicator \cup White \cup {"at", "np", "ctl"}

\* The entries of the parse state stack, block frames and flow frames.
ObjectFrame == {"ObjectKey", "ObjectValue"}
FlowFrame   == {"FlowObjectKey", "FlowObjectValue", "FlowArrayValue"}
Frame       == ObjectFrame \cup FlowFrame \cup {"ArrayValue", "MultiLineValue"}

Opcode == {"Continue", "BeginLiteral", "BeginObject", "ObjectKey", "ObjectValue",
           "EndObject", "BeginArray", "ArrayValue", "EndArray", "SkipSpace",
           "End", "Error"}

Steps == {"BeginLine", "BeginValueOrEmpty", "BeginValue", "EndValue", "EndTop",
          "EndYaml", "KeyOrUnq", "BeginComment", "BeginMerge", "Merge1",
          "EmptyLine", "BeginMultilineChomp", "BeginMultiline", "InMultiline",
          "InStringUnqOrComment", "InStringUnq", "InString", "InStringSq",
          "InStringSq2", "BeginAnchor", "InAnchor", "BeginAlias", "InAlias",
          "InStringEsc", "InStringHex", "InDirective", "NewDoc", "NewDoc1",
          "NewDoc2", "NewDoc3", "EndYaml1", "EndYaml2", "EndYaml3",
          "BeginArrayValueS", "Hyphen", "DotBegin", "ExplicitType1",
          "ExplicitType2", "Error"}

\* The state functions that run between the '|' or '>' of a block literal and the
\* first line that does not belong to it.
LiteralSteps ==
  {"BeginMultilineChomp", "BeginMultiline", "EmptyLine", "BeginComment",
   "BeginLine", "InMultiline", "Error"}

\* lastc is compared with ':' and '\\' only: every other byte is "other".
LastC == {":", "\\", "other"}

\* type scanner.  hex counts the digits an \x, \u or \U escape still wants,
\* in place of the fourteen states stateInStringEscx .. stateInStringEscU1234567.
ScannerRecord ==
  [step : Steps, endTop : BOOLEAN, states : Seq(Frame), indents : Seq(Nat),
   idn : Nat, lastc : LastC, sameLine : BOOLEAN, err : BOOLEAN,
   hex : 0..8, op : Opcode]

\* (s *scanner) reset()
Reset ==
  [step |-> "BeginLine", endTop |-> FALSE, states |-> <<>>, indents |-> <<>>,
   idn |-> 0, lastc |-> "other", sameLine |-> FALSE, err |-> FALSE,
   hex |-> 0, op |-> "Continue"]

-----------------------------------------------------------------------------
(***************************************************************************)
(* Helpers: return an opcode, change the step, record an error, push and   *)
(* pop frames.                                                             *)
(***************************************************************************)
Stay(s, op) == [s EXCEPT !.op = op]

Goto(s, step, op) == [s EXCEPT !.step = step, !.op = op]

\* (s *scanner) error
Fail(s) == [s EXCEPT !.step = "Error", !.err = TRUE, !.op = "Error"]

\* Mutant of EndLine: the next line still counts as the line of the key.
EndLineKeepsSameLine(s, op) == [s EXCEPT !.idn = 0, !.step = "BeginLine", !.op = op]

\* endLine
EndLine(s, op) ==
  [s EXCEPT !.idn = 0, !.step = "BeginLine", !.sameLine = FALSE, !.op = op]

\* lastInput
LastInput(s, c) ==
  IF c \in White THEN s
  ELSE [s EXCEPT !.lastc = IF c \in {":", "\\"} THEN c ELSE "other"]

LastState(s) == IF s.states = <<>> THEN "none" ELSE s.states[Len(s.states)]

InFlow(s) == LastState(s) \in FlowFrame

IndentDiff(s) ==
  s.idn - (IF s.indents = <<>> THEN 0 ELSE s.indents[Len(s.indents)])

IsUnqDelim(s, c) ==
  c \in LineBreak \/ (InFlow(s) /\ c \in {"{", "}", "[", "]", ","})

Toggled == [ObjectKey |-> "ObjectValue", ObjectValue |-> "ObjectKey",
            FlowObjectKey |-> "FlowObjectValue",
            FlowObjectValue |-> "FlowObjectKey"]

\* toggleObjectState
Toggle(s) ==
  IF LastState(s) \in DOMAIN Toggled
  THEN [s EXCEPT !.states[Len(s.states)] = Toggled[@]]
  ELSE s

\* Mutants of PushState: past the limit no indent is pushed; no error is recorded.
PushStateNoIndent(s, frame, op) ==
  LET t == [s EXCEPT !.states = Append(@, frame), !.op = op]
  IN  IF Len(t.states) <= MaxNestingDepth
      THEN [t EXCEPT !.indents = Append(@, s.idn)] ELSE Fail(t)

PushStateUnlimited(s, frame, op) ==
  [s EXCEPT !.states = Append(@, frame), !.indents = Append(@, s.idn), !.op = op]

\* pushState: past the depth limit the frame is pushed and the error recorded.
PushState(s, frame, op) ==
  LET ind == IF frame = "MultiLineValue" /\ LastState(s) # "ArrayValue"
             THEN s.idn + 1 ELSE s.idn
      t   == [s EXCEPT !.states  = Append(@, frame),
                       !.indents = Append(@, ind), !.op = op]
  IN  IF Len(t.states) <= MaxNestingDepth THEN t ELSE Fail(t)

\* Mutant of KeepFrames: the value is taken for complete with one frame left.
KeepFramesOffByOne(s, n) ==
  [s EXCEPT !.states = SubSeq(@, 1, n), !.indents = SubSeq(@, 1, n), !.endTop = @ \/ n <= 1]

\* The first n frames of the stack; an emptied stack ends the top-level value.
KeepFrames(s, n) ==
  [s EXCEPT !.states  = SubSeq(@, 1, n), !.indents = SubSeq(@, 1, n),
            !.endTop  = @ \/ n = 0]

\* popState, at the closing bracket of a flow value
PopState(s, op) ==
  LET n == Len(s.states) - 1
  IN  Goto(KeepFrames(s, n), IF n = 0 THEN "EndTop" ELSE "EndValue", op)

\* Mutants of OpensObject: by indent alone; a sibling key opens a mapping too.
OpensObjectByIndent(s) == s.states = <<>> \/ IndentDiff(s) > 0

OpensObjectSameIndent(s) ==
  s.states = <<>> \/ (LastState(s) \in {"ObjectValue", "ArrayValue"} /\ IndentDiff(s) >= 0)

\* pushObjectState: ':' has ended a key.  The result of pushState is ignored.
OpensObject(s) ==
  \/ s.states = <<>>
  \/ LastState(s) = "ObjectValue" /\ IndentDiff(s) > 0
  \/ LastState(s) = "ArrayValue"  /\ IndentDiff(s) >= 0

AfterKey(s, c) ==
  IF c \in LineBreak THEN EndLine(s, "ObjectKey") ELSE Stay(s, "ObjectKey")

PushObjectState(s, c) ==
  LET t == [s EXCEPT !.step = "BeginValueOrEmpty"]
  IN  CASE OpensObject(s) ->
             AfterKey(PushState([t EXCEPT !.sameLine = TRUE],
                                "ObjectValue", "ObjectValue"), c)
        [] ~OpensObject(s) /\ LastState(s) = "ObjectValue" /\ s.sameLine -> Fail(t)
        [] OTHER ->
             CASE c = "{" -> PushState(Toggle(t), "FlowObjectKey", "BeginObject")
               [] c = "[" -> PushState(Toggle(t), "FlowArrayValue", "BeginArray")
               [] OTHER   -> AfterKey(Toggle(t), c)

\* pushArrayState: "- " has been read.  The result of pushState is ignored.
PushArrayState(s) ==
  LET t == [s EXCEPT !.idn = @ + 2]
      opens == \/ s.states = <<>>
               \/ /\ LastState(s) \in {"ArrayValue", "ObjectValue"}
                  /\ IndentDiff(t) > 0
  IN  CASE s.sameLine -> Fail(s)
        [] ~s.sameLine /\ opens ->
             Goto(PushState(t, "ArrayValue", "ArrayValue"),
                  "BeginValueOrEmpty", "SkipSpace")
        [] ~s.sameLine /\ ~opens /\ LastState(s) = "ArrayValue" /\ IndentDiff(t) = 0 ->
             Goto(t, "BeginValueOrEmpty", "SkipSpace")
        [] OTHER -> Fail(t)

-----------------------------------------------------------------------------
(***************************************************************************)
(* Values.                                                                 *)
(***************************************************************************)
\* stateEndTop: an unexpected byte records the error but returns scanEnd.
EndTop(s, c) ==
  CASE c \in Space     -> [s EXCEPT !.idn = @ + 1, !.op = "End"]
    [] c \in LineBreak -> [s EXCEPT !.idn = 0, !.op = "End"]
    [] c = "-" /\ s.idn = 0 -> Goto(s, "NewDoc1", "Continue")
    [] c = "." /\ s.idn = 0 -> Goto(s, "EndYaml1", "Continue")
    [] OTHER -> Stay(Fail(s), "End")

\* stateBeginValue
LiteralStep(c) ==
  CASE c = "dq" -> "InString"      [] c = "sq" -> "InStringSq"
    [] c = "-"  -> "Hyphen"        [] c = "&"  -> "BeginAnchor"
    [] c = "*"  -> "BeginAlias"    [] c = "!"  -> "ExplicitType1"
    [] c = "."  -> "DotBegin"      [] c = "<"  -> "BeginMerge"
    [] OTHER    -> "InStringUnq"

BeginValue(s, c) ==
  CASE s.endTop -> EndTop([s EXCEPT !.step = "EndTop"], c)
    [] ~s.endTop /\ c \in LineBreak -> EndLine(s, "SkipSpace")
    [] ~s.endTop /\ c = "{" ->
         PushState([s EXCEPT !.step = "BeginValueOrEmpty"], "FlowObjectKey", "BeginObject")
    [] ~s.endTop /\ c = "[" ->
         PushState([s EXCEPT !.step = "BeginValueOrEmpty"], "FlowArrayValue", "BeginArray")
    [] ~s.endTop /\ c = "%" /\ s.idn = 0 -> Goto(s, "InDirective", "Continue")
    [] ~s.endTop /\ c \in {"|", ">"} ->
         PushState([s EXCEPT !.step = "BeginMultilineChomp"], "MultiLineValue", "BeginLiteral")
    [] ~s.endTop /\ c = "#" -> Goto(s, "BeginComment", "SkipSpace")
    [] ~s.endTop /\ c \in PlainHead \cup {"dq", "sq", "-", "&", "*", "!", ".", "<"} ->
         Goto(s, LiteralStep(c), "BeginLiteral")
    [] OTHER -> Fail(s)

\* stateEndValue, by the frame on top of the stack.  In parseFlowObjectKey the
\* code calls stateBeginValueOrEmpty on '{' or '[', which is stateBeginValue.
EndValueIn(s, c) ==
  LET top   == LastState(s)
      colon == s.lastc = ":" /\ c \in White
  IN
  CASE top = "ObjectKey" /\ colon ->
         IF c \in LineBreak THEN EndLine(Toggle(s), "ObjectKey")
         ELSE Goto(Toggle(s), "BeginValueOrEmpty", "ObjectKey")
    [] top = "ObjectValue" /\ c \in LineBreak -> EndLine(Toggle(s), "ObjectValue")
    [] top = "FlowObjectKey" /\ colon -> Goto(Toggle(s), "BeginValueOrEmpty", "ObjectKey")
    [] top = "FlowObjectKey" /\ s.lastc = ":" /\ c \in {"{", "["} -> BeginValue(Toggle(s), c)
    [] top = "FlowObjectValue" /\ c = "," -> Goto(Toggle(s), "BeginValueOrEmpty", "ObjectValue")
    [] top = "FlowObjectValue" /\ c = "}" -> PopState(s, "EndObject")
    [] top = "ArrayValue" /\ c \in LineBreak -> EndLine(s, "ArrayValue")
    [] top = "FlowArrayValue" /\ c = "," -> Goto(s, "BeginValueOrEmpty", "ArrayValue")
    [] top = "FlowArrayValue" /\ c = "]" -> PopState(s, "EndArray")
    [] top = "MultiLineValue" /\ c \in LineBreak -> EndLine(s, "SkipSpace")
    [] OTHER -> Fail(s)

EndValue(s, c) ==
  CASE c \in Space -> Goto(s, "EndValue", "SkipSpace")
    [] c = "#"     -> Goto(s, "BeginComment", "SkipSpace")
    [] c = ":"     -> PushObjectState(s, c)
    [] c \notin Space \cup {"#", ":"} /\ s.states = <<>> ->
         EndTop([s EXCEPT !.step = "EndTop", !.endTop = TRUE], c)
    [] OTHER -> EndValueIn(s, c)

\* stateBeginValueOrEmpty: '}' after a comma, or at once, closes the object.
BeginValueOrEmpty(s, c) ==
  CASE c \in Space      -> Stay(s, "SkipSpace")
    [] c \in LineBreak  -> EndLine(s, "SkipSpace")
    [] c \in {"]", ","} -> EndValue(s, c)
    [] c = "}" /\ LastState(s) \in {"FlowObjectKey", "FlowObjectValue"} ->
         EndValue([s EXCEPT !.states[Len(s.states)] = "FlowObjectValue"], c)
    [] c = "}" /\ LastState(s) \notin {"FlowObjectKey", "FlowObjectValue"} -> Fail(s)
    [] OTHER -> BeginValue(s, c)

-----------------------------------------------------------------------------
(***************************************************************************)
(* Lines.  stateBeginLine compares the indent of a new line with the       *)
(* frames: it pops a frame, toggles the object below and runs again until  *)
(* a frame keeps the line.  LeavesFrame says when frame i is popped,       *)
(* FramesKept is where the popping stops.                                  *)
(***************************************************************************)
LeavesFrame(s, i, c) ==
  LET d == s.idn - s.indents[i]
  IN  \/ s.states[i] \in ObjectFrame \cup {"MultiLineValue"} /\ d < 0
      \/ s.states[i] = "ArrayValue" /\ d < -2
      \/ s.states[i] = "ArrayValue" /\ d = -2 /\ c # "-" /\ ~(c = "." /\ s.idn = 0)

FramesKept(s, c) ==
  CHOOSE n \in 0..Len(s.states) :
    /\ \A i \in (n + 1)..Len(s.states) : LeavesFrame(s, i, c)
    /\ n > 0 => ~LeavesFrame(s, n, c)

Unwind(s, c) ==
  LET n == FramesKept(s, c)
  IN  IF n = Len(s.states) THEN s ELSE Toggle(KeepFrames(s, n))

\* The bottom frame was a block sequence and the line stands at its hyphens.
EndsTopArray(s, c) ==
  /\ s.states # <<>> /\ FramesKept(s, c) = 0
  /\ s.states[1] = "ArrayValue" /\ s.idn - s.indents[1] = -2

BeginLineIn(s, c) ==
  LET top == LastState(s)
      d   == IndentDiff(s)
  IN
  CASE top = "ObjectKey" /\ d > 0 -> Fail(s)
    [] top = "ObjectValue" /\ d = 0 /\ c = "-" -> Goto(s, "BeginArrayValueS", "BeginLiteral")
    [] top = "ObjectValue" /\ d = 0 /\ c # "-" -> BeginValue(Toggle(s), c)
    [] top = "ArrayValue" /\ d = -2 /\ c = "-" -> Goto(s, "BeginArrayValueS", "SkipSpace")
    [] top = "ArrayValue" /\ d = -2 /\ c = "." -> Goto(s, "EndYaml1", "Continue")
    [] top = "ArrayValue" /\ d # -2 -> Fail(s)
    [] top = "MultiLineValue" -> Goto(s, "InMultiline", "Continue")
    [] OTHER -> BeginValue(s, c)

BeginLine(s, c) ==
  CASE c \in LineBreak -> [s EXCEPT !.idn = 0, !.op = "SkipSpace"]
    [] c \in Space     -> [s EXCEPT !.idn = @ + 1, !.op = "SkipSpace"]
    [] c = "#"         -> Goto(s, "BeginComment", "SkipSpace")
    [] OTHER -> IF EndsTopArray(s, c) THEN Fail(Unwind(s, c))
                ELSE BeginLineIn(Unwind(s, c), c)

BeginComment(s, c) ==
  IF c \in LineBreak THEN EndLine(s, "SkipSpace") ELSE Stay(s, "SkipSpace")

\* Mutant of EmptyLine: a value may stand on the line of '|' or '>'.
EmptyLineTakesValue(s, c) ==
  CASE c \in Space     -> Stay(s, "Continue")
    [] c \in LineBreak -> EndLine(s, "Continue")
    [] c = "#"         -> Goto(s, "BeginComment", "SkipSpace")
    [] OTHER           -> BeginValue(s, c)

EmptyLine(s, c) ==
  CASE c \in Space     -> Stay(s, "Continue")
    [] c \in LineBreak -> EndLine(s, "Continue")
    [] c = "#"         -> Goto(s, "BeginComment", "SkipSpace")
    [] OTHER           -> Fail(s)

BeginMultiline(s, c) ==
  CASE c \in Space     -> Goto(s, "EmptyLine", "Continue")
    [] c \in LineBreak -> EndLine(s, "Continue")
    [] OTHER           -> Fail(s)

BeginMultilineChomp(s, c) ==
  IF c \in {"+", "-"} THEN Goto(s, "BeginMultiline", "Continue") ELSE BeginMultiline(s, c)

InMultiline(s, c) ==
  IF c \in LineBreak THEN EndLine(s, "SkipSpace") ELSE Stay(s, "Continue")

-----------------------------------------------------------------------------
(***************************************************************************)
(* Plain scalars and the tokens that begin like one.                       *)
(***************************************************************************)
InStringUnq(s, c) ==
  CASE IsUnqDelim(s, c) -> EndValue(s, c)
    [] c = ":"          -> Goto(s, "KeyOrUnq", "Continue")
    [] c \in Space      -> Goto(s, "InStringUnqOrComment", "Continue")
    [] c = "ctl"        -> Fail(s)
    [] OTHER            -> Stay(s, "Continue")

InStringUnqOrComment(s, c) ==
  CASE c \in Space -> Stay(s, "Continue")
    [] c = "#"     -> Goto(s, "BeginComment", "SkipSpace")
    [] OTHER       -> InStringUnq([s EXCEPT !.step = "InStringUnq"], c)

KeyOrUnq(s, c) ==
  IF c \in Space \/ IsUnqDelim(s, c) THEN PushObjectState(s, c)
  ELSE InStringUnq([s EXCEPT !.step = "InStringUnq"], c)

\* stateBeginMerge: any byte after '<', a line break too, continues the scalar.
BeginMerge(s, c) == Goto(s, IF c = "<" THEN "Merge1" ELSE "InStringUnq", "Continue")

\* stateHyphen
Hyphen(s, c) ==
  CASE c \in Space            -> PushArrayState(s)
    [] c = "-" /\ s.idn = 0   -> Goto(s, "NewDoc2", "Continue")
    [] c \in LineBreak        -> EndValue(s, c)
    [] OTHER                  -> Goto(s, "InStringUnq", "Continue")

BeginArrayValueS(s, c) ==
  CASE c \in Space          -> PushArrayState(s)
    [] c = "-" /\ s.idn = 0 -> Goto(s, "NewDoc2", "Continue")
    [] OTHER                -> Fail(s)

\* stateDotBegin does not change the step for a byte that stateInStringUnq keeps.
DotBegin(s, c) ==
  IF c = "." /\ s.idn = 0 THEN Goto(s, "EndYaml2", "Continue") ELSE InStringUnq(s, c)

BeginAnchor(s, c) ==
  IF c \in NameByte THEN Goto(s, "InAnchor", "Continue") ELSE Fail(s)

InAnchor(s, c) ==
  CASE c \in NameByte  -> Stay(s, "Continue")
    [] c \in Space     -> Goto(s, "BeginValueOrEmpty", "SkipSpace")
    [] c \in LineBreak -> EndLine(s, "SkipSpace")
    [] OTHER           -> Fail(s)

BeginAlias(s, c) ==
  IF c \in NameByte THEN Goto(s, "InAlias", "Continue") ELSE Fail(s)

InAlias(s, c) ==
  CASE c \in NameByte -> Stay(s, "Continue")
    [] c \in Space    -> Goto(s, "EndValue", "SkipSpace")
    [] c \notin NameByte \cup Space /\ (c = ":" \/ IsUnqDelim(s, c)) -> EndValue(s, c)
    [] OTHER          -> Fail(s)

ExplicitType1(s, c) ==
  IF c = "!" THEN Goto(s, "ExplicitType2", "Continue") ELSE Fail(s)

ExplicitType2(s, c) ==
  CASE c \in Lower \cup {"/"} -> Stay(s, "Continue")
    [] c \in White \cup {":"} -> Goto(s, "BeginValueOrEmpty", "SkipSpace")
    [] OTHER                  -> Fail(s)

-----------------------------------------------------------------------------
(***************************************************************************)
(* Quoted scalars.                                                         *)
(***************************************************************************)
\* stateInStringEsc and stateInStringEscx, u, U: 2, 4 or 8 digits to come
HexCount == [x |-> 2, u |-> 4, U |-> 8]

InStringEsc(s, c) ==
  CASE c \in Escaped -> Goto(s, "InString", "Continue")
    [] c \in DOMAIN HexCount -> [Goto(s, "InStringHex", "Continue") EXCEPT !.hex = HexCount[c]]
    [] c \in LineBreak /\ s.lastc = "\\" -> Goto(s, "InString", "Continue")
    [] OTHER -> Fail(s)

InStringHex(s, c) ==
  IF c \in Hex
  THEN [s EXCEPT !.hex = @ - 1, !.step = IF s.hex = 1 THEN "InString" ELSE @,
                 !.op = "Continue"]
  ELSE Fail([s EXCEPT !.hex = 0])

\* stateInString: either quote ends the string.
InString(s, c) ==
  CASE c \in {"dq", "sq"} -> Goto(s, "EndValue", "Continue")
    [] c = "\\"           -> Goto(s, "InStringEsc", "Continue")
    [] c = "LF" /\ s.lastc = "\\" -> InStringEsc(s, c)
    [] c \in Control /\ ~(c = "LF" /\ s.lastc = "\\") -> Fail(s)
    [] OTHER              -> Stay(s, "Continue")

InStringSq(s, c) ==
  IF c = "sq" THEN Goto(s, "InStringSq2", "Continue") ELSE Stay(s, "Continue")

InStringSq2(s, c) ==
  IF c = "sq" THEN Goto(s, "InStringSq", "Continue") ELSE EndValue(s, c)

-----------------------------------------------------------------------------
(***************************************************************************)
(* Directives, document separators and the end of input.                   *)
(***************************************************************************)
InDirective(s, c) ==
  CASE c \notin NoPrint -> Stay(s, "Continue")
    [] c \in LineBreak  -> Goto(s, "NewDoc", "Continue")
    [] OTHER            -> Fail(s)

\* One more byte of "---" or "...".
Expect(s, c, want, next) == IF c = want THEN Goto(s, next, "Continue") ELSE Fail(s)

\* Mutant of FlowOpen: only the innermost collection is looked at.
FlowOpenOnTop(s) == InFlow(s)

FlowOpen(s) == \E i \in 1..Len(s.states) : s.states[i] \in FlowFrame

\* Mutant of EofWith: a complete value is accepted with an error on record.
EofWithoutError(s, t) ==
  CASE s.endTop -> Stay(s, "End")
    [] ~s.endTop /\ s.err -> Stay(s, "Error")
    [] ~s.endTop /\ ~s.err /\ FlowOpen(s) -> [s EXCEPT !.err = TRUE, !.op = "Error"]
    [] OTHER -> Stay(t, IF t.endTop \/ ~t.err THEN "End" ELSE "Error")

\* eof, where t is the scanner after s.step(s, '\n').
EofWith(s, t) ==
  CASE s.err -> Stay(s, "Error")
    [] ~s.err /\ s.endTop -> Stay(s, "End")
    [] ~s.err /\ ~s.endTop /\ FlowOpen(s) -> [s EXCEPT !.err = TRUE, !.op = "Error"]
    [] OTHER -> Stay(t, IF t.endTop \/ ~t.err THEN "End" ELSE "Error")

\* Mutant of NewDoc3: the separator starts a document without checking the last.
NewDoc3Unchecked(s, c) ==
  CASE c \in Space     -> Stay(s, "SkipSpace")
    [] c = "#"         -> Goto(s, "BeginComment", "SkipSpace")
    [] c \in LineBreak -> Reset
    [] OTHER           -> Fail(s)

\* stateNewDoc3: a line break checks the document and starts the next one.
NewDoc3(s, c) ==
  CASE c \in Space -> Stay(s, "SkipSpace")
    [] c = "#"     -> Goto(s, "BeginComment", "SkipSpace")
    [] c \in LineBreak ->
         LET b == [s EXCEPT !.step = "BeginLine"]
             e == EofWith(b, BeginLine(b, "LF"))
         IN  IF e.op = "Error" THEN e ELSE Reset
    [] OTHER -> Fail(s)

\* stateEndYaml3: a line break checks the document; nothing follows it.
EndYaml3(s, c) ==
  CASE c \in Space -> Stay(s, "SkipSpace")
    [] c = "#"     -> Goto(s, "BeginComment", "SkipSpace")
    [] c \in LineBreak ->
         LET b == [s EXCEPT !.step = "EndYaml"]
         IN  EofWith(b, Stay(b, "End"))
    [] OTHER -> Fail(s)

\* s.step(s, c)
Step(s, c) ==
  CASE s.step = "BeginLine"            -> BeginLine(s, c)
    [] s.step = "BeginValueOrEmpty"    -> BeginValueOrEmpty(s, c)
    [] s.step = "BeginValue"           -> BeginValue(s, c)
    [] s.step = "EndValue"             -> EndValue(s, c)
    [] s.step = "EndTop"               -> EndTop(s, c)
    [] s.step = "EndYaml"              -> Stay(s, "End")
    [] s.step = "KeyOrUnq"             -> KeyOrUnq(s, c)
    [] s.step = "BeginComment"         -> BeginComment(s, c)
    [] s.step = "BeginMerge"           -> BeginMerge(s, c)
    [] s.step = "Merge1"               -> Fail(s)
    [] s.step = "EmptyLine"            -> EmptyLine(s, c)
    [] s.step = "BeginMultilineChomp"  -> BeginMultilineChomp(s, c)
    [] s.step = "BeginMultiline"       -> BeginMultiline(s, c)
    [] s.step = "InMultiline"          -> InMultiline(s, c)
    [] s.step = "InStringUnqOrComment" -> InStringUnqOrComment(s, c)
    [] s.step = "InStringUnq"          -> InStringUnq(s, c)
    [] s.step = "InString"             -> InString(s, c)
    [] s.step = "InStringSq"           -> InStringSq(s, c)
    [] s.step = "InStringSq2"          -> InStringSq2(s, c)
    [] s.step = "BeginAnchor"          -> BeginAnchor(s, c)
    [] s.step = "InAnchor"             -> InAnchor(s, c)
    [] s.step = "BeginAlias"           -> BeginAlias(s, c)
    [] s.step = "InAlias"              -> InAlias(s, c)
    [] s.step = "InStringEsc"          -> InStringEsc(s, c)
    [] s.step = "InStringHex"          -> InStringHex(s, c)
    [] s.step = "InDirective"          -> InDirective(s, c)
    [] s.step = "NewDoc"               -> Expect(s, c, "-", "NewDoc1")
    [] s.step = "NewDoc1"              -> Expect(s, c, "-", "NewDoc2")
    [] s.step = "NewDoc2"              -> Expect(s, c, "-", "NewDoc3")
    [] s.step = "NewDoc3"              -> NewDoc3(s, c)
    [] s.step = "EndYaml1"             -> Expect(s, c, ".", "EndYaml2")
    [] s.step = "EndYaml2"             -> Expect(s, c, ".", "EndYaml3")
    [] s.step = "EndYaml3"             -> EndYaml3(s, c)
    [] s.step = "BeginArrayValueS"     -> BeginArrayValueS(s, c)
    [] s.step = "Hyphen"               -> Hyphen(s, c)
    [] s.step = "DotBegin"             -> DotBegin(s, c)
    [] s.step = "ExplicitType1"        -> ExplicitType1(s, c)
    [] s.step = "ExplicitType2"        -> ExplicitType2(s, c)
    [] OTHER                           -> Stay(s, "Error")

\* (s *scanner) eof()
Eof(s) == EofWith(s, Step(s, "LF"))
===============================================================================
