------------------------------- MODULE ParserOps -------------------------------
(***************************************************************************)
(* The moves of decodeState over its data (decode.go): it runs the scanner *)
(* a second time over a document that checkValid has accepted, and looks   *)
(* ahead in the text where an opcode alone does not tell a literal from a  *)
(* key.  A method of decodeState is an operator on a record d; the module  *)
(* has no variables.  d.off counts the bytes read, as in the code, so that *)
(* d.data[d.off] is the last byte read and d.data[d.off + 1] the next.     *)
(***************************************************************************)
EXTENDS ScannerOps, Separators

\* checkValid: a byte after an error is not scanned.
ScanByte(s, c) == IF s.op = "Error" THEN s ELSE LastInput(Step(s, c), c)

Accepts(s) == s.op # "Error" /\ Eof(s).op # "Error"

checkValid(text) ==
  LET after[n \in 0..Len(text)] == IF n = 0 THEN Reset ELSE ScanByte(after[n - 1], text[n])
  IN  Accepts(after[Len(text)])

\* The document Unmarshal decodes: the first one after a "---", up to the next
\* separator.
Document(text) ==
  LET start == documentStartIndex(text)
      rest  == Drop(text, start)
      body  == IF start > 0 THEN UpToNext(rest, documentStartIndex(rest)) ELSE text
      end   == documentEndIndex(body)
  IN  IF end > -1 THEN Keep(body, end) ELSE body

\* (d *decodeState) init and d.scan.reset().  anchors is a partial function from
\* names to values, savedError says that an error is saved.
NewState(text) ==
  [data |-> text, off |-> 0, opcode |-> "Continue", scan |-> Reset,
   anchors |-> <<>>, savedError |-> FALSE]

SaveError(d) == [d EXCEPT !.savedError = TRUE]

LastByte(d)  == d.data[d.off]
ByteIsIn(d)  == d.off \in 1..Len(d.data)
Depth(d)     == Len(d.scan.states)

\* A byte of a scanning loop, or the end of the data: t is the scanner after it.
NextByte(d) == d.data[d.off + 1]
Moved(d, t) == [d EXCEPT !.scan = LastInput(t, NextByte(d)), !.opcode = t.op, !.off = @ + 1]
Over(d, t)  == [d EXCEPT !.scan = t, !.opcode = t.op, !.off = Len(d.data) + 1]

Read(d)     == Moved(d, Step(d.scan, NextByte(d)))
scanNext(d) == IF d.off < Len(d.data) THEN Read(d) ELSE Over(d, Eof(d.scan))

\* The states after 0, 1, ..., n turns of a loop
Iterates(Turn(_), d, n) ==
  LET after[k \in 0..n] == IF k = 0 THEN d ELSE Turn(after[k - 1]) IN after

\* How many bytes are left, and the states after each of them.
Left(d)  == IF d.off < Len(d.data) THEN Len(d.data) - d.off ELSE 0
Reads(d) == Iterates(Read, d, Left(d))

\* The loops read one byte, and go on while the opcode is one of ops and the stack
\* of the scanner no lower than depth.  They stop after a byte, or with the data.
\* after is what Reads returns.
GoesOn(e, ops, depth) == e.opcode \in ops /\ Depth(e) >= depth

Stops(after, ops, depth) == \E n \in 1..Left(after[0]) : ~GoesOn(after[n], ops, depth)

BytesRead(after, ops, depth) ==
  CHOOSE n \in 1..Left(after[0]) :
    /\ ~GoesOn(after[n], ops, depth)
    /\ \A k \in 1..(n - 1) : GoesOn(after[k], ops, depth)

Stopped(after, ops, depth) == after[BytesRead(after, ops, depth)]
AllRead(after)             == after[Left(after[0])]

WhileIn(after, ops) ==
  IF Stops(after, ops, 0) THEN Stopped(after, ops, 0)
  ELSE Over(AllRead(after), Eof(AllRead(after).scan))

scanWhile(d, op) == WhileIn(Reads(d), {op})

\* skip: until the stack of the scanner is lower than it is now; at the end of the
\* data d.off is set back by one byte.
PastDepth(after, depth) ==
  IF Stops(after, Opcode, depth) THEN Stopped(after, Opcode, depth)
  ELSE [AllRead(after) EXCEPT !.off = Len(AllRead(after).data) - 1]

skip(d) == PastDepth(Reads(d), Depth(d))

-----------------------------------------------------------------------------
(***************************************************************************)
(* quickScan: is the literal that has begun a key, an element of a block   *)
(* sequence, or a literal?                                                 *)
(***************************************************************************)
InBlock(s) == LastState(s) \in ObjectFrame \cup {"ArrayValue"}

\* The bytes read when the copy s of the scanner has left the quoted string.  The
\* copy never calls lastInput.
AfterQuoted(data, s, off) ==
  LET inside[i \in off..Len(data)] == IF i = off THEN s ELSE Step(inside[i - 1], data[i])
  IN  CHOOSE i \in off..Len(data) :
        /\ i = Len(data) \/ inside[i + 1].op # "Continue"
        /\ \A j \in (off + 1)..i : inside[j].op = "Continue"

QuotedStep == [dq |-> "InString", sq |-> "InStringSq"]

\* A ':' that ends a key comes before the next delimiter of plain scalars.
ColonAhead(d, from) ==
  \E j \in (from + 1)..Len(d.data) :
    /\ d.data[j] = ":"
    /\ \/ j = Len(d.data) \/ d.data[j + 1] \in White
       \/ LastByte(d) \in DOMAIN QuotedStep
    /\ \A k \in (from + 1)..(j - 1) : ~IsUnqDelim(d.scan, d.data[k])

PastSpace(d) == IF d.opcode = "SkipSpace" THEN scanWhile(d, "SkipSpace") ELSE d

\* After the name of an anchor: to the value that carries it.
AfterAnchor(d) == PastSpace(scanWhile(d, "Continue"))

AnchorName(d) == SubSeq(d.data, d.off + 1, scanWhile(d, "Continue").off - 1)

\* The scanner moves only past anchors, of which the first of two is kept.
PastAnchor(d) ==
  IF d.opcode = "BeginLiteral" /\ LastByte(d) = "&" THEN AfterAnchor(d) ELSE d

PastAnchors(d) == Iterates(PastAnchor, d, Left(d))[Left(d)]

PastQuoted(d, c) ==
  IF c \in DOMAIN QuotedStep
  THEN AfterQuoted(d.data, [Reset EXCEPT !.step = QuotedStep[c]], d.off) ELSE d.off

QuickOpcode(d) ==
  CASE d.opcode # "BeginLiteral" -> d.opcode
    [] /\ d.opcode = "BeginLiteral" /\ LastByte(d) = "-"
       /\ d.off = Len(d.data) \/ NextByte(d) \in White -> "BeginArray"
    [] OTHER -> IF ColonAhead(d, PastQuoted(d, LastByte(d))) THEN "BeginObject" ELSE "BeginLiteral"

\* quickScan, of a literal that has begun
Classified(e) == [e EXCEPT !.opcode = QuickOpcode(e)]
quickScan(d)  == Classified(PastAnchors(d))

QuickAnchor(d) == IF LastByte(d) = "&" THEN AnchorName(d) ELSE <<>>

-----------------------------------------------------------------------------
(***************************************************************************)
(* rescanLiteral: to the end of the literal or key that has begun.  The    *)
(* text of it is what lies between the read index before and after.        *)
(***************************************************************************)
\* A block literal ends where its frame is popped, and d.opcode keeps its value;
\* other literals end at a byte that does not continue them.  That byte is scanned
\* and not counted.
Uncounted(e) == [e EXCEPT !.off = @ - 1]

UpTo(after, ops, depth) ==
  IF Stops(after, ops, depth) THEN Uncounted(Stopped(after, ops, depth)) ELSE AllRead(after)

PastMultiline(d)    == [UpTo(Reads(d), Opcode, Depth(d)) EXCEPT !.opcode = d.opcode]
PastLiteral(d, ops) == UpTo(Reads(d), ops, 0)

\* After the name of an explicit type the scan starts again at its value.
AfterType(d) == PastLiteral(d, {"Continue", "SkipSpace"})
HasValue(e)  == e.off < Len(e.data) /\ e.opcode = "BeginLiteral"

BeginValueOf(d, e) == IF HasValue(e) THEN [e EXCEPT !.off = @ + 1] ELSE d
PastType(d)        == IF LastByte(d) = "!" THEN BeginValueOf(d, AfterType(d)) ELSE d
PastTypes(d)       == Iterates(PastType, d, Left(d))[Left(d)]

PastValue(d) ==
  CASE LastByte(d) \in {"|", ">"} -> IF LastState(d.scan) = "MultiLineValue" THEN PastMultiline(d) ELSE d
    [] LastByte(d) = "!" -> AfterType(d)
    [] OTHER -> PastLiteral(d, {"Continue"})

\* The end of rescanLiteral: the end of the data, and back to the ':' of a key.
AtEnd(e) == IF e.off = Len(e.data) THEN [e EXCEPT !.opcode = "End"] ELSE e

BackToColon(e) ==
  /\ e.scan.lastc = ":" /\ e.opcode \in {"ObjectKey", "End"}
  /\ e.off < Len(e.data) => NextByte(e) # ":"

Rescanned(e) == [e EXCEPT !.off = IF BackToColon(e) THEN @ ELSE @ + 1]

rescanLiteral(d) == Rescanned(AtEnd(PastValue(PastTypes(d))))

\* d.data[start:d.readIndex()], start the read index before rescanLiteral and e the
\* state after it
Item(d, e) == SubSeq(d.data, d.off, e.off - 1)
===============================================================================
