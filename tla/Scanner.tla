-------------------------------- MODULE Scanner --------------------------------
(***************************************************************************)
(* checkValid of scanner.go: a scanner is fed one byte after the other     *)
(* until it reports an error or the input ends.  The input is not stored:  *)
(* any byte of Input may come next, so a run covers every input of every   *)
(* length whose lines are indented by at most MaxIdn and whose nesting     *)
(* stays within MaxStack frames.                                           *)
(***************************************************************************)
EXTENDS ScannerOps

CONSTANTS
  Input,      \* the byte classes that occur in the input
  MaxIdn,     \* bound on the indent of a line
  MaxStack    \* bound on the depth of the stack, above MaxNestingDepth

ASSUME InputAssumption == Input \subseteq Byte

VARIABLES
  scan,       \* the scanner
  verdict     \* "scanning", or what checkValid has returned

vars == <<scan, verdict>>

Verdicts == {"scanning", "valid", "invalid"}

Init == scan = Reset /\ verdict = "scanning"

WithinBounds == scan'.idn <= MaxIdn /\ Len(scan'.states) <= MaxStack

\* One turn of the loop of checkValid.
ReadByte(c) ==
  /\ verdict = "scanning"
  /\ LET t == Step(scan, c)
     IN  IF t.op = "Error"
         THEN scan' = t /\ verdict' = "invalid"
         ELSE scan' = LastInput(t, c) /\ UNCHANGED verdict
  /\ WithinBounds

\* The loop is over: checkValid asks eof().
EndOfInput ==
  /\ verdict = "scanning"
  /\ scan' = Eof(scan)
  /\ verdict' = IF scan'.op = "Error" THEN "invalid" ELSE "valid"

\* freeScanner puts the scanner into the pool, newScanner takes it out again
\* for another input and checkValid resets it.
Reuse ==
  /\ verdict # "scanning"
  /\ scan' = Reset
  /\ verdict' = "scanning"

Next == (\E c \in Input : ReadByte(c)) \/ EndOfInput \/ Reuse

Spec == Init /\ [][Next]_vars

-----------------------------------------------------------------------------
\* The scanner is well typed: states and indents have the same length, and an
\* escape wants digits in the state that counts them.
TypeOK ==
  /\ scan \in ScannerRecord
  /\ verdict \in Verdicts
  /\ Len(scan.states) = Len(scan.indents)
  /\ scan.step = "InStringHex" <=> scan.hex > 0

\* No block frame ever stands on a flow frame: between '[' or '{' and its
\* closing bracket the indent means nothing.  stateBeginLine, which pops block
\* frames by indent, relies on it to leave flow frames alone; the one exception
\* is a block literal, which is popped before anything is pushed on it.
FlowStaysOnTop ==
  \A i, j \in 1..Len(scan.states) :
    i < j => /\ scan.states[i] \in FlowFrame => scan.states[j] \in FlowFrame \cup {"MultiLineValue"}
             /\ scan.states[i] # "MultiLineValue"

\* While a block literal is on top of the stack only its own state functions run:
\* the case parseMultiLineValue of stateEndValue is never reached.
LiteralKeepsControl ==
  LastState(scan) = "MultiLineValue" => scan.step \in LiteralSteps

\* endTop says that the top-level value is complete: then nothing is open, and
\* whatever begins a line next is handled by stateEndTop.
EndTopMeansEmpty == scan.endTop => scan.states = <<>>

\* pushArrayState and pushObjectState overwrite what pushState answers, so
\* scanning goes on past the depth limit; the error is on record nevertheless.
DepthReported == Len(scan.states) > MaxNestingDepth => scan.err

\* Block collections nest by indent: a sequence is deeper than what holds it, a
\* mapping deeper than a mapping and no shallower than a sequence.
IndentsNest ==
  \A i \in 1..(Len(scan.states) - 1) :
    LET inner == scan.indents[i + 1] outer == scan.indents[i]
    IN  /\ scan.states[i] \in ObjectFrame \cup {"ArrayValue"} /\ scan.states[i+1] = "ArrayValue"
             => inner > outer
        /\ scan.states[i] \in ObjectFrame /\ scan.states[i+1] \in ObjectFrame => inner > outer
        /\ scan.states[i] = "ArrayValue" /\ scan.states[i+1] \in ObjectFrame => inner >= outer

\* sameLine is set only between a block key and the end of its line: the
\* innermost block collection is then a mapping whose value is being read.
BlockCollections ==
  {i \in 1..Len(scan.states) : scan.states[i] \in ObjectFrame \cup {"ArrayValue"}}

SameLineHasKey ==
  scan.sameLine /\ ~scan.err =>
    /\ scan.step # "BeginLine"
    /\ \E i \in BlockCollections :
         /\ scan.states[i] = "ObjectValue"
         /\ \A j \in BlockCollections : j <= i

\* What checkValid accepts has no recorded error, and an error on record stays on
\* record until checkValid returns: no separator, comment or later value hides it.
AcceptedIsClean == verdict = "valid" => ~scan.err

ErrorIsKept == [][verdict = "scanning" /\ scan.err => scan'.err]_vars

-----------------------------------------------------------------------------
\* The scanner implements the nesting of flow collections its callers rely on.  The
\* flow frames are next to each other on the stack (FlowStaysOnTop): above from, up to to.
FlowSpan(st) ==
  CHOOSE p \in [from : 0..Len(st), to : 0..Len(st)] :
    /\ p.from <= p.to
    /\ \A i \in 1..Len(st) : st[i] \in FlowFrame <=> p.from < i /\ i <= p.to

FlowKinds(st) ==
  LET p == FlowSpan(st)
  IN  [i \in 1..(p.to - p.from) |->
         IF st[p.from + i] = "FlowArrayValue" THEN "array" ELSE "object"]

Nesting == INSTANCE FlowNesting WITH
  open  <- FlowKinds(scan.states),
  event <- scan.op

ImplementsFlowNesting == Nesting!Spec
===============================================================================
