------------------------------ MODULE ScannerProofs ------------------------------
(***************************************************************************)
(* Theorems about checkValid: the invariants of Scanner, for input of any  *)
(* length, any depth of nesting and any depth limit.  Each follows from    *)
(* Sound(scan), which every call of a state function keeps (StepSound).    *)
(***************************************************************************)
EXTENDS Scanner, ScannerFacts

\* The inductive invariant
Inv ==
  /\ Sound(scan)
  /\ verdict \in Verdicts
  /\ AcceptedIsClean

\* It holds of a scanner that newScanner has reset.
LEMMA InitInv == Init => Inv
  BY ResetSound DEF Init, Inv, Verdicts, AcceptedIsClean

\* A byte, the end of the input and the reuse of the scanner keep it.
LEMMA NextInv == Inv /\ [Next]_vars => Inv'
<1>. SUFFICES ASSUME Inv, [Next]_vars PROVE Inv'
  OBVIOUS
<1>. USE DEF Inv
<1>1. ASSUME NEW c \in Input, ReadByte(c) PROVE Inv'
  <2>. DEFINE t == Step(scan, c)
  <2>1. scan' = t \/ scan' = LastInput(t, c)
    BY <1>1 DEF ReadByte
  <2>2. verdict' \in Verdicts
    BY <1>1 DEF ReadByte, Verdicts
  <2>3. Sound(t)
    BY StepSound
  <2>. HIDE DEF t
  <2>4. verdict' # "valid"
    BY <1>1 DEF ReadByte
  <2>. QED
    BY <2>1, <2>2, <2>3, <2>4, LastInputSound DEF AcceptedIsClean
<1>2. ASSUME EndOfInput PROVE Inv'
  BY <1>2, EofSound, EofClean DEF EndOfInput, Verdicts, AcceptedIsClean
<1>3. ASSUME Reuse PROVE Inv'
  BY <1>3, ResetSound DEF Reuse, Verdicts, AcceptedIsClean
<1>4. CASE UNCHANGED vars
  BY <1>4 DEF vars, AcceptedIsClean
<1>. QED
  BY <1>1, <1>2, <1>3, <1>4 DEF Next

\* Sound(scan) holds of every behaviour of checkValid, on input of any length.
THEOREM ScannerInvariant == Spec => []Inv
<1>. QED
  BY InitInv, NextInv, PTL DEF Spec

\* The scanner is well typed, whatever the input: states and indents stay in step, and an
\* escape wants digits just in the state that counts them.
THEOREM ScannerTypeOK == Spec => []TypeOK
<1>1. Inv => TypeOK
  BY DEF Inv, Sound, Frames, Stacks, TypeOK
<1>. QED
  BY <1>1, ScannerInvariant, PTL

\* stateBeginLine may pop by indent: block frames never stand on flow frames, and
\* nothing on a block literal.
THEOREM ScannerFlowStaysOnTop == Spec => []FlowStaysOnTop
<1>1. Inv => FlowStaysOnTop
  BY DEF Inv, Sound, Frames, Stacks, Layered, FlowStaysOnTop
<1>. QED
  BY <1>1, ScannerInvariant, PTL

\* The case parseMultiLineValue of stateEndValue is never reached.
THEOREM ScannerLiteralKeepsControl == Spec => []LiteralKeepsControl
<1>1. Inv => LiteralKeepsControl
  BY DEF Inv, Sound, LiteralKeepsControl
<1>. QED
  BY <1>1, ScannerInvariant, PTL

\* When the top-level value is complete nothing is open.
THEOREM ScannerEndTopMeansEmpty == Spec => []EndTopMeansEmpty
<1>1. Inv => EndTopMeansEmpty
  BY DEF Inv, Sound, Frames, Stacks, EndTopMeansEmpty
<1>. QED
  BY <1>1, ScannerInvariant, PTL

\* Past the depth limit an error is on record, though pushArrayState and
\* pushObjectState overwrite the answer of pushState.
THEOREM ScannerDepthReported == Spec => []DepthReported
<1>1. Inv => DepthReported
  BY DEF Inv, Sound, Frames, Stacks, DepthReported
<1>. QED
  BY <1>1, ScannerInvariant, PTL

\* Block collections nest by indent.
THEOREM ScannerIndentsNest == Spec => []IndentsNest
<1>1. Inv => IndentsNest
  BY DEF Inv, Sound, Frames, Stacks, Nested, BlockFrame, IndentsNest
<1>. QED
  BY <1>1, ScannerInvariant, PTL

\* sameLine is set only while the value of a block key is read.
THEOREM ScannerSameLineHasKey == Spec => []SameLineHasKey
<1>1. Inv => SameLineHasKey
  <2>1. SUFFICES ASSUME Inv, scan.sameLine, ~scan.err
                 PROVE  /\ scan.step # "BeginLine"
                        /\ \E i \in BlockCollections : /\ scan.states[i] = "ObjectValue"
                                                       /\ \A j \in BlockCollections : j <= i
    BY DEF SameLineHasKey
  <2>2. PICK i \in 1..Len(scan.states) :
               /\ scan.states[i] = "ObjectValue"
               /\ \A j \in 1..Len(scan.states) : scan.states[j] \in BlockFrame => j <= i
    BY <2>1 DEF Inv, Sound, Frames, KeyOpen
  <2>3. scan.states[i] \in ObjectFrame
    BY <2>2 DEF ObjectFrame
  <2>. QED
    BY <2>1, <2>2, <2>3 DEF Inv, Sound, BlockCollections, BlockFrame
<1>. QED
  BY <1>1, ScannerInvariant, PTL

\* What checkValid accepts has no error on record: eof() answers scanEnd for endTop
\* without a look at err, but a line break that sets endTop records none.
THEOREM ScannerAcceptedIsClean == Spec => []AcceptedIsClean
<1>1. Inv => AcceptedIsClean
  BY DEF Inv
<1>. QED
  BY <1>1, ScannerInvariant, PTL

\* An error on record stays on record until checkValid returns.
THEOREM ScannerErrorIsKept == Spec => ErrorIsKept
<1>1. Inv /\ [Next]_vars => [verdict = "scanning" /\ scan.err => scan'.err]_vars
  <2>. SUFFICES ASSUME Inv, Next, verdict = "scanning", scan.err PROVE scan'.err
    OBVIOUS
  <2>1. Sound(scan)
    BY DEF Inv
  <2>2. ASSUME NEW c \in Input, ReadByte(c) PROVE scan'.err
    <3>1. Sound(Step(scan, c)) /\ Step(scan, c).err
      BY <2>1, StepSound
    <3>2. LastInput(Step(scan, c), c).err
      BY <3>1, LastInputSound
    <3>3. scan' = Step(scan, c) \/ scan' = LastInput(Step(scan, c), c)
      BY <2>2 DEF ReadByte
    <3>. QED
      BY <3>1, <3>2, <3>3
  <2>3. ASSUME EndOfInput PROVE scan'.err
    BY <2>1, <2>3, EofSound DEF EndOfInput
  <2>. QED
    BY <2>2, <2>3 DEF Next, Reuse
<1>. QED
  BY <1>1, ScannerInvariant, PTL DEF Spec, ErrorIsKept

-----------------------------------------------------------------------------
(***************************************************************************)
(* The flow collections on a stack.                                        *)
(***************************************************************************)
Spans(st, b, m) ==
  /\ b \in Nat /\ m \in Nat /\ b + m <= Len(st)
  /\ \A i \in 1..Len(st) : st[i] \in FlowFrame <=> b < i /\ i <= b + m

KindOf(f) == IF f = "FlowArrayValue" THEN "array" ELSE "object"

\* The flow frames of a layered stack are next to each other.
LEMMA SpanExists ==
  ASSUME NEW st \in Seq(Frame), Layered(st)
  PROVE  \E b, m : Spans(st, b, m)
<1>. DEFINE T == {i \in 1..Len(st) : st[i] \in FlowFrame}
<1>1. Len(st) \in Nat /\ T \subseteq 0..Len(st) /\ T \subseteq Nat
  OBVIOUS
<1>2. CASE T = {}
  BY <1>1, <1>2 DEF Spans
<1>3. CASE T # {}
  <2>. HIDE DEF T
  <2>1. PICK lo \in T : \A i \in T : lo <= i
    BY <1>1, <1>3, LeastNatural
  <2>2. PICK hi \in T : \A i \in T : i <= hi
    BY <1>1, <1>3, GreatestNatural
  <2>3. lo \in 1..Len(st) /\ hi \in 1..Len(st) /\ lo <= hi
    BY <2>1, <2>2 DEF T
  <2>4. ASSUME NEW i \in 1..Len(st), lo <= i, i <= hi PROVE st[i] \in FlowFrame
    <3>1. CASE i = lo \/ i = hi
      BY <2>1, <2>2, <3>1 DEF T
    <3>2. CASE lo < i /\ i < hi
      <4>1. st[lo] \in FlowFrame
        BY <2>1 DEF T
      <4>. QED
        BY <2>3, <3>2, <4>1 DEF Layered
    <3>. QED
      BY <2>3, <2>4, <3>1, <3>2
  <2>5. \A i \in 1..Len(st) : st[i] \in FlowFrame <=> lo <= i /\ i <= hi
    BY <2>1, <2>2, <2>4 DEF T
  <2>6. /\ lo - 1 \in Nat /\ hi - lo + 1 \in Nat /\ (lo - 1) + (hi - lo + 1) = hi
        /\ \A i \in 1..Len(st) : lo <= i <=> lo - 1 < i
    BY <2>3
  <2>7. Spans(st, lo - 1, hi - lo + 1)
    BY <2>3, <2>5, <2>6 DEF Spans
  <2>. QED
    BY <2>7
<1>. QED
  BY <1>2, <1>3

\* Whatever spans the flow frames tells their kinds.
LEMMA KindsAre ==
  ASSUME NEW st \in Seq(Frame), NEW b, NEW m, Spans(st, b, m)
  PROVE  /\ FlowKinds(st) = [i \in 1..m |-> KindOf(st[b + i])]
         /\ FlowKinds(st) \in Seq({"array", "object"}) /\ Len(FlowKinds(st)) = m
         /\ \A i \in 1..m : FlowKinds(st)[i] = KindOf(st[b + i])
<1>. DEFINE P(p) == /\ p.from <= p.to
                    /\ \A i \in 1..Len(st) : st[i] \in FlowFrame <=> p.from < i /\ i <= p.to
            R == [from : 0..Len(st), to : 0..Len(st)]
            p == FlowSpan(st)
            w == [from |-> b, to |-> b + m]
<1>1. Len(st) \in Nat /\ b \in 0..Len(st) /\ m \in Nat /\ b + m \in 0..Len(st)
  BY DEF Spans
<1>2. w \in R /\ P(w)
  BY <1>1 DEF Spans
<1>3. p \in R /\ P(p)
  <2>1. p = CHOOSE x \in R : P(x)
    BY DEF FlowSpan
  <2>. HIDE DEF P, R, w, p
  <2>. QED
    BY <1>2, <2>1
<1>4. PICK f \in Nat, t \in Nat : p.from = f /\ p.to = t /\ f <= t /\ t <= Len(st)
  BY <1>1, <1>3
<1>5. \A i \in 1..Len(st) : b < i /\ i <= b + m <=> f < i /\ i <= t
  BY <1>2, <1>3, <1>4
<1>. HIDE DEF p
<1>6. t - f = m /\ (m > 0 => f = b)
  <2>1. CASE m = 0
    <3>1. f < t => t \in 1..Len(st)
      BY <1>1, <1>4
    <3>. QED
      BY <1>1, <1>4, <1>5, <2>1, <3>1
  <2>2. CASE m > 0
    <3>1. b + 1 \in 1..Len(st) /\ b + m \in 1..Len(st)
      BY <1>1, <2>2
    <3>2. f < b + 1 /\ b + m <= t
      BY <1>1, <1>4, <1>5, <2>2, <3>1
    <3>3. f + 1 \in 1..Len(st) /\ t \in 1..Len(st)
      BY <1>1, <1>4, <2>2, <3>2
    <3>4. b < f + 1 /\ t <= b + m
      BY <1>1, <1>4, <1>5, <2>2, <3>2, <3>3
    <3>. QED
      BY <1>1, <1>4, <3>2, <3>4
  <2>. QED
    BY <1>1, <2>1, <2>2
<1>7. FlowKinds(st) = [i \in 1..(t - f) |-> KindOf(st[f + i])]
  BY <1>4 DEF FlowKinds, KindOf, p
<1>8. FlowKinds(st) = [i \in 1..m |-> KindOf(st[b + i])]
  <2>1. CASE m = 0
    BY <1>6, <1>7, <2>1
  <2>2. CASE m > 0
    BY <1>6, <1>7, <2>2
  <2>. QED
    BY <1>1, <2>1, <2>2
<1>9. \A i \in 1..m : KindOf(st[b + i]) \in {"array", "object"}
  BY DEF KindOf
<1>. QED
  BY <1>1, <1>8, <1>9

\* Two stacks with the same flow frames
LEMMA SameKinds ==
  ASSUME NEW st \in Seq(Frame), NEW st2 \in Seq(Frame), NEW b, NEW m, Spans(st, b, m),
         Spans(st2, b, m), \A i \in 1..m : KindOf(st[b + i]) = KindOf(st2[b + i])
  PROVE  FlowKinds(st2) = FlowKinds(st)
<1>1. /\ FlowKinds(st) = [i \in 1..m |-> KindOf(st[b + i])]
      /\ FlowKinds(st2) = [i \in 1..m |-> KindOf(st2[b + i])]
  BY KindsAre
<1>. QED
  BY <1>1

\* No flow collection is open just when the stack has no flow frame.
LEMMA NoKinds ==
  ASSUME NEW st \in Seq(Frame), Layered(st)
  PROVE  FlowKinds(st) = <<>> <=> \A i \in 1..Len(st) : st[i] \notin FlowFrame
<1>1. PICK b, m : Spans(st, b, m)
  BY SpanExists
<1>2. FlowKinds(st) \in Seq({"array", "object"}) /\ Len(FlowKinds(st)) = m
  BY <1>1, KindsAre
<1>3. FlowKinds(st) = <<>> <=> m = 0
  BY <1>2, EmptySeq
<1>4. m = 0 <=> \A i \in 1..Len(st) : st[i] \notin FlowFrame
  <2>1. m # 0 => b + 1 \in 1..Len(st) /\ st[b + 1] \in FlowFrame
    BY <1>1 DEF Spans
  <2>2. m = 0 => \A i \in 1..Len(st) : st[i] \notin FlowFrame
    BY <1>1 DEF Spans
  <2>. QED
    BY <2>1, <2>2
<1>. QED
  BY <1>3, <1>4

\* A block frame, or a block literal, is pushed.
LEMMA PushOtherKinds ==
  ASSUME NEW st \in Seq(Frame), Layered(st), NEW f \in Frame, f \notin FlowFrame
  PROVE  FlowKinds(Append(st, f)) = FlowKinds(st)
<1>. DEFINE q == Append(st, f)
<1>1. /\ q \in Seq(Frame) /\ Len(q) = Len(st) + 1 /\ Len(st) \in Nat
      /\ \A i \in 1..Len(st) : q[i] = st[i]
      /\ q[Len(st) + 1] = f
  BY AppendProperties
<1>2. PICK b, m : Spans(st, b, m)
  BY SpanExists
<1>. HIDE DEF q
<1>3. Spans(q, b, m)
  <2>1. \A i \in 1..Len(q) : i \in 1..Len(st) \/ i = Len(st) + 1
    BY <1>1
  <2>. QED
    BY <1>1, <1>2, <2>1 DEF Spans
<1>4. \A i \in 1..m : b + i \in 1..Len(st)
  BY <1>2, <1>1 DEF Spans
<1>. QED
  BY <1>1, <1>2, <1>3, <1>4, SameKinds DEF q

\* A flow frame is pushed.
LEMMA PushFlowKinds ==
  ASSUME NEW st \in Seq(Frame), Layered(st), NEW f \in FlowFrame,
         st # <<>> => st[Len(st)] # "MultiLineValue"
  PROVE  FlowKinds(Append(st, f)) = Append(FlowKinds(st), KindOf(f))
<1>. DEFINE q == Append(st, f)
<1>1. f \in Frame
  BY DEF Frame
<1>2. /\ q \in Seq(Frame) /\ Len(q) = Len(st) + 1 /\ Len(st) \in Nat
      /\ \A i \in 1..Len(st) : q[i] = st[i]
      /\ q[Len(st) + 1] = f
  BY <1>1, AppendProperties
<1>. HIDE DEF q
<1>3. PICK b, m : Spans(st, b, m) /\ b + m = Len(st)
  <2>1. PICK b, m : Spans(st, b, m)
    BY SpanExists
  <2>2. CASE m = 0
    <3>1. Spans(st, Len(st), 0)
      BY <1>2, <2>1, <2>2 DEF Spans
    <3>. QED
      BY <1>2, <3>1
  <2>3. CASE m # 0
    <3>1. b + 1 \in 1..Len(st) /\ st[b + 1] \in FlowFrame /\ Len(st) \in 1..Len(st)
      BY <1>2, <2>1, <2>3 DEF Spans
    <3>2. st[Len(st)] \in FlowFrame
      BY <1>2, <3>1 DEF Layered
    <3>3. Len(st) <= b + m
      BY <2>1, <3>1, <3>2 DEF Spans
    <3>4. b + m = Len(st)
      BY <1>2, <2>1, <3>3 DEF Spans
    <3>. QED
      BY <2>1, <3>4
  <2>. QED
    BY <2>2, <2>3
<1>4. Spans(q, b, m + 1)
  <2>1. \A i \in 1..Len(q) : i \in 1..Len(st) \/ i = Len(st) + 1
    BY <1>2
  <2>. QED
    BY <1>2, <1>3, <2>1 DEF Spans
<1>5. /\ FlowKinds(st) \in Seq({"array", "object"}) /\ Len(FlowKinds(st)) = m
      /\ \A i \in 1..m : FlowKinds(st)[i] = KindOf(st[b + i])
  BY <1>3, KindsAre
<1>6. /\ FlowKinds(q) \in Seq({"array", "object"}) /\ Len(FlowKinds(q)) = m + 1
      /\ \A i \in 1..(m + 1) : FlowKinds(q)[i] = KindOf(q[b + i])
  BY <1>2, <1>4, KindsAre
<1>. DEFINE a == Append(FlowKinds(st), KindOf(f))
<1>7. KindOf(f) \in {"array", "object"} /\ b \in Nat /\ m \in Nat
  BY <1>3 DEF KindOf, Spans
<1>8. /\ a \in Seq({"array", "object"}) /\ Len(a) = m + 1
      /\ \A i \in 1..m : a[i] = FlowKinds(st)[i]
      /\ a[m + 1] = KindOf(f)
  BY <1>5, <1>7, AppendProperties
<1>. HIDE DEF a
<1>9. \A i \in 1..(m + 1) : FlowKinds(q)[i] = a[i]
  <2>1. \A i \in 1..m : b + i \in 1..Len(st)
    BY <1>3, <1>2, <1>7
  <2>2. b + (m + 1) = Len(st) + 1
    BY <1>3, <1>7, <1>2
  <2>3. \A i \in 1..m : i \in 1..(m + 1) /\ q[b + i] = st[b + i]
    BY <1>2, <1>7, <2>1
  <2>4. FlowKinds(q)[m + 1] = KindOf(f)
    BY <1>2, <1>6, <1>7, <2>2
  <2>5. \A i \in 1..m : FlowKinds(q)[i] = a[i]
    BY <1>5, <1>6, <1>8, <2>3
  <2>6. \A i \in 1..(m + 1) : i \in 1..m \/ i = m + 1
    BY <1>7
  <2>. QED
    BY <1>8, <2>4, <2>5, <2>6
<1>10. FlowKinds(q) = a
  BY <1>6, <1>8, <1>9, SeqEqual
<1>. QED
  BY <1>10 DEF q, a

\* Frames that are left are none of flow collections.
LEMMA KeepKinds ==
  ASSUME NEW st \in Seq(Frame), Layered(st), NEW n \in 0..Len(st),
         \A i \in (n + 1)..Len(st) : st[i] \notin FlowFrame
  PROVE  FlowKinds(SubSeq(st, 1, n)) = FlowKinds(st)
<1>. DEFINE q == SubSeq(st, 1, n)
<1>1. /\ q \in Seq(Frame) /\ Len(q) = n /\ Len(st) \in Nat
      /\ \A i \in 1..n : q[i] = st[i]
  BY PrefixOfStack
<1>2. PICK b, m : Spans(st, b, m)
  BY SpanExists
<1>. HIDE DEF q
<1>3. CASE m = 0
  <2>1. Spans(st, 0, 0) /\ Spans(q, 0, 0)
    BY <1>1, <1>2, <1>3 DEF Spans
  <2>2. 0 \in Nat /\ \A i \in 1..0 : KindOf(st[0 + i]) = KindOf(q[0 + i])
    OBVIOUS
  <2>. QED
    BY <1>1, <2>1, <2>2, SameKinds DEF q
<1>4. CASE m # 0
  <2>1. b + m \in 1..Len(st) /\ st[b + m] \in FlowFrame
    BY <1>1, <1>2, <1>4 DEF Spans
  <2>2. b + m <= n
    BY <1>1, <2>1
  <2>3. \A i \in 1..n : i \in 1..Len(st)
    BY <1>1
  <2>4. Spans(q, b, m)
    BY <1>1, <1>2, <2>2, <2>3 DEF Spans
  <2>5. \A i \in 1..m : b + i \in 1..n
    BY <1>1, <1>2, <2>2 DEF Spans
  <2>. QED
    BY <1>1, <1>2, <2>4, <2>5, SameKinds DEF q
<1>. QED
  BY <1>3, <1>4

\* The flow frame on top is taken off.
LEMMA PopKinds ==
  ASSUME NEW st \in Seq(Frame), Layered(st), st # <<>>, st[Len(st)] \in FlowFrame
  PROVE  LET k == FlowKinds(st)
         IN  /\ k # <<>> /\ k[Len(k)] = KindOf(st[Len(st)])
             /\ FlowKinds(SubSeq(st, 1, Len(st) - 1)) = SubSeq(k, 1, Len(k) - 1)
<1>. DEFINE q == SubSeq(st, 1, Len(st) - 1)
            k == FlowKinds(st)
            r == SubSeq(k, 1, Len(k) - 1)
<1>1. Len(st) \in Nat /\ Len(st) >= 1 /\ Len(st) - 1 \in 0..Len(st)
  BY EmptySeq
<1>2. /\ q \in Seq(Frame) /\ Len(q) = Len(st) - 1
      /\ \A i \in 1..(Len(st) - 1) : q[i] = st[i]
  BY <1>1, PrefixOfStack
<1>3. PICK b, m : Spans(st, b, m)
  BY SpanExists
<1>. HIDE DEF q
<1>4. b \in Nat /\ m \in Nat /\ m >= 1 /\ b + m = Len(st) /\ m - 1 \in Nat
  BY <1>1, <1>3 DEF Spans
<1>5. /\ k \in Seq({"array", "object"}) /\ Len(k) = m
      /\ \A i \in 1..m : k[i] = KindOf(st[b + i])
  BY <1>3, KindsAre
<1>6. Spans(q, b, m - 1)
  <2>1. \A i \in 1..Len(q) : i \in 1..Len(st) /\ i < Len(st)
    BY <1>1, <1>2
  <2>. QED
    BY <1>1, <1>2, <1>3, <1>4, <2>1 DEF Spans
<1>7. /\ FlowKinds(q) \in Seq({"array", "object"}) /\ Len(FlowKinds(q)) = m - 1
      /\ \A i \in 1..(m - 1) : FlowKinds(q)[i] = KindOf(q[b + i])
  BY <1>2, <1>6, KindsAre
<1>. HIDE DEF k
<1>8. k # <<>> /\ k[Len(k)] = KindOf(st[Len(st)])
  <2>1. m \in 1..m
    BY <1>4
  <2>. QED
    BY <1>4, <1>5, <2>1
<1>9. /\ r \in Seq({"array", "object"}) /\ Len(r) = m - 1
      /\ \A i \in 1..(m - 1) : r[i] = k[i]
  <2>1. Len(k) - 1 \in 0..Len(k)
    BY <1>4, <1>5
  <2>. QED
    BY <1>4, <1>5, <2>1, PrefixOfStack
<1>. HIDE DEF r
<1>10. \A i \in 1..(m - 1) : FlowKinds(q)[i] = r[i]
  <2>1. \A i \in 1..(m - 1) : i \in 1..m /\ b + i \in 1..(Len(st) - 1)
    BY <1>1, <1>4
  <2>. QED
    BY <1>2, <1>5, <1>7, <1>9, <2>1
<1>11. FlowKinds(q) = r
  BY <1>7, <1>9, <1>10, SeqEqual
<1>. QED
  BY <1>8, <1>11 DEF q, k, r

\* The frame on top is replaced by one of the same collection.
LEMMA RetopKinds ==
  ASSUME NEW st \in Seq(Frame), Layered(st), st # <<>>, NEW f \in Frame,
         f \in FlowFrame <=> st[Len(st)] \in FlowFrame, KindOf(f) = KindOf(st[Len(st)])
  PROVE  FlowKinds([st EXCEPT ![Len(st)] = f]) = FlowKinds(st)
<1>. DEFINE q == [st EXCEPT ![Len(st)] = f]
<1>1. Len(st) \in Nat /\ Len(st) \in 1..Len(st)
  BY EmptySeq
<1>2. /\ q \in Seq(Frame) /\ Len(q) = Len(st) /\ q[Len(st)] = f
      /\ \A j \in 1..Len(st) : j # Len(st) => q[j] = st[j]
  BY <1>1, ExceptSeq
<1>3. PICK b, m : Spans(st, b, m)
  BY SpanExists
<1>. HIDE DEF q
<1>4. Spans(q, b, m)
  BY <1>1, <1>2, <1>3 DEF Spans
<1>5. \A i \in 1..m : b + i \in 1..Len(st)
  BY <1>1, <1>3 DEF Spans
<1>6. \A j \in 1..Len(st) : KindOf(q[j]) = KindOf(st[j])
  BY <1>2
<1>. QED
  BY <1>2, <1>3, <1>4, <1>5, <1>6, SameKinds DEF q

-----------------------------------------------------------------------------
(***************************************************************************)
(* What a call of a state function answers, and what becomes of the flow   *)
(* collections: it opens one, closes the innermost, or leaves them alone.  *)
(***************************************************************************)
Kinds(s) == FlowKinds(s.states)

Delimiters == {"BeginObject", "EndObject", "BeginArray", "EndArray"}

\* The scanner t is what a call on byte c answers when the flow collections are q.
Turns(q, c, t) ==
  \/ t.op \notin Delimiters /\ Kinds(t) = q
  \/ t.op = "Error" /\ t.err
  \/ /\ c \in {"{", "["}
     /\ \E k \in Nesting!Collection : t.op = Nesting!BeginOf[k] /\ Kinds(t) = Append(q, k)
  \/ \E k \in Nesting!Collection :
       /\ t.op = Nesting!EndOf[k] /\ q # <<>> /\ q[Len(q)] = k
       /\ Kinds(t) = SubSeq(q, 1, Len(q) - 1)

Quiet == Opcode \ Delimiters

\* The opcodes that the state functions return without a push or a pop of their own
LEMMA QuietOps ==
  {"Continue", "BeginLiteral", "ObjectKey", "ObjectValue", "ArrayValue", "SkipSpace", "End",
   "Error"} \subseteq Quiet
  BY DEF Quiet, Opcode, Delimiters

\* The calls that leave the stack as it is
LEMMA QuietTurns ==
  ASSUME NEW s \in ScannerRecord, NEW c
  PROVE  /\ \A op \in Quiet : /\ Turns(Kinds(s), c, Stay(s, op))
                              /\ Turns(Kinds(s), c, EndLine(s, op))
                              /\ \A step : Turns(Kinds(s), c, Goto(s, step, op))
                              /\ \A n : Turns(Kinds(s), c, [s EXCEPT !.idn = n, !.op = op])
         /\ Turns(Kinds(s), c, Fail(s))
         /\ Turns(Kinds(s), c, [s EXCEPT !.err = TRUE, !.op = "Error"])
<1>1. ASSUME NEW t, t.states = s.states, t.op \in Quiet PROVE Turns(Kinds(s), c, t)
  BY <1>1 DEF Turns, Kinds, Quiet
<1>2. ASSUME NEW op \in Quiet
      PROVE  /\ Stay(s, op).states = s.states /\ Stay(s, op).op = op
             /\ EndLine(s, op).states = s.states /\ EndLine(s, op).op = op
             /\ \A step : Goto(s, step, op).states = s.states /\ Goto(s, step, op).op = op
             /\ \A n : /\ [s EXCEPT !.idn = n, !.op = op].states = s.states
                       /\ [s EXCEPT !.idn = n, !.op = op].op = op
  BY DEF ScannerRecord, Stay, EndLine, Goto
<1>3. ASSUME NEW op \in Quiet
      PROVE  /\ Turns(Kinds(s), c, Stay(s, op)) /\ Turns(Kinds(s), c, EndLine(s, op))
             /\ \A step : Turns(Kinds(s), c, Goto(s, step, op))
             /\ \A n : Turns(Kinds(s), c, [s EXCEPT !.idn = n, !.op = op])
  BY <1>1, <1>2
<1>4. /\ Fail(s).op = "Error" /\ Fail(s).err
      /\ [s EXCEPT !.err = TRUE, !.op = "Error"].op = "Error"
      /\ [s EXCEPT !.err = TRUE, !.op = "Error"].err
  BY DEF ScannerRecord, Fail
<1>5. Turns(Kinds(s), c, Fail(s)) /\ Turns(Kinds(s), c, [s EXCEPT !.err = TRUE, !.op = "Error"])
  BY <1>4 DEF Turns
<1>. QED
  BY <1>3, <1>5

\* toggleObjectState changes no kind.
LEMMA ToggleKinds ==
  ASSUME NEW s, Stacks(s)
  PROVE  Kinds(Toggle(s)) = Kinds(s)
<1>1. CASE LastState(s) \notin DOMAIN Toggled
  BY <1>1 DEF Toggle
<1>2. CASE LastState(s) \in DOMAIN Toggled
  <2>. DEFINE f == Toggled[LastState(s)]
              q == [s.states EXCEPT ![Len(s.states)] = f]
  <2>1. LastState(s) \in {"ObjectKey", "ObjectValue", "FlowObjectKey", "FlowObjectValue"}
    BY <1>2 DEF Toggled
  <2>2. /\ f \in Frame /\ (f \in FlowFrame <=> LastState(s) \in FlowFrame)
        /\ KindOf(f) = KindOf(LastState(s))
    BY <2>1 DEF Toggled, Frame, ObjectFrame, FlowFrame, KindOf
  <2>3. /\ s.states # <<>> /\ LastState(s) = s.states[Len(s.states)]
        /\ s.states \in Seq(Frame) /\ Layered(s.states)
    BY <2>1, TopOfStack DEF LastState, Stacks
  <2>4. Toggle(s) = [s EXCEPT !.states = q]
    BY <1>2, <2>3 DEF Toggle
  <2>5. FlowKinds(q) = FlowKinds(s.states)
    <3>. HIDE DEF f
    <3>. QED
      BY <2>2, <2>3, RetopKinds
  <2>. HIDE DEF q
  <2>6. Toggle(s).states = q
    BY <2>4 DEF Stacks, ScannerRecord
  <2>. QED
    BY <2>5, <2>6 DEF Kinds
<1>. QED
  BY <1>1, <1>2

\* pushState
LEMMA PushRecord ==
  ASSUME NEW s \in ScannerRecord, NEW frame \in Frame, NEW op \in Opcode
  PROVE  LET t == PushState(s, frame, op)
         IN  /\ t \in ScannerRecord /\ t.states = Append(s.states, frame)
             /\ t.op = op \/ (t.op = "Error" /\ t.err)
<1>. DEFINE ind == IF frame = "MultiLineValue" /\ LastState(s) # "ArrayValue"
                   THEN s.idn + 1 ELSE s.idn
            st == Append(s.states, frame)
            in == Append(s.indents, ind)
            t == [s EXCEPT !.states = st, !.indents = in, !.op = op]
<1>1. s.states \in Seq(Frame) /\ s.indents \in Seq(Nat) /\ s.idn \in Nat /\ s.idn + 1 \in Nat
  BY DEF ScannerRecord
<1>2. ind \in Nat
  BY <1>1
<1>. HIDE DEF ind
<1>3. st \in Seq(Frame) /\ in \in Seq(Nat)
  BY <1>1, <1>2, AppendProperties
<1>4. PushState(s, frame, op) = IF Len(t.states) <= MaxNestingDepth THEN t ELSE Fail(t)
  BY DEF PushState, ind
<1>. HIDE DEF st, in
<1>5. t \in ScannerRecord /\ t.states = st /\ t.op = op
  BY <1>3 DEF ScannerRecord
<1>. HIDE DEF t
<1>6. Fail(t) \in ScannerRecord /\ Fail(t).states = st /\ Fail(t).op = "Error" /\ Fail(t).err
  BY <1>5 DEF ScannerRecord, Fail, Steps, Opcode
<1>. QED
  BY <1>4, <1>5, <1>6 DEF st

\* A block collection or a block literal is begun: the flow collections stay.
LEMMA PushBlockTurns ==
  ASSUME NEW s, Stacks(s), NEW frame \in Frame, frame \notin FlowFrame, NEW op \in Quiet, NEW c
  PROVE  LET t == PushState(s, frame, op)
         IN  t \in ScannerRecord /\ Kinds(t) = Kinds(s) /\ Turns(Kinds(s), c, t)
<1>. DEFINE t == PushState(s, frame, op)
<1>1. s \in ScannerRecord /\ s.states \in Seq(Frame) /\ Layered(s.states) /\ op \in Opcode
  BY TopOfStack DEF Stacks, Quiet
<1>2. /\ t \in ScannerRecord /\ t.states = Append(s.states, frame)
      /\ t.op = op \/ (t.op = "Error" /\ t.err)
  BY <1>1, PushRecord
<1>. HIDE DEF t
<1>3. Kinds(t) = Kinds(s)
  BY <1>1, <1>2, PushOtherKinds DEF Kinds
<1>. QED
  BY <1>2, <1>3 DEF Turns, Quiet, t

\* A flow collection is begun.
LEMMA PushFlowTurns ==
  ASSUME NEW s, Stacks(s), LastState(s) # "MultiLineValue", NEW c \in {"{", "["}
  PROVE  /\ Turns(Kinds(s), c, PushState(s, "FlowObjectKey", "BeginObject"))
         /\ Turns(Kinds(s), c, PushState(s, "FlowArrayValue", "BeginArray"))
<1>1. /\ s \in ScannerRecord /\ s.states \in Seq(Frame) /\ Layered(s.states)
      /\ s.states # <<>> => s.states[Len(s.states)] # "MultiLineValue"
  BY TopOfStack DEF Stacks
<1>2. ASSUME NEW frame \in FlowFrame, NEW k \in Nesting!Collection, KindOf(frame) = k
      PROVE  Turns(Kinds(s), c, PushState(s, frame, Nesting!BeginOf[k]))
  <2>. DEFINE op == Nesting!BeginOf[k]
              t == PushState(s, frame, op)
  <2>1. op \in Opcode /\ frame \in Frame
    <3>1. k = "object" \/ k = "array"
      BY DEF Nesting!Collection
    <3>2. Nesting!BeginOf["object"] = "BeginObject" /\ Nesting!BeginOf["array"] = "BeginArray"
      BY DEF Nesting!BeginOf
    <3>3. frame \in Frame
      BY DEF Frame
    <3>4. {"BeginObject", "BeginArray"} \subseteq Opcode
      BY DEF Opcode
    <3>. QED
      BY <3>1, <3>2, <3>3, <3>4
  <2>. HIDE DEF op
  <2>2. t.states = Append(s.states, frame) /\ (t.op = op \/ (t.op = "Error" /\ t.err))
    BY <1>1, <2>1, PushRecord
  <2>. HIDE DEF t
  <2>3. Kinds(t) = Append(Kinds(s), k)
    BY <1>1, <1>2, <2>2, PushFlowKinds DEF Kinds
  <2>4. Turns(Kinds(s), c, t)
    BY <2>2, <2>3 DEF Turns, op
  <2>. QED
    BY <2>4 DEF t, op
<1>3. /\ "FlowObjectKey" \in FlowFrame /\ KindOf("FlowObjectKey") = "object"
      /\ "FlowArrayValue" \in FlowFrame /\ KindOf("FlowArrayValue") = "array"
      /\ "object" \in Nesting!Collection /\ Nesting!BeginOf["object"] = "BeginObject"
      /\ "array" \in Nesting!Collection /\ Nesting!BeginOf["array"] = "BeginArray"
  BY DEF FlowFrame, KindOf, Nesting!Collection, Nesting!BeginOf
<1>4. /\ Turns(Kinds(s), c, PushState(s, "FlowObjectKey", Nesting!BeginOf["object"]))
      /\ Turns(Kinds(s), c, PushState(s, "FlowArrayValue", Nesting!BeginOf["array"]))
  BY <1>2, <1>3
<1>. QED
  BY <1>3, <1>4

\* popState: the bracket closes the innermost flow collection, which is of its kind.
LEMMA PopTurns ==
  ASSUME NEW s, Stacks(s), NEW c
  PROVE  /\ LastState(s) = "FlowObjectValue" => Turns(Kinds(s), c, PopState(s, "EndObject"))
         /\ LastState(s) = "FlowArrayValue" => Turns(Kinds(s), c, PopState(s, "EndArray"))
<1>1. ASSUME LastState(s) \in FlowFrame, NEW k \in Nesting!Collection, KindOf(LastState(s)) = k
      PROVE  Turns(Kinds(s), c, PopState(s, Nesting!EndOf[k]))
  <2>. DEFINE op == Nesting!EndOf[k]
              n == Len(s.states) - 1
              u == KeepFrames(s, n)
              t == PopState(s, op)
  <2>1. /\ s.states \in Seq(Frame) /\ s.states # <<>> /\ Layered(s.states) /\ n \in 0..Len(s.states)
        /\ LastState(s) = s.states[Len(s.states)]
    BY <1>1, TopOfStack DEF Stacks, FlowFrame
  <2>2. Stacks(u) /\ u.states = SubSeq(s.states, 1, n)
    BY <2>1, KeepStacks
  <2>3. /\ Kinds(s) # <<>> /\ Kinds(s)[Len(Kinds(s))] = k
        /\ FlowKinds(SubSeq(s.states, 1, n)) = SubSeq(Kinds(s), 1, Len(Kinds(s)) - 1)
    BY <1>1, <2>1, PopKinds DEF Kinds
  <2>4. t = Goto(u, IF n = 0 THEN "EndTop" ELSE "EndValue", op)
    BY DEF PopState
  <2>. HIDE DEF u, t, n, op
  <2>5. t.states = u.states /\ t.op = op
    BY <2>2, <2>4 DEF Stacks, ScannerRecord, Goto
  <2>6. Turns(Kinds(s), c, t)
    BY <2>2, <2>3, <2>5 DEF Turns, Kinds, op
  <2>. QED
    BY <2>6 DEF t, op
<1>2. /\ {"FlowObjectValue", "FlowArrayValue"} \subseteq FlowFrame
      /\ KindOf("FlowObjectValue") = "object" /\ KindOf("FlowArrayValue") = "array"
      /\ "object" \in Nesting!Collection /\ Nesting!EndOf["object"] = "EndObject"
      /\ "array" \in Nesting!Collection /\ Nesting!EndOf["array"] = "EndArray"
  BY DEF FlowFrame, KindOf, Nesting!Collection, Nesting!EndOf
<1>3. /\ LastState(s) = "FlowObjectValue" => Turns(Kinds(s), c, PopState(s, Nesting!EndOf["object"]))
      /\ LastState(s) = "FlowArrayValue" => Turns(Kinds(s), c, PopState(s, Nesting!EndOf["array"]))
  BY <1>1, <1>2
<1>. QED
  BY <1>2, <1>3

\* The step, the line flag and the end flag may be set before a call.
LEMMA SetFields ==
  ASSUME NEW s, Stacks(s), NEW step \in Steps
  PROVE  LET t == [s EXCEPT !.step = step]
             u == [s EXCEPT !.step = step, !.sameLine = TRUE]
         IN  /\ Stacks(t) /\ t.states = s.states /\ Stacks(u) /\ u.states = s.states
<1>. DEFINE t == [s EXCEPT !.step = step]
            u == [s EXCEPT !.step = step, !.sameLine = TRUE]
<1>1. t \in ScannerRecord /\ u \in ScannerRecord
  BY DEF Stacks, ScannerRecord
<1>2. /\ t.states = s.states /\ t.indents = s.indents /\ t.endTop = s.endTop /\ t.err = s.err
      /\ u.states = s.states /\ u.indents = s.indents /\ u.endTop = s.endTop /\ u.err = s.err
  BY DEF Stacks, ScannerRecord
<1>. HIDE DEF t, u
<1>3. Stacks(t) /\ Stacks(u)
  BY <1>1, <1>2 DEF Stacks
<1>. QED
  BY <1>2, <1>3 DEF t, u

\* stateEndTop
LEMMA EndTopTurns ==
  ASSUME NEW s \in ScannerRecord, NEW c
  PROVE  Turns(Kinds(s), c, EndTop(s, c))
<1>1. \/ EndTop(s, c) \in {[s EXCEPT !.idn = s.idn + 1, !.op = "End"],
                           [s EXCEPT !.idn = 0, !.op = "End"],
                           Goto(s, "NewDoc1", "Continue"), Goto(s, "EndYaml1", "Continue")}
      \/ EndTop(s, c) = Stay(Fail(s), "End")
  BY DEF EndTop
<1>2. Turns(Kinds(s), c, Stay(Fail(s), "End"))
  <2>1. Stay(Fail(s), "End").states = s.states /\ Stay(Fail(s), "End").op = "End"
    BY DEF ScannerRecord, Stay, Fail
  <2>. QED
    BY <2>1 DEF Turns, Kinds, Delimiters
<1>3. /\ Turns(Kinds(s), c, [s EXCEPT !.idn = s.idn + 1, !.op = "End"])
      /\ Turns(Kinds(s), c, [s EXCEPT !.idn = 0, !.op = "End"])
      /\ Turns(Kinds(s), c, Goto(s, "NewDoc1", "Continue"))
      /\ Turns(Kinds(s), c, Goto(s, "EndYaml1", "Continue"))
  BY QuietTurns, QuietOps
<1>. QED
  BY <1>1, <1>2, <1>3

\* stateBeginValue opens a flow collection only on its bracket.
LEMMA BeginValueTurns ==
  ASSUME NEW s, Stacks(s), LastState(s) # "MultiLineValue", NEW c
  PROVE  Turns(Kinds(s), c, BeginValue(s, c))
<1>. DEFINE e == [s EXCEPT !.step = "EndTop"]
            v == [s EXCEPT !.step = "BeginValueOrEmpty"]
            m == [s EXCEPT !.step = "BeginMultilineChomp"]
<1>1. {"EndTop", "BeginValueOrEmpty", "BeginMultilineChomp"} \subseteq Steps
  BY DEF Steps
<1>2. /\ Stacks(e) /\ e.states = s.states /\ Stacks(v) /\ v.states = s.states
      /\ Stacks(m) /\ m.states = s.states
  BY <1>1, SetFields
<1>. HIDE DEF e, v, m
<1>3. Kinds(e) = Kinds(s) /\ Kinds(v) = Kinds(s) /\ Kinds(m) = Kinds(s)
  BY <1>2 DEF Kinds
<1>4. Turns(Kinds(s), c, EndTop(e, c))
  BY <1>2, <1>3, EndTopTurns DEF Stacks
<1>5. c \in {"{", "["} =>
        /\ Turns(Kinds(s), c, PushState(v, "FlowObjectKey", "BeginObject"))
        /\ Turns(Kinds(s), c, PushState(v, "FlowArrayValue", "BeginArray"))
  <2>1. LastState(v) # "MultiLineValue"
    BY <1>2 DEF LastState
  <2>. QED
    BY <1>2, <1>3, <2>1, PushFlowTurns
<1>6. Turns(Kinds(s), c, PushState(m, "MultiLineValue", "BeginLiteral"))
  <2>1. "MultiLineValue" \in Frame /\ "MultiLineValue" \notin FlowFrame
    BY DEF Frame, FlowFrame
  <2>. QED
    BY <1>2, <1>3, <2>1, PushBlockTurns, QuietOps
<1>7. s \in ScannerRecord
  BY DEF Stacks
<1>8. /\ Turns(Kinds(s), c, EndLine(s, "SkipSpace")) /\ Turns(Kinds(s), c, Fail(s))
      /\ Turns(Kinds(s), c, Goto(s, "InDirective", "Continue"))
      /\ Turns(Kinds(s), c, Goto(s, "BeginComment", "SkipSpace"))
      /\ Turns(Kinds(s), c, Goto(s, LiteralStep(c), "BeginLiteral"))
  BY <1>7, QuietTurns, QuietOps
<1>9. CASE s.endTop
  BY <1>4, <1>9 DEF BeginValue, e
<1>10. CASE ~s.endTop
  <2>1. BeginValue(s, c) \in
          {EndLine(s, "SkipSpace"), Fail(s), Goto(s, "InDirective", "Continue"),
           Goto(s, "BeginComment", "SkipSpace"), Goto(s, LiteralStep(c), "BeginLiteral"),
           PushState(m, "MultiLineValue", "BeginLiteral"),
           PushState(v, "FlowObjectKey", "BeginObject"),
           PushState(v, "FlowArrayValue", "BeginArray")}
    BY <1>10 DEF BeginValue, v, m
  <2>2. c \notin {"{", "["} =>
          BeginValue(s, c) \in
            {EndLine(s, "SkipSpace"), Fail(s), Goto(s, "InDirective", "Continue"),
             Goto(s, "BeginComment", "SkipSpace"), Goto(s, LiteralStep(c), "BeginLiteral"),
             PushState(m, "MultiLineValue", "BeginLiteral")}
    BY <1>10 DEF BeginValue, m
  <2>. QED
    BY <1>5, <1>6, <1>8, <2>1, <2>2
<1>. QED
  BY <1>9, <1>10

\* The end of a key
LEMMA AfterKeyTurns ==
  ASSUME NEW s \in ScannerRecord, NEW c
  PROVE  Turns(Kinds(s), c, AfterKey(s, c))
  BY QuietTurns, QuietOps DEF AfterKey

\* pushObjectState
LEMMA PushObjectStateTurns ==
  ASSUME NEW s, Stacks(s), LastState(s) # "MultiLineValue", NEW c
  PROVE  Turns(Kinds(s), c, PushObjectState(s, c))
<1>. DEFINE t == [s EXCEPT !.step = "BeginValueOrEmpty"]
            b == [s EXCEPT !.step = "BeginValueOrEmpty", !.sameLine = TRUE]
            p == PushState(b, "ObjectValue", "ObjectValue")
            u == Toggle(t)
<1>1. "BeginValueOrEmpty" \in Steps
  BY DEF Steps
<1>2. Stacks(t) /\ t.states = s.states /\ Stacks(b) /\ b.states = s.states
  BY <1>1, SetFields
<1>3. \/ PushObjectState(s, c) = AfterKey(p, c)
      \/ PushObjectState(s, c) = Fail(t)
      \/ PushObjectState(s, c) = AfterKey(u, c)
      \/ c = "{" /\ PushObjectState(s, c) = PushState(u, "FlowObjectKey", "BeginObject")
      \/ c = "[" /\ PushObjectState(s, c) = PushState(u, "FlowArrayValue", "BeginArray")
  BY DEF PushObjectState
<1>. HIDE DEF t, b
<1>4. Kinds(t) = Kinds(s) /\ Kinds(b) = Kinds(s) /\ LastState(t) # "MultiLineValue"
  BY <1>2 DEF Kinds, LastState
<1>5. Turns(Kinds(s), c, AfterKey(p, c))
  <2>1. "ObjectValue" \in Frame /\ "ObjectValue" \notin FlowFrame
    BY DEF Frame, FlowFrame, ObjectFrame
  <2>2. p \in ScannerRecord /\ Kinds(p) = Kinds(b)
    BY <1>2, <2>1, PushBlockTurns, QuietOps
  <2>. HIDE DEF p
  <2>. QED
    BY <1>4, <2>2, AfterKeyTurns
<1>6. Stacks(u) /\ Kinds(u) = Kinds(s) /\ LastState(u) # "MultiLineValue"
  BY <1>2, <1>4, ToggleReady, ToggleKinds DEF Toggled
<1>. HIDE DEF u
<1>7. Turns(Kinds(s), c, AfterKey(u, c))
  BY <1>6, AfterKeyTurns DEF Stacks
<1>8. c \in {"{", "["} =>
        /\ Turns(Kinds(s), c, PushState(u, "FlowObjectKey", "BeginObject"))
        /\ Turns(Kinds(s), c, PushState(u, "FlowArrayValue", "BeginArray"))
  BY <1>6, PushFlowTurns
<1>9. Turns(Kinds(s), c, Fail(t))
  BY <1>2, <1>4, QuietTurns DEF Stacks
<1>. HIDE DEF p
<1>. QED
  BY <1>3, <1>5, <1>7, <1>8, <1>9

\* pushArrayState
LEMMA PushArrayStateTurns ==
  ASSUME NEW s, Stacks(s), NEW c
  PROVE  Turns(Kinds(s), c, PushArrayState(s))
<1>. DEFINE t == [s EXCEPT !.idn = @ + 2]
            u == PushState(t, "ArrayValue", "ArrayValue")
<1>1. s \in ScannerRecord /\ s.idn + 2 \in Nat
  BY DEF Stacks, ScannerRecord
<1>2. t \in ScannerRecord
  BY <1>1 DEF ScannerRecord
<1>3. /\ t.states = s.states /\ t.indents = s.indents /\ t.endTop = s.endTop /\ t.err = s.err
  BY <1>1 DEF ScannerRecord
<1>4. PushArrayState(s) \in
        {Fail(s), Fail(t), Goto(t, "BeginValueOrEmpty", "SkipSpace"),
         Goto(u, "BeginValueOrEmpty", "SkipSpace")}
  BY DEF PushArrayState
<1>. HIDE DEF t
<1>5. Stacks(t) /\ Kinds(t) = Kinds(s)
  BY <1>2, <1>3 DEF Stacks, Kinds
<1>6. u \in ScannerRecord /\ Kinds(u) = Kinds(s)
  <2>1. "ArrayValue" \in Frame /\ "ArrayValue" \notin FlowFrame
    BY DEF Frame, FlowFrame
  <2>. QED
    BY <1>5, <2>1, PushBlockTurns, QuietOps
<1>. HIDE DEF u
<1>7. /\ Turns(Kinds(s), c, Fail(s)) /\ Turns(Kinds(t), c, Fail(t))
      /\ Turns(Kinds(t), c, Goto(t, "BeginValueOrEmpty", "SkipSpace"))
      /\ Turns(Kinds(u), c, Goto(u, "BeginValueOrEmpty", "SkipSpace"))
  BY <1>1, <1>2, <1>6, QuietTurns, QuietOps
<1>. QED
  BY <1>4, <1>5, <1>6, <1>7

\* stateEndValue, inside a collection: a bracket closes the collection of its kind.
LEMMA EndValueInTurns ==
  ASSUME NEW s, Stacks(s), LastState(s) # "MultiLineValue", NEW c
  PROVE  Turns(Kinds(s), c, EndValueIn(s, c))
<1>. DEFINE u == Toggle(s)
<1>1. Stacks(u) /\ Kinds(u) = Kinds(s) /\ LastState(u) # "MultiLineValue"
  BY ToggleReady, ToggleKinds DEF Toggled
<1>2. \/ EndValueIn(s, c) \in {EndLine(u, "ObjectKey"), EndLine(u, "ObjectValue"),
                               Goto(u, "BeginValueOrEmpty", "ObjectKey"),
                               Goto(u, "BeginValueOrEmpty", "ObjectValue")}
      \/ EndValueIn(s, c) = BeginValue(u, c)
      \/ LastState(s) = "FlowObjectValue" /\ EndValueIn(s, c) = PopState(s, "EndObject")
      \/ LastState(s) = "FlowArrayValue" /\ EndValueIn(s, c) = PopState(s, "EndArray")
      \/ EndValueIn(s, c) \in {EndLine(s, "ArrayValue"), EndLine(s, "SkipSpace"), Fail(s),
                               Goto(s, "BeginValueOrEmpty", "ArrayValue")}
  BY DEF EndValueIn, White, LineBreak, Space
<1>. HIDE DEF u
<1>3. s \in ScannerRecord /\ u \in ScannerRecord
  BY <1>1 DEF Stacks
<1>4. /\ Turns(Kinds(s), c, EndLine(u, "ObjectKey"))
      /\ Turns(Kinds(s), c, EndLine(u, "ObjectValue"))
      /\ Turns(Kinds(s), c, Goto(u, "BeginValueOrEmpty", "ObjectKey"))
      /\ Turns(Kinds(s), c, Goto(u, "BeginValueOrEmpty", "ObjectValue"))
  BY <1>1, <1>3, QuietTurns, QuietOps
<1>5. /\ Turns(Kinds(s), c, EndLine(s, "ArrayValue"))
      /\ Turns(Kinds(s), c, EndLine(s, "SkipSpace")) /\ Turns(Kinds(s), c, Fail(s))
      /\ Turns(Kinds(s), c, Goto(s, "BeginValueOrEmpty", "ArrayValue"))
  BY <1>3, QuietTurns, QuietOps
<1>6. Turns(Kinds(s), c, BeginValue(u, c))
  BY <1>1, BeginValueTurns
<1>. QED
  BY <1>2, <1>4, <1>5, <1>6, PopTurns

\* stateEndValue
LEMMA EndValueTurns ==
  ASSUME NEW s, Stacks(s), LastState(s) # "MultiLineValue", NEW c
  PROVE  Turns(Kinds(s), c, EndValue(s, c))
<1>. DEFINE t == [s EXCEPT !.step = "EndTop", !.endTop = TRUE]
<1>1. s \in ScannerRecord /\ t \in ScannerRecord /\ t.states = s.states
  BY DEF Stacks, ScannerRecord, Steps
<1>2. EndValue(s, c) \in
        {Goto(s, "EndValue", "SkipSpace"), Goto(s, "BeginComment", "SkipSpace"),
         PushObjectState(s, c), EndTop(t, c), EndValueIn(s, c)}
  BY DEF EndValue
<1>. HIDE DEF t
<1>3. Turns(Kinds(s), c, EndTop(t, c))
  <2>1. Kinds(t) = Kinds(s)
    BY <1>1 DEF Kinds
  <2>2. Turns(Kinds(t), c, EndTop(t, c))
    BY <1>1, EndTopTurns
  <2>. QED
    BY <2>1, <2>2
<1>4. /\ Turns(Kinds(s), c, Goto(s, "EndValue", "SkipSpace"))
      /\ Turns(Kinds(s), c, Goto(s, "BeginComment", "SkipSpace"))
  BY <1>1, QuietTurns, QuietOps
<1>5. Turns(Kinds(s), c, PushObjectState(s, c)) /\ Turns(Kinds(s), c, EndValueIn(s, c))
  BY PushObjectStateTurns, EndValueInTurns
<1>. QED
  BY <1>2, <1>3, <1>4, <1>5

\* stateBeginValueOrEmpty
LEMMA BeginValueOrEmptyTurns ==
  ASSUME NEW s, Stacks(s), LastState(s) # "MultiLineValue", NEW c
  PROVE  Turns(Kinds(s), c, BeginValueOrEmpty(s, c))
<1>1. s \in ScannerRecord
  BY DEF Stacks
<1>2. CASE c = "}" /\ LastState(s) \in {"FlowObjectKey", "FlowObjectValue"}
  <2>. DEFINE f == "FlowObjectValue"
              q == [s.states EXCEPT ![Len(s.states)] = f]
              t == [s EXCEPT !.states[Len(s.states)] = f]
  <2>1. /\ s.states # <<>> /\ LastState(s) = s.states[Len(s.states)]
        /\ s.states \in Seq(Frame) /\ Layered(s.states)
    BY <1>2, TopOfStack DEF LastState, Stacks
  <2>2. /\ LastState(s) \in FlowFrame /\ f \in FlowFrame /\ f \in Frame
        /\ KindOf(f) = KindOf(LastState(s))
    BY <1>2 DEF FlowFrame, Frame, KindOf
  <2>3. FlowKinds(q) = FlowKinds(s.states)
    BY <2>1, <2>2, RetopKinds
  <2>4. Stacks(t) /\ LastState(t) = f
    BY <2>1, <2>2, RetopReady
  <2>5. t.states = q
    BY <1>1 DEF ScannerRecord
  <2>6. BeginValueOrEmpty(s, c) = EndValue(t, c)
    BY <1>2 DEF BeginValueOrEmpty, Space, LineBreak
  <2>. HIDE DEF q, t
  <2>7. Kinds(t) = Kinds(s)
    BY <2>3, <2>5 DEF Kinds
  <2>. QED
    BY <2>4, <2>6, <2>7, EndValueTurns
<1>3. CASE ~(c = "}" /\ LastState(s) \in {"FlowObjectKey", "FlowObjectValue"})
  <2>1. BeginValueOrEmpty(s, c) \in
          {Stay(s, "SkipSpace"), EndLine(s, "SkipSpace"), EndValue(s, c), Fail(s),
           BeginValue(s, c)}
    BY <1>3 DEF BeginValueOrEmpty, Space, LineBreak
  <2>2. /\ Turns(Kinds(s), c, Stay(s, "SkipSpace")) /\ Turns(Kinds(s), c, Fail(s))
        /\ Turns(Kinds(s), c, EndLine(s, "SkipSpace"))
    BY <1>1, QuietTurns, QuietOps
  <2>. QED
    BY <2>1, <2>2, EndValueTurns, BeginValueTurns
<1>. QED
  BY <1>2, <1>3

\* stateBeginLine pops block frames and block literals only.
LEMMA UnwindKinds ==
  ASSUME NEW s, Stacks(s), NEW c
  PROVE  Stacks(Unwind(s, c)) /\ Kinds(Unwind(s, c)) = Kinds(s)
<1>. DEFINE n == FramesKept(s, c)
            k == KeepFrames(s, n)
<1>1. n \in 0..Len(s.states) /\ \A i \in (n + 1)..Len(s.states) : LeavesFrame(s, i, c)
  BY FramesKeptExists
<1>. HIDE DEF n
<1>2. CASE n = Len(s.states)
  BY <1>2 DEF Unwind, n
<1>3. CASE n # Len(s.states)
  <2>1. s.states \in Seq(Frame) /\ Layered(s.states)
    BY TopOfStack DEF Stacks
  <2>2. \A i \in (n + 1)..Len(s.states) : s.states[i] \notin FlowFrame
    BY <1>1 DEF LeavesFrame, ObjectFrame, FlowFrame
  <2>3. Stacks(k) /\ k.states = SubSeq(s.states, 1, n)
    BY <1>1, KeepStacks
  <2>4. Unwind(s, c) = Toggle(k)
    BY <1>3 DEF Unwind, n
  <2>. HIDE DEF k
  <2>5. Kinds(k) = Kinds(s)
    BY <1>1, <2>1, <2>2, <2>3, KeepKinds DEF Kinds
  <2>. QED
    BY <2>3, <2>4, <2>5, ToggleReady, ToggleKinds
<1>. QED
  BY <1>2, <1>3

\* The byte that begins a line, after the frames it leaves
LEMMA BeginLineInTurns ==
  ASSUME NEW s, Stacks(s), NEW c
  PROVE  Turns(Kinds(s), c, BeginLineIn(s, c))
<1>. DEFINE u == Toggle(s)
<1>1. s \in ScannerRecord
  BY DEF Stacks
<1>2. LastState(s) # "MultiLineValue" =>
        Stacks(u) /\ Kinds(u) = Kinds(s) /\ LastState(u) # "MultiLineValue"
  BY ToggleReady, ToggleKinds DEF Toggled
<1>3. \/ BeginLineIn(s, c) \in
           {Fail(s), Goto(s, "BeginArrayValueS", "BeginLiteral"),
            Goto(s, "BeginArrayValueS", "SkipSpace"), Goto(s, "EndYaml1", "Continue"),
            Goto(s, "InMultiline", "Continue")}
      \/ /\ LastState(s) # "MultiLineValue"
         /\ BeginLineIn(s, c) \in {BeginValue(s, c), BeginValue(u, c)}
  BY DEF BeginLineIn
<1>. HIDE DEF u
<1>4. /\ Turns(Kinds(s), c, Fail(s))
      /\ Turns(Kinds(s), c, Goto(s, "BeginArrayValueS", "BeginLiteral"))
      /\ Turns(Kinds(s), c, Goto(s, "BeginArrayValueS", "SkipSpace"))
      /\ Turns(Kinds(s), c, Goto(s, "EndYaml1", "Continue"))
      /\ Turns(Kinds(s), c, Goto(s, "InMultiline", "Continue"))
  BY <1>1, QuietTurns, QuietOps
<1>5. LastState(s) # "MultiLineValue" =>
        Turns(Kinds(s), c, BeginValue(s, c)) /\ Turns(Kinds(s), c, BeginValue(u, c))
  BY <1>2, BeginValueTurns
<1>. QED
  BY <1>3, <1>4, <1>5

\* stateBeginLine
LEMMA BeginLineTurns ==
  ASSUME NEW s, Stacks(s), NEW c
  PROVE  Turns(Kinds(s), c, BeginLine(s, c))
<1>. DEFINE u == Unwind(s, c)
<1>1. BeginLine(s, c) \in
        {[s EXCEPT !.idn = 0, !.op = "SkipSpace"], [s EXCEPT !.idn = s.idn + 1, !.op = "SkipSpace"],
         Goto(s, "BeginComment", "SkipSpace"), Fail(u), BeginLineIn(u, c)}
  BY DEF BeginLine
<1>2. Stacks(u) /\ Kinds(u) = Kinds(s)
  BY UnwindKinds
<1>. HIDE DEF u
<1>3. s \in ScannerRecord /\ u \in ScannerRecord
  BY <1>2 DEF Stacks
<1>4. /\ Turns(Kinds(s), c, [s EXCEPT !.idn = 0, !.op = "SkipSpace"])
      /\ Turns(Kinds(s), c, [s EXCEPT !.idn = s.idn + 1, !.op = "SkipSpace"])
      /\ Turns(Kinds(s), c, Goto(s, "BeginComment", "SkipSpace"))
      /\ Turns(Kinds(u), c, Fail(u))
  BY <1>3, QuietTurns, QuietOps
<1>5. Turns(Kinds(u), c, BeginLineIn(u, c))
  BY <1>2, BeginLineInTurns
<1>. QED
  BY <1>1, <1>2, <1>4, <1>5

\* The state functions of comments and block literals
LEMMA LiteralTurns ==
  ASSUME NEW s \in ScannerRecord, NEW c,
         s.step \in {"BeginComment", "EmptyLine", "BeginMultiline", "BeginMultilineChomp",
                     "InMultiline"}
  PROVE  Turns(Kinds(s), c, Step(s, c))
<1>1. Step(s, c) \in
        {EndLine(s, "SkipSpace"), Stay(s, "SkipSpace"), Stay(s, "Continue"), EndLine(s, "Continue"),
         Goto(s, "BeginComment", "SkipSpace"), Goto(s, "EmptyLine", "Continue"),
         Goto(s, "BeginMultiline", "Continue"), Fail(s)}
  BY DEF Step, BeginComment, EmptyLine, BeginMultilineChomp, BeginMultiline, InMultiline, Space,
         LineBreak
<1>2. /\ Turns(Kinds(s), c, EndLine(s, "SkipSpace")) /\ Turns(Kinds(s), c, Stay(s, "SkipSpace"))
      /\ Turns(Kinds(s), c, EndLine(s, "Continue")) /\ Turns(Kinds(s), c, Stay(s, "Continue"))
      /\ Turns(Kinds(s), c, Goto(s, "BeginComment", "SkipSpace"))
      /\ Turns(Kinds(s), c, Goto(s, "EmptyLine", "Continue"))
      /\ Turns(Kinds(s), c, Goto(s, "BeginMultiline", "Continue"))
      /\ Turns(Kinds(s), c, Fail(s))
  BY QuietTurns, QuietOps
<1>. QED
  BY <1>1, <1>2

\* stateInStringUnq
LEMMA InStringUnqTurns ==
  ASSUME NEW s, Stacks(s), LastState(s) # "MultiLineValue", NEW c
  PROVE  Turns(Kinds(s), c, InStringUnq(s, c))
<1>1. s \in ScannerRecord
  BY DEF Stacks
<1>2. InStringUnq(s, c) \in
        {EndValue(s, c), Goto(s, "KeyOrUnq", "Continue"),
         Goto(s, "InStringUnqOrComment", "Continue"), Fail(s), Stay(s, "Continue")}
  BY DEF InStringUnq, IsUnqDelim, Space, LineBreak
<1>3. /\ Turns(Kinds(s), c, Goto(s, "KeyOrUnq", "Continue"))
      /\ Turns(Kinds(s), c, Goto(s, "InStringUnqOrComment", "Continue"))
      /\ Turns(Kinds(s), c, Fail(s)) /\ Turns(Kinds(s), c, Stay(s, "Continue"))
  BY <1>1, QuietTurns, QuietOps
<1>. QED
  BY <1>2, <1>3, EndValueTurns

\* The state functions of plain scalars, and of what begins like one
LEMMA PlainTurns ==
  ASSUME NEW s, Stacks(s), LastState(s) # "MultiLineValue", NEW c,
         s.step \in {"InStringUnq", "InStringUnqOrComment", "KeyOrUnq", "BeginMerge", "Merge1",
                     "Hyphen", "BeginArrayValueS", "DotBegin"}
  PROVE  Turns(Kinds(s), c, Step(s, c))
<1>. DEFINE t == [s EXCEPT !.step = "InStringUnq"]
<1>1. s \in ScannerRecord
  BY DEF Stacks
<1>2. Stacks(t) /\ t.states = s.states
  <2>1. "InStringUnq" \in Steps
    BY DEF Steps
  <2>. QED
    BY <2>1, SetFields
<1>. HIDE DEF t
<1>3. Kinds(t) = Kinds(s) /\ LastState(t) # "MultiLineValue"
  BY <1>2 DEF Kinds, LastState
<1>4. /\ Turns(Kinds(s), c, InStringUnq(s, c)) /\ Turns(Kinds(s), c, InStringUnq(t, c))
      /\ Turns(Kinds(s), c, EndValue(s, c)) /\ Turns(Kinds(s), c, PushObjectState(s, c))
      /\ Turns(Kinds(s), c, PushArrayState(s))
  BY <1>2, <1>3, InStringUnqTurns, EndValueTurns, PushObjectStateTurns, PushArrayStateTurns
<1>5. /\ Turns(Kinds(s), c, Stay(s, "Continue")) /\ Turns(Kinds(s), c, Fail(s))
      /\ Turns(Kinds(s), c, Goto(s, "BeginComment", "SkipSpace"))
      /\ \A step : Turns(Kinds(s), c, Goto(s, step, "Continue"))
  BY <1>1, QuietTurns, QuietOps
<1>6. CASE s.step \in {"InStringUnq", "DotBegin"}
  <2>1. Step(s, c) \in {InStringUnq(s, c), Goto(s, "EndYaml2", "Continue")}
    BY <1>6 DEF Step, DotBegin
  <2>. QED
    BY <1>4, <1>5, <2>1
<1>7. CASE s.step = "InStringUnqOrComment"
  <2>1. Step(s, c) \in {Stay(s, "Continue"), Goto(s, "BeginComment", "SkipSpace"),
                        InStringUnq(t, c)}
    BY <1>7 DEF Step, InStringUnqOrComment, Space, t
  <2>. QED
    BY <1>4, <1>5, <2>1
<1>8. CASE s.step = "KeyOrUnq"
  <2>1. Step(s, c) \in {PushObjectState(s, c), InStringUnq(t, c)}
    BY <1>8 DEF Step, KeyOrUnq, t
  <2>. QED
    BY <1>4, <2>1
<1>9. CASE s.step \in {"BeginMerge", "Merge1"}
  <2>1. Step(s, c) \in {Goto(s, "Merge1", "Continue"), Goto(s, "InStringUnq", "Continue"), Fail(s)}
    BY <1>9 DEF Step, BeginMerge
  <2>. QED
    BY <1>5, <2>1
<1>10. CASE s.step \in {"Hyphen", "BeginArrayValueS"}
  <2>1. Step(s, c) \in {PushArrayState(s), Goto(s, "NewDoc2", "Continue"), EndValue(s, c),
                        Goto(s, "InStringUnq", "Continue"), Fail(s)}
    BY <1>10 DEF Step, Hyphen, BeginArrayValueS, Space, LineBreak
  <2>. QED
    BY <1>4, <1>5, <2>1
<1>. QED
  BY <1>6, <1>7, <1>8, <1>9, <1>10

\* Anchors, aliases and type tags
LEMMA MarkTurns ==
  ASSUME NEW s, Stacks(s), LastState(s) # "MultiLineValue", NEW c,
         s.step \in {"BeginAnchor", "InAnchor", "BeginAlias", "InAlias", "ExplicitType1",
                     "ExplicitType2"}
  PROVE  Turns(Kinds(s), c, Step(s, c))
<1>1. s \in ScannerRecord
  BY DEF Stacks
<1>2. /\ Turns(Kinds(s), c, Stay(s, "Continue")) /\ Turns(Kinds(s), c, Fail(s))
      /\ Turns(Kinds(s), c, EndLine(s, "SkipSpace"))
      /\ \A step : Turns(Kinds(s), c, Goto(s, step, "SkipSpace"))
      /\ \A step : Turns(Kinds(s), c, Goto(s, step, "Continue"))
  BY <1>1, QuietTurns, QuietOps
<1>3. CASE s.step \in {"BeginAnchor", "BeginAlias", "ExplicitType1"}
  <2>1. Step(s, c) \in {Goto(s, "InAnchor", "Continue"), Goto(s, "InAlias", "Continue"),
                        Goto(s, "ExplicitType2", "Continue"), Fail(s)}
    BY <1>3 DEF Step, BeginAnchor, BeginAlias, ExplicitType1
  <2>. QED
    BY <1>2, <2>1
<1>4. CASE s.step = "InAnchor"
  <2>1. InAnchor(s, c) \in {Stay(s, "Continue"), Goto(s, "BeginValueOrEmpty", "SkipSpace"),
                            EndLine(s, "SkipSpace"), Fail(s)}
    BY DEF InAnchor
  <2>2. Step(s, c) = InAnchor(s, c)
    BY <1>4 DEF Step
  <2>. QED
    BY <1>2, <2>1, <2>2
<1>5. CASE s.step = "InAlias"
  <2>1. InAlias(s, c) \in {Stay(s, "Continue"), Goto(s, "EndValue", "SkipSpace"),
                           EndValue(s, c), Fail(s)}
    BY DEF InAlias
  <2>2. Step(s, c) = InAlias(s, c)
    BY <1>5 DEF Step
  <2>. QED
    BY <1>2, <2>1, <2>2, EndValueTurns
<1>6. CASE s.step = "ExplicitType2"
  <2>1. ExplicitType2(s, c) \in {Stay(s, "Continue"), Goto(s, "BeginValueOrEmpty", "SkipSpace"),
                                 Fail(s)}
    BY DEF ExplicitType2
  <2>2. Step(s, c) = ExplicitType2(s, c)
    BY <1>6 DEF Step
  <2>. QED
    BY <1>2, <2>1, <2>2
<1>. QED
  BY <1>3, <1>4, <1>5, <1>6

\* Quoted scalars and their escapes
LEMMA QuotedTurns ==
  ASSUME NEW s, Stacks(s), LastState(s) # "MultiLineValue", NEW c,
         s.step \in {"InString", "InStringSq", "InStringSq2", "InStringEsc", "InStringHex"}
  PROVE  Turns(Kinds(s), c, Step(s, c))
<1>. DEFINE x == [Goto(s, "InStringHex", "Continue") EXCEPT !.hex = HexCount[c]]
            h == [s EXCEPT !.hex = s.hex - 1, !.step = IF s.hex = 1 THEN "InString" ELSE s.step,
                           !.op = "Continue"]
            z == [s EXCEPT !.hex = 0]
<1>1. s \in ScannerRecord
  BY DEF Stacks
<1>2. x.states = s.states /\ x.op = "Continue" /\ h.states = s.states /\ h.op = "Continue"
  BY <1>1 DEF ScannerRecord, Goto
<1>3. Fail(z).err /\ Fail(z).op = "Error"
  BY <1>1 DEF ScannerRecord, Fail
<1>4. CASE s.step = "InStringHex"
  <2>1. Step(s, c) \in {h, Fail(z)}
    BY <1>4 DEF Step, InStringHex
  <2>. HIDE DEF h, z
  <2>. QED
    BY <1>2, <1>3, <2>1 DEF Turns, Kinds, Delimiters
<1>5. CASE s.step # "InStringHex"
  <2>1. /\ Turns(Kinds(s), c, Stay(s, "Continue")) /\ Turns(Kinds(s), c, Fail(s))
        /\ \A step : Turns(Kinds(s), c, Goto(s, step, "Continue"))
    BY <1>1, QuietTurns, QuietOps
  <2>2. InStringEsc(s, c) \in {Goto(s, "InString", "Continue"), x, Fail(s)}
    BY DEF InStringEsc
  <2>3. Step(s, c) \in {InStringEsc(s, c), Goto(s, "EndValue", "Continue"),
                        Goto(s, "InStringEsc", "Continue"), Goto(s, "InStringSq", "Continue"),
                        Goto(s, "InStringSq2", "Continue"), EndValue(s, c), Stay(s, "Continue"),
                        Fail(s)}
    BY <1>5 DEF Step, InString, Control, InStringSq, InStringSq2
  <2>. HIDE DEF x
  <2>4. Turns(Kinds(s), c, x)
    BY <1>2 DEF Turns, Kinds, Delimiters
  <2>5. Turns(Kinds(s), c, InStringEsc(s, c))
    BY <2>1, <2>2, <2>4
  <2>. QED
    BY <2>1, <2>3, <2>5, EndValueTurns
<1>. QED
  BY <1>4, <1>5

\* Directives, and the bytes of a separator
LEMMA SeparatorTurns ==
  ASSUME NEW s \in ScannerRecord, NEW c,
         s.step \in {"InDirective", "NewDoc", "NewDoc1", "NewDoc2", "EndYaml1", "EndYaml2"}
  PROVE  Turns(Kinds(s), c, Step(s, c))
<1>1. /\ Turns(Kinds(s), c, Stay(s, "Continue")) /\ Turns(Kinds(s), c, Fail(s))
      /\ \A step : Turns(Kinds(s), c, Goto(s, step, "Continue"))
  BY QuietTurns, QuietOps
<1>2. CASE s.step = "InDirective"
  <2>1. Step(s, c) = InDirective(s, c)
    BY <1>2 DEF Step
  <2>2. InDirective(s, c) \in {Stay(s, "Continue"), Goto(s, "NewDoc", "Continue"), Fail(s)}
    BY DEF InDirective, NoPrint, Control, LineBreak
  <2>. QED
    BY <1>1, <2>1, <2>2
<1>3. CASE s.step \in {"NewDoc", "NewDoc1", "NewDoc2", "EndYaml1", "EndYaml2"}
  <2>1. Step(s, c) \in {Goto(s, "NewDoc1", "Continue"), Goto(s, "NewDoc2", "Continue"),
                        Goto(s, "NewDoc3", "Continue"), Goto(s, "EndYaml2", "Continue"),
                        Goto(s, "EndYaml3", "Continue"), Fail(s)}
    BY <1>3 DEF Step, Expect
  <2>. QED
    BY <1>1, <2>1
<1>. QED
  BY <1>2, <1>3

\* A stack that is empty, or without a flow frame, holds no flow collection.
LEMMA NoneOpen ==
  ASSUME NEW s, Stacks(s), s.endTop \/ ~FlowOpen(s)
  PROVE  Kinds(s) = <<>>
<1>1. s.states \in Seq(Frame) /\ Layered(s.states)
  BY DEF Stacks, ScannerRecord
<1>2. \A i \in 1..Len(s.states) : s.states[i] \notin FlowFrame
  <2>1. CASE s.endTop
    <3>1. Len(s.states) = 0
      BY <1>1, <2>1, EmptySeq DEF Stacks
    <3>. QED
      BY <3>1
  <2>2. CASE ~FlowOpen(s)
    BY <2>2 DEF FlowOpen
  <2>. QED
    BY <2>1, <2>2
<1>. QED
  BY <1>1, <1>2, NoKinds DEF Kinds

\* What eof() answers, where the line break has left the stack as it was
LEMMA EofWithTurns ==
  ASSUME NEW s, Stacks(s), NEW t \in ScannerRecord, t.states = s.states, NEW c
  PROVE  LET e == EofWith(s, t)
         IN  /\ e.op \in {"Error", "End"} /\ Turns(Kinds(s), c, e)
             /\ e.op = "End" => Kinds(s) = <<>>
<1>. DEFINE e == EofWith(s, t)
            f == [s EXCEPT !.err = TRUE, !.op = "Error"]
<1>1. s \in ScannerRecord
  BY DEF Stacks
<1>2. /\ e \in {Stay(s, "Error"), f, Stay(s, "End"), Stay(t, "End"), Stay(t, "Error")}
      /\ \/ e \in {Stay(s, "Error"), f}
         \/ s.endTop \/ ~FlowOpen(s)
  BY DEF EofWith, f
<1>3. /\ Stay(s, "Error").op = "Error" /\ Stay(s, "Error").states = s.states
      /\ Stay(s, "End").op = "End" /\ Stay(s, "End").states = s.states
      /\ Stay(t, "End").op = "End" /\ Stay(t, "End").states = s.states
      /\ Stay(t, "Error").op = "Error" /\ Stay(t, "Error").states = s.states
      /\ f.op = "Error" /\ f.states = s.states
  BY <1>1 DEF ScannerRecord, Stay
<1>. HIDE DEF e, f
<1>4. e.op \in {"Error", "End"} /\ e.states = s.states
  BY <1>2, <1>3
<1>5. Turns(Kinds(s), c, e)
  BY <1>4 DEF Turns, Kinds, Delimiters
<1>6. e.op = "End" => Kinds(s) = <<>>
  BY <1>2, <1>3, NoneOpen
<1>. QED
  BY <1>4, <1>5, <1>6 DEF e

\* Nothing is open in a scanner that has been reset.
LEMMA ResetKinds == Kinds(Reset) = <<>> /\ Reset.op = "Continue"
<1>1. Stacks(Reset)
  BY ResetSound DEF Sound, Frames
<1>2. ~FlowOpen(Reset)
  <2>1. Reset.states = <<>> /\ Len(<<>>) = 0
    BY DEF Reset
  <2>. QED
    BY <2>1 DEF FlowOpen
<1>. QED
  BY <1>1, <1>2, NoneOpen DEF Reset

\* The line break behind "---" starts another document only where nothing is open.
LEMMA NewDoc3Turns ==
  ASSUME NEW s, Stacks(s), NEW c
  PROVE  Turns(Kinds(s), c, NewDoc3(s, c))
<1>1. s \in ScannerRecord
  BY DEF Stacks
<1>2. /\ Turns(Kinds(s), c, Stay(s, "SkipSpace")) /\ Turns(Kinds(s), c, Fail(s))
      /\ Turns(Kinds(s), c, Goto(s, "BeginComment", "SkipSpace"))
  BY <1>1, QuietTurns, QuietOps
<1>3. CASE c \in LineBreak
  <2>. DEFINE b == [s EXCEPT !.step = "BeginLine"]
              t == BeginLine(b, "LF")
              e == EofWith(b, t)
  <2>1. Stacks(b) /\ b.states = s.states
    <3>1. "BeginLine" \in Steps
      BY DEF Steps
    <3>. QED
      BY <3>1, SetFields
  <2>2. NewDoc3(s, c) = IF e.op = "Error" THEN e ELSE Reset
    BY <1>3 DEF NewDoc3, LineBreak, Space
  <2>3. t = [b EXCEPT !.idn = 0, !.op = "SkipSpace"]
    BY DEF BeginLine, LineBreak, Space
  <2>. HIDE DEF b, t
  <2>4. t \in ScannerRecord /\ t.states = b.states
    BY <2>1, <2>3 DEF Stacks, ScannerRecord, Opcode
  <2>5. /\ e.op \in {"Error", "End"} /\ Turns(Kinds(b), c, e)
        /\ e.op = "End" => Kinds(b) = <<>>
    BY <2>1, <2>4, EofWithTurns
  <2>6. Kinds(b) = Kinds(s)
    BY <2>1 DEF Kinds
  <2>7. Kinds(s) = <<>> => Turns(Kinds(s), c, Reset)
    BY ResetKinds DEF Turns, Delimiters
  <2>. HIDE DEF e
  <2>. QED
    BY <2>2, <2>5, <2>6, <2>7
<1>4. CASE c \notin LineBreak
  <2>1. NewDoc3(s, c) \in {Stay(s, "SkipSpace"), Goto(s, "BeginComment", "SkipSpace"), Fail(s)}
    BY <1>4 DEF NewDoc3
  <2>. QED
    BY <1>2, <2>1
<1>. QED
  BY <1>3, <1>4

\* stateEndYaml3
LEMMA EndYaml3Turns ==
  ASSUME NEW s, Stacks(s), NEW c
  PROVE  Turns(Kinds(s), c, EndYaml3(s, c))
<1>. DEFINE b == [s EXCEPT !.step = "EndYaml"]
            t == Stay(b, "End")
<1>1. s \in ScannerRecord
  BY DEF Stacks
<1>2. /\ Turns(Kinds(s), c, Stay(s, "SkipSpace")) /\ Turns(Kinds(s), c, Fail(s))
      /\ Turns(Kinds(s), c, Goto(s, "BeginComment", "SkipSpace"))
  BY <1>1, QuietTurns, QuietOps
<1>3. Stacks(b) /\ b.states = s.states
  <2>1. "EndYaml" \in Steps
    BY DEF Steps
  <2>. QED
    BY <2>1, SetFields
<1>4. EndYaml3(s, c) \in {Stay(s, "SkipSpace"), Goto(s, "BeginComment", "SkipSpace"), Fail(s),
                          EofWith(b, t)}
  BY DEF EndYaml3
<1>. HIDE DEF b
<1>5. t \in ScannerRecord /\ t.states = b.states
  BY <1>3 DEF Stay, Stacks, ScannerRecord, Opcode
<1>. HIDE DEF t
<1>6. Turns(Kinds(b), c, EofWith(b, t)) /\ Kinds(b) = Kinds(s)
  BY <1>3, <1>5, EofWithTurns DEF Kinds
<1>. QED
  BY <1>2, <1>4, <1>6

\* Every call of s.step opens one flow collection, on its bracket, closes the innermost, or
\* leaves them alone.
THEOREM StepTurns ==
  ASSUME NEW s, Sound(s), NEW c
  PROVE  Turns(Kinds(s), c, Step(s, c))
<1>1. Stacks(s) /\ s \in ScannerRecord /\ s.step \in Steps
  BY DEF Sound, Frames, Stacks, ScannerRecord
<1>2. s.step \notin LiteralSteps => LastState(s) # "MultiLineValue"
  BY DEF Sound
<1>3. CASE s.step = "BeginLine"
  BY <1>1, <1>3, BeginLineTurns DEF Step
<1>4. CASE s.step \in {"BeginComment", "EmptyLine", "BeginMultiline", "BeginMultilineChomp",
                       "InMultiline"}
  BY <1>1, <1>4, LiteralTurns
<1>5. CASE s.step = "BeginValueOrEmpty"
  BY <1>1, <1>2, <1>5, BeginValueOrEmptyTurns DEF Step, LiteralSteps
<1>6. CASE s.step = "BeginValue"
  BY <1>1, <1>2, <1>6, BeginValueTurns DEF Step, LiteralSteps
<1>7. CASE s.step = "EndValue"
  BY <1>1, <1>2, <1>7, EndValueTurns DEF Step, LiteralSteps
<1>8. CASE s.step \in {"InStringUnq", "InStringUnqOrComment", "KeyOrUnq", "BeginMerge", "Merge1",
                       "Hyphen", "BeginArrayValueS", "DotBegin"}
  BY <1>1, <1>2, <1>8, PlainTurns DEF LiteralSteps
<1>9. CASE s.step \in {"BeginAnchor", "InAnchor", "BeginAlias", "InAlias", "ExplicitType1",
                       "ExplicitType2"}
  BY <1>1, <1>2, <1>9, MarkTurns DEF LiteralSteps
<1>10. CASE s.step \in {"InString", "InStringSq", "InStringSq2", "InStringEsc", "InStringHex"}
  BY <1>1, <1>2, <1>10, QuotedTurns DEF LiteralSteps
<1>11. CASE s.step \in {"InDirective", "NewDoc", "NewDoc1", "NewDoc2", "EndYaml1", "EndYaml2"}
  BY <1>1, <1>11, SeparatorTurns
<1>12. CASE s.step = "NewDoc3"
  BY <1>1, <1>12, NewDoc3Turns DEF Step
<1>13. CASE s.step = "EndYaml3"
  BY <1>1, <1>13, EndYaml3Turns DEF Step
<1>14. CASE s.step = "EndTop"
  BY <1>1, <1>14, EndTopTurns DEF Step
<1>15. CASE s.step \in {"EndYaml", "Error"}
  <2>1. Step(s, c) \in {Stay(s, "End"), Stay(s, "Error")}
    BY <1>15 DEF Step
  <2>2. Turns(Kinds(s), c, Stay(s, "End")) /\ Turns(Kinds(s), c, Stay(s, "Error"))
    BY <1>1, QuietTurns, QuietOps
  <2>. QED
    BY <2>1, <2>2
<1>. QED
  BY <1>1, <1>3, <1>4, <1>5, <1>6, <1>7, <1>8, <1>9, <1>10, <1>11, <1>12, <1>13, <1>14, <1>15
     DEF Steps

\* eof() answers scanEnd only where no flow collection is open, and its line break
\* opens none.
LEMMA EofKinds ==
  ASSUME NEW s, Sound(s), Eof(s).op # "Error"
  PROVE  Kinds(s) = <<>> /\ Kinds(Eof(s)) = <<>>
<1>. DEFINE t == Step(s, "LF")
            f == [s EXCEPT !.err = TRUE, !.op = "Error"]
<1>1. Stacks(s) /\ s \in ScannerRecord /\ Stacks(t) /\ t \in ScannerRecord
  BY StepSound DEF Sound, Frames, Stacks
<1>2. Turns(Kinds(s), "LF", t)
  BY StepTurns
<1>3. Eof(s) = EofWith(s, t)
  BY DEF Eof
<1>. HIDE DEF t
<1>4. /\ Stay(s, "Error").op = "Error" /\ Stay(t, "Error").op = "Error" /\ f.op = "Error"
      /\ Stay(s, "End").states = s.states /\ Stay(t, "End").states = t.states
  BY <1>1 DEF ScannerRecord, Stay
<1>. HIDE DEF f
<1>5. CASE s.err \/ s.endTop \/ FlowOpen(s)
  <2>1. \/ EofWith(s, t) \in {Stay(s, "Error"), f}
        \/ EofWith(s, t) = Stay(s, "End") /\ s.endTop
    BY <1>5 DEF EofWith, f
  <2>2. EofWith(s, t) = Stay(s, "End") /\ s.endTop
    BY <1>3, <1>4, <2>1
  <2>3. Kinds(s) = <<>>
    BY <1>1, <2>2, NoneOpen
  <2>. QED
    BY <1>3, <1>4, <2>2, <2>3 DEF Kinds
<1>6. CASE ~s.err /\ ~s.endTop /\ ~FlowOpen(s)
  <2>1. \/ EofWith(s, t) = Stay(t, "End") /\ (t.endTop \/ ~t.err)
        \/ EofWith(s, t) = Stay(t, "Error")
    BY <1>6 DEF EofWith
  <2>2. EofWith(s, t) = Stay(t, "End") /\ (t.endTop \/ ~t.err)
    BY <1>3, <1>4, <2>1
  <2>3. Kinds(s) = <<>>
    BY <1>1, <1>6, NoneOpen
  <2>4. Kinds(t) = <<>>
    <3>1. CASE t.endTop
      BY <1>1, <3>1, NoneOpen
    <3>2. CASE ~t.err
      BY <1>2, <2>3, <3>2 DEF Turns
    <3>. QED
      BY <2>2, <3>1, <3>2
  <2>. QED
    BY <1>3, <1>4, <2>2, <2>3, <2>4 DEF Kinds
<1>. QED
  BY <1>5, <1>6

\* Where the answer is no error, a call is a step of FlowNesting.
LEMMA TurnsNest ==
  ASSUME verdict = "scanning", verdict' = verdict, scan'.op # "Error", NEW c,
         Turns(Kinds(scan), c, scan')
  PROVE  Nesting!Scanning
<1>1. /\ Nesting!Collection = {"object", "array"}
      /\ Nesting!BeginOf["object"] = "BeginObject" /\ Nesting!BeginOf["array"] = "BeginArray"
      /\ Nesting!EndOf["object"] = "EndObject" /\ Nesting!EndOf["array"] = "EndArray"
  BY DEF Nesting!Collection, Nesting!BeginOf, Nesting!EndOf
<1>2. CASE scan'.op \notin Delimiters /\ Kinds(scan') = Kinds(scan)
  <2>1. \A k \in Nesting!Collection : scan'.op \notin {Nesting!BeginOf[k], Nesting!EndOf[k]}
    BY <1>1, <1>2 DEF Delimiters
  <2>. QED
    BY <1>2, <2>1 DEF Nesting!Scanning, Nesting!Other, Kinds
<1>3. ASSUME NEW k \in Nesting!Collection, scan'.op = Nesting!BeginOf[k],
             Kinds(scan') = Append(Kinds(scan), k)
      PROVE  Nesting!Scanning
  <2>1. Nesting!Begin(k)
    BY <1>3 DEF Nesting!Begin, Kinds
  <2>. QED
    BY <2>1 DEF Nesting!Scanning
<1>4. ASSUME NEW k \in Nesting!Collection, scan'.op = Nesting!EndOf[k], Kinds(scan) # <<>>,
             Kinds(scan)[Len(Kinds(scan))] = k,
             Kinds(scan') = SubSeq(Kinds(scan), 1, Len(Kinds(scan)) - 1)
      PROVE  Nesting!Scanning
  <2>1. Nesting!End(k)
    BY <1>4 DEF Nesting!End, Kinds
  <2>. QED
    BY <2>1 DEF Nesting!Scanning
<1>. QED
  BY <1>2, <1>3, <1>4 DEF Turns

\* The events that open and close flow collections are properly nested, whatever the input,
\* and no input is accepted while one is open.
THEOREM ScannerFlowNests == Spec => ImplementsFlowNesting
<1>1. Init => Nesting!Init
  BY ResetKinds DEF Init, Nesting!Init, Kinds
<1>2. Inv /\ [Next]_vars => [Nesting!Next]_(Nesting!vars)
  <2>. SUFFICES ASSUME Inv, [Next]_vars PROVE [Nesting!Next]_(Nesting!vars)
    OBVIOUS
  <2>1. Sound(scan)
    BY DEF Inv
  <2>2. ASSUME NEW c \in Input, ReadByte(c) PROVE Nesting!Next
    <3>. DEFINE t == Step(scan, c)
    <3>1. Sound(t) /\ Turns(Kinds(scan), c, t)
      BY <2>1, StepSound, StepTurns
    <3>2. /\ verdict = "scanning"
          /\ IF t.op = "Error" THEN scan' = t /\ verdict' = "invalid"
             ELSE scan' = LastInput(t, c) /\ UNCHANGED verdict
      BY <2>2 DEF ReadByte
    <3>. HIDE DEF t
    <3>3. CASE t.op = "Error"
      BY <3>2, <3>3 DEF Nesting!Next, Nesting!Reject
    <3>4. CASE t.op # "Error"
      <4>1. scan'.op = t.op /\ Kinds(scan') = Kinds(t)
        BY <3>1, <3>2, <3>4, LastInputSound DEF Kinds
      <4>2. Turns(Kinds(scan), c, scan')
        BY <3>1, <3>4, <4>1 DEF Turns
      <4>3. Nesting!Scanning
        BY <3>2, <3>4, <4>1, <4>2, TurnsNest
      <4>. QED
        BY <4>3 DEF Nesting!Next
    <3>. QED
      BY <3>3, <3>4
  <2>3. ASSUME EndOfInput PROVE Nesting!Next
    <3>1. CASE scan'.op = "Error"
      BY <2>3, <3>1 DEF EndOfInput, Nesting!Next, Nesting!Reject
    <3>2. CASE scan'.op # "Error"
      <4>1. Kinds(scan) = <<>> /\ Kinds(scan') = <<>>
        BY <2>1, <2>3, <3>2, EofKinds DEF EndOfInput
      <4>2. Nesting!Accept
        BY <2>3, <3>2, <4>1 DEF EndOfInput, Nesting!Accept, Kinds
      <4>. QED
        BY <4>2 DEF Nesting!Next
    <3>. QED
      BY <3>1, <3>2
  <2>4. ASSUME Reuse PROVE Nesting!Next
    BY <2>4, ResetKinds DEF Reuse, Nesting!Next, Nesting!Restart, Kinds
  <2>5. CASE UNCHANGED vars
    BY <2>5 DEF vars, Nesting!vars
  <2>. QED
    BY <2>2, <2>3, <2>4, <2>5 DEF Next
<1>. QED
  BY <1>1, <1>2, ScannerInvariant, PTL DEF Spec, ImplementsFlowNesting, Nesting!Spec
===============================================================================
