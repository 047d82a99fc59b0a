------------------------------ MODULE ScannerFacts ------------------------------
(***************************************************************************)
(* What the state functions of the scanner preserve.  Sound(s) is the      *)
(* condition that holds of a scanner between two calls of s.step, whoever  *)
(* calls it and whatever the bytes are; StepSound says that every call     *)
(* keeps it.  ScannerProofs uses it for checkValid, DecoderProofs for the  *)
(* scanner inside Decoder.readValue, ParserProofs for the one of           *)
(* decodeState.  The last part is about the search for separators.         *)
(***************************************************************************)
EXTENDS ScannerOps, Separators, SequenceFacts

\* The parts of Sound that are about the two stacks.
BlockFrame == ObjectFrame \cup {"ArrayValue"}

\* Block frames first, then flow frames, then at most one block literal.
Layered(st) ==
  \A i, j \in 1..Len(st) :
    i < j => /\ st[i] \in FlowFrame => st[j] \in FlowFrame \cup {"MultiLineValue"}
             /\ st[i] # "MultiLineValue"

\* Block collections nest by indent.
Nested(st, ind) ==
  \A i \in 1..(Len(st) - 1) :
    /\ st[i] \in BlockFrame /\ st[i + 1] = "ArrayValue" => ind[i + 1] > ind[i]
    /\ st[i] \in ObjectFrame /\ st[i + 1] \in ObjectFrame => ind[i + 1] > ind[i]
    /\ st[i] = "ArrayValue" /\ st[i + 1] \in ObjectFrame => ind[i + 1] >= ind[i]

\* The innermost block collection is a mapping whose value is being read.
KeyOpen(st) ==
  \E i \in 1..Len(st) :
    /\ st[i] = "ObjectValue"
    /\ \A j \in 1..Len(st) : st[j] \in BlockFrame => j <= i

\* The stacks, whatever the step ...
Stacks(s) ==
  /\ s \in ScannerRecord
  /\ Len(s.states) = Len(s.indents)
  /\ Layered(s.states)
  /\ Nested(s.states, s.indents)
  /\ Len(s.states) > MaxNestingDepth => s.err
  /\ s.endTop => s.states = <<>>

\* ... and between a block key and the end of its line.
Frames(s) == Stacks(s) /\ (s.sameLine /\ ~s.err => KeyOpen(s.states))

\* The state functions that can run when the top-level value is complete.
TopSteps ==
  {"BeginLine", "BeginComment", "EndTop", "EndYaml", "NewDoc1", "NewDoc2", "NewDoc3",
   "EndYaml1", "EndYaml2", "EndYaml3", "Error"}

\* Between two calls of s.step
Sound(s) ==
  /\ Frames(s)
  /\ s.step = "InStringHex" <=> s.hex > 0
  /\ s.endTop => s.step \in TopSteps
  /\ s.step = "EndTop" => s.endTop
  /\ LastState(s) = "MultiLineValue" => s.step \in LiteralSteps
  /\ s.sameLine /\ ~s.err => s.step # "BeginLine"

\* Inside the state functions that may push and toggle frames
Ready(s) ==
  /\ Frames(s)
  /\ s.hex = 0 /\ ~s.endTop
  /\ LastState(s) # "MultiLineValue"

\* A call that leaves a sound scanner behind and keeps an error on record
Leads(s, t) == Sound(t) /\ (s.err => t.err)

\* The step of a scanner that is Ready and that the call leaves there
Plain == Steps \ {"BeginLine", "InStringHex", "EndTop"}

-----------------------------------------------------------------------------
(***************************************************************************)
(* The stacks as sequences.                                                *)
(***************************************************************************)
\* PushState appends a frame: a block frame only onto block frames, and nothing onto
\* a block literal.
LEMMA PushLayered ==
  ASSUME NEW st \in Seq(Frame), Layered(st), NEW f \in Frame,
         st # <<>> => st[Len(st)] # "MultiLineValue",
         f \in BlockFrame => (st # <<>> => st[Len(st)] \in BlockFrame)
  PROVE  Layered(Append(st, f))
<1>. DEFINE q == Append(st, f)
<1>1. /\ Len(q) = Len(st) + 1 /\ Len(st) \in Nat
      /\ \A i \in 1..Len(st) : q[i] = st[i] /\ st[i] \in Frame
      /\ q[Len(st) + 1] = f
  BY AppendProperties, LenProperties, ElementOfSeq
<1>. HIDE DEF q
<1>2. SUFFICES ASSUME NEW i \in 1..Len(q), NEW j \in 1..Len(q), i < j
               PROVE  /\ q[i] \in FlowFrame => q[j] \in FlowFrame \cup {"MultiLineValue"}
                      /\ q[i] # "MultiLineValue"
  BY DEF Layered, q
<1>3. i \in 1..Len(st) /\ q[i] = st[i]
  BY <1>1, <1>2
<1>4. CASE j \in 1..Len(st)
  BY <1>1, <1>2, <1>3, <1>4 DEF Layered
<1>5. CASE j = Len(st) + 1
  <2>1. Len(st) \in 1..Len(st) /\ st # <<>>
    BY <1>1, <1>3
  <2>2. i = Len(st) \/ i < Len(st)
    BY <1>3, <1>1
  <2>3. st[i] # "MultiLineValue"
    BY <2>1, <2>2, <1>3 DEF Layered
  <2>4. st[i] \in FlowFrame => st[Len(st)] \in FlowFrame
    BY <2>1, <2>2, <1>3, <1>1 DEF Layered
  <2>5. f \in BlockFrame \/ f \in FlowFrame \cup {"MultiLineValue"}
    BY DEF Frame, BlockFrame
  <2>6. BlockFrame \cap FlowFrame = {}
    BY DEF BlockFrame, ObjectFrame, FlowFrame
  <2>. QED
    BY <1>1, <1>3, <1>5, <2>1, <2>3, <2>4, <2>5, <2>6
<1>. QED
  BY <1>1, <1>4, <1>5

\* The indent of a block collection that is pushed is above, or at, that of the one it
\* stands in.
LEMMA PushNested ==
  ASSUME NEW st \in Seq(Frame), NEW ind \in Seq(Nat), Len(st) = Len(ind), Nested(st, ind),
         NEW f \in Frame, NEW n \in Nat,
         st # <<>> =>
           LET top == st[Len(st)] d == n - ind[Len(ind)]
           IN  /\ top \in BlockFrame /\ f = "ArrayValue" => d > 0
               /\ top \in ObjectFrame /\ f \in ObjectFrame => d > 0
               /\ top = "ArrayValue" /\ f \in ObjectFrame => d >= 0
  PROVE  Nested(Append(st, f), Append(ind, n))
<1>. DEFINE q == Append(st, f)
            k == Append(ind, n)
<1>1. /\ Len(q) = Len(st) + 1 /\ Len(st) \in Nat
      /\ \A i \in 1..Len(st) : q[i] = st[i]
      /\ q[Len(st) + 1] = f
  BY AppendProperties, LenProperties
<1>2. /\ \A i \in 1..Len(st) : k[i] = ind[i] /\ ind[i] \in Nat
      /\ k[Len(st) + 1] = n
  BY AppendProperties, LenProperties, ElementOfSeq
<1>. HIDE DEF q, k
<1>3. SUFFICES ASSUME NEW i \in 1..(Len(q) - 1)
               PROVE
                 /\ q[i] \in BlockFrame /\ q[i + 1] = "ArrayValue" => k[i + 1] > k[i]
                 /\ q[i] \in ObjectFrame /\ q[i + 1] \in ObjectFrame => k[i + 1] > k[i]
                 /\ q[i] = "ArrayValue" /\ q[i + 1] \in ObjectFrame => k[i + 1] >= k[i]
  BY DEF Nested, q, k
<1>4. i \in 1..Len(st) /\ q[i] = st[i] /\ k[i] = ind[i]
  BY <1>1, <1>2
<1>5. CASE i < Len(st)
  <2>1. i \in 1..(Len(st) - 1) /\ i + 1 \in 1..Len(st)
    BY <1>1, <1>4, <1>5
  <2>2. q[i + 1] = st[i + 1] /\ k[i + 1] = ind[i + 1]
    BY <1>1, <1>2, <2>1
  <2>. QED
    BY <1>4, <2>1, <2>2 DEF Nested
<1>6. CASE i = Len(st)
  <2>1. st # <<>> /\ q[i + 1] = f /\ k[i + 1] = n /\ ind[i] \in Nat
    BY <1>1, <1>2, <1>4, <1>6
  <2>. QED
    BY <1>4, <1>6, <2>1
<1>. QED
  BY <1>1, <1>4, <1>5, <1>6

\* A frame pushed that is no block collection leaves the innermost one as it is; the
\* mapping of a key is the innermost one.
LEMMA PushKeyOpen ==
  ASSUME NEW st \in Seq(Frame), NEW f \in Frame,
         f = "ObjectValue" \/ (f \notin BlockFrame /\ KeyOpen(st))
  PROVE  KeyOpen(Append(st, f))
<1>. DEFINE q == Append(st, f)
<1>1. /\ Len(q) = Len(st) + 1 /\ Len(st) \in Nat
      /\ \A i \in 1..Len(st) : q[i] = st[i]
      /\ q[Len(st) + 1] = f
  BY AppendProperties, LenProperties
<1>. HIDE DEF q
<1>2. CASE f = "ObjectValue"
  <2>1. Len(q) \in 1..Len(q) /\ \A j \in 1..Len(q) : j <= Len(q)
    BY <1>1
  <2>. QED
    BY <1>1, <1>2, <2>1 DEF KeyOpen, q
<1>3. CASE f \notin BlockFrame /\ KeyOpen(st)
  <2>1. PICK i \in 1..Len(st) : /\ st[i] = "ObjectValue"
                                /\ \A j \in 1..Len(st) : st[j] \in BlockFrame => j <= i
    BY <1>3 DEF KeyOpen
  <2>2. i \in 1..Len(q) /\ q[i] = "ObjectValue"
    BY <1>1, <2>1
  <2>3. \A j \in 1..Len(q) : j \in 1..Len(st) \/ j = Len(st) + 1
    BY <1>1
  <2>4. \A j \in 1..Len(q) : q[j] \in BlockFrame => j <= i
    BY <1>1, <1>3, <2>1, <2>3
  <2>. QED
    BY <2>2, <2>4 DEF KeyOpen, q
<1>. QED
  BY <1>2, <1>3

\* KeepFrames takes a prefix of both stacks.
LEMMA PrefixOfStack ==
  ASSUME NEW S, NEW q \in Seq(S), NEW n \in 0..Len(q)
  PROVE  /\ SubSeq(q, 1, n) \in Seq(S)
         /\ Len(SubSeq(q, 1, n)) = n
         /\ \A i \in 1..n : SubSeq(q, 1, n)[i] = q[i]
<1>1. Len(q) \in Nat /\ n \in Int
  OBVIOUS
<1>2. \A i \in 1..n : q[i] \in S
  BY <1>1, ElementOfSeq
<1>. QED
  BY <1>1, <1>2, SubSeqProperties

\* popState and stateBeginLine keep a prefix of the stack: it stays layered ...
LEMMA KeepLayered ==
  ASSUME NEW st \in Seq(Frame), Layered(st), NEW n \in 0..Len(st)
  PROVE  Layered(SubSeq(st, 1, n))
<1>1. /\ Len(SubSeq(st, 1, n)) = n /\ Len(st) \in Nat
      /\ \A i \in 1..n : i \in 1..Len(st) /\ SubSeq(st, 1, n)[i] = st[i]
  BY PrefixOfStack
<1>. QED
  BY <1>1 DEF Layered

\* ... and nested by indent.
LEMMA KeepNested ==
  ASSUME NEW st \in Seq(Frame), NEW ind \in Seq(Nat), Len(st) = Len(ind), Nested(st, ind),
         NEW n \in 0..Len(st)
  PROVE  Nested(SubSeq(st, 1, n), SubSeq(ind, 1, n))
<1>1. /\ Len(SubSeq(st, 1, n)) = n /\ Len(st) \in Nat
      /\ \A i \in 1..n : SubSeq(st, 1, n)[i] = st[i] /\ SubSeq(ind, 1, n)[i] = ind[i]
  BY PrefixOfStack
<1>2. \A i \in 1..(n - 1) : i \in 1..n /\ i + 1 \in 1..n /\ i \in 1..(Len(st) - 1)
  BY <1>1
<1>. QED
  BY <1>1, <1>2 DEF Nested

\* The closing bracket takes a flow frame away.
LEMMA PopKeyOpen ==
  ASSUME NEW st \in Seq(Frame), st # <<>>, st[Len(st)] \in FlowFrame, KeyOpen(st)
  PROVE  /\ KeyOpen(SubSeq(st, 1, Len(st) - 1))
         /\ Len(st) - 1 > 0
<1>. DEFINE n == Len(st) - 1
<1>1. Len(st) \in Nat /\ n \in 0..Len(st) /\ Len(st) = n + 1
  OBVIOUS
<1>2. PICK i \in 1..Len(st) : /\ st[i] = "ObjectValue"
                              /\ \A j \in 1..Len(st) : st[j] \in BlockFrame => j <= i
  BY DEF KeyOpen
<1>3. i # Len(st)
  BY <1>2 DEF FlowFrame
<1>. HIDE DEF n
<1>4. i \in 1..n /\ \A j \in 1..n : j \in 1..Len(st)
  BY <1>1, <1>2, <1>3
<1>5. Len(SubSeq(st, 1, n)) = n /\ \A j \in 1..n : SubSeq(st, 1, n)[j] = st[j]
  BY <1>1, PrefixOfStack
<1>6. KeyOpen(SubSeq(st, 1, n))
  BY <1>2, <1>4, <1>5 DEF KeyOpen
<1>. QED
  BY <1>4, <1>6, <1>1 DEF n

\* toggleObjectState replaces the frame on top by one of the same class.
LEMMA RetopStack ==
  ASSUME NEW st \in Seq(Frame), st # <<>>, NEW f \in Frame,
         \/ f \in ObjectFrame /\ st[Len(st)] \in ObjectFrame
         \/ f \in FlowFrame /\ st[Len(st)] \in FlowFrame
  PROVE  LET q == [st EXCEPT ![Len(st)] = f]
         IN  /\ q \in Seq(Frame) /\ Len(q) = Len(st) /\ q[Len(st)] = f
             /\ Layered(st) => Layered(q)
             /\ \A ind : Nested(st, ind) => Nested(q, ind)
             /\ f = "ObjectValue" \/ (f \in FlowFrame /\ KeyOpen(st)) => KeyOpen(q)
<1>. DEFINE q == [st EXCEPT ![Len(st)] = f]
<1>1. Len(st) \in Nat /\ Len(st) \in 1..Len(st)
  OBVIOUS
<1>2. /\ q \in Seq(Frame) /\ Len(q) = Len(st) /\ q[Len(st)] = f
      /\ \A j \in 1..Len(st) : j # Len(st) => q[j] = st[j]
  BY <1>1, ExceptSeq
<1>. HIDE DEF q
<1>3. f # "MultiLineValue" /\ f # "ArrayValue"
  BY DEF ObjectFrame, FlowFrame
<1>4. \A j \in 1..Len(st) : /\ q[j] \in ObjectFrame <=> st[j] \in ObjectFrame
                            /\ q[j] \in FlowFrame <=> st[j] \in FlowFrame
                            /\ q[j] = "ArrayValue" <=> st[j] = "ArrayValue"
                            /\ q[j] = "MultiLineValue" <=> st[j] = "MultiLineValue"
  BY <1>2 DEF ObjectFrame, FlowFrame
<1>5. Layered(st) => Layered(q)
  BY <1>2, <1>4 DEF Layered
<1>6. ASSUME NEW ind, Nested(st, ind) PROVE Nested(q, ind)
  <2>1. \A i \in 1..(Len(st) - 1) : i \in 1..Len(st) /\ i + 1 \in 1..Len(st)
    BY <1>1
  <2>. QED
    BY <1>2, <1>4, <1>6, <2>1 DEF Nested, BlockFrame
<1>7. CASE f = "ObjectValue"
  <2>1. \A j \in 1..Len(q) : j <= Len(st)
    BY <1>2
  <2>2. KeyOpen(q)
    BY <1>1, <1>2, <1>7, <2>1 DEF KeyOpen
  <2>. QED
    BY <1>2, <1>5, <1>6, <2>2 DEF q
<1>8. CASE f \in FlowFrame /\ KeyOpen(st)
  <2>1. PICK i \in 1..Len(st) : /\ st[i] = "ObjectValue"
                                /\ \A j \in 1..Len(st) : st[j] \in BlockFrame => j <= i
    BY <1>8 DEF KeyOpen
  <2>2. i # Len(st)
    BY <2>1, <1>8 DEF FlowFrame, ObjectFrame
  <2>3. \A j \in 1..Len(q) : q[j] \in BlockFrame => j <= i
    BY <1>2, <1>4, <2>1 DEF BlockFrame
  <2>4. KeyOpen(q)
    BY <1>2, <2>1, <2>2, <2>3 DEF KeyOpen
  <2>. QED
    BY <1>2, <1>5, <1>6, <2>4 DEF q
<1>. QED
  BY <1>2, <1>5, <1>6, <1>7, <1>8 DEF q

-----------------------------------------------------------------------------
(***************************************************************************)
(* The helpers of the state functions.                                     *)
(***************************************************************************)
\* An error may be recorded anywhere but in an escape that still wants digits.
LEMMA FailSound ==
  ASSUME NEW s, Stacks(s), s.hex = 0
  PROVE  Leads(s, Fail(s))
<1>1. Fail(s) \in ScannerRecord
  BY DEF Stacks, Fail, ScannerRecord, Steps, Opcode
<1>2. /\ Fail(s).states = s.states /\ Fail(s).indents = s.indents
      /\ Fail(s).endTop = s.endTop /\ Fail(s).hex = 0
      /\ Fail(s).step = "Error" /\ Fail(s).err
  BY DEF Stacks, Fail, ScannerRecord
<1>. QED
  BY <1>1, <1>2 DEF Leads, Sound, Frames, Stacks, TopSteps, LiteralSteps

\* A scanner that is Ready goes on in another state, ...
LEMMA GotoReady ==
  ASSUME NEW s, Ready(s), NEW step \in Plain, NEW op \in Opcode
  PROVE  Ready(Goto(s, step, op)) /\ Leads(s, Goto(s, step, op))
<1>. DEFINE t == Goto(s, step, op)
<1>1. t \in ScannerRecord
  BY DEF Ready, Frames, Stacks, Goto, ScannerRecord, Plain
<1>2. /\ t.states = s.states /\ t.indents = s.indents /\ t.endTop = s.endTop
      /\ t.hex = s.hex /\ t.err = s.err /\ t.sameLine = s.sameLine /\ t.step = step
  BY DEF Ready, Frames, Stacks, Goto, ScannerRecord
<1>. HIDE DEF t
<1>3. Ready(t)
  BY <1>1, <1>2 DEF Ready, Frames, Stacks, LastState
<1>. QED
  BY <1>2, <1>3 DEF Ready, Leads, Sound, Plain, t

\* ... or in the same.
LEMMA StayReady ==
  ASSUME NEW s, Ready(s), s.step \in Plain, NEW op \in Opcode
  PROVE  Ready(Stay(s, op)) /\ Leads(s, Stay(s, op))
<1>. DEFINE t == Stay(s, op)
<1>1. t \in ScannerRecord
  BY DEF Ready, Frames, Stacks, Stay, ScannerRecord
<1>2. /\ t.states = s.states /\ t.indents = s.indents /\ t.endTop = s.endTop
      /\ t.hex = s.hex /\ t.err = s.err /\ t.sameLine = s.sameLine /\ t.step = s.step
  BY DEF Ready, Frames, Stacks, Stay, ScannerRecord
<1>. HIDE DEF t
<1>3. Ready(t)
  BY <1>1, <1>2 DEF Ready, Frames, Stacks, LastState
<1>. QED
  BY <1>2, <1>3 DEF Ready, Leads, Sound, Plain, t

\* endLine: a new line, on which no key has been read yet
LEMMA EndLineSound ==
  ASSUME NEW s, Stacks(s), s.hex = 0, NEW op \in Opcode
  PROVE  Leads(s, EndLine(s, op))
<1>. DEFINE t == EndLine(s, op)
<1>1. t \in ScannerRecord
  BY DEF Stacks, EndLine, ScannerRecord, Steps
<1>2. /\ t.states = s.states /\ t.indents = s.indents /\ t.endTop = s.endTop
      /\ t.hex = 0 /\ t.err = s.err /\ t.sameLine = FALSE /\ t.step = "BeginLine"
  BY DEF Stacks, EndLine, ScannerRecord
<1>. HIDE DEF t
<1>. QED
  BY <1>1, <1>2 DEF Leads, Sound, Frames, Stacks, TopSteps, LiteralSteps, t

\* What the names of the frames of a non-empty stack are
LEMMA TopOfStack ==
  ASSUME NEW s, Stacks(s)
  PROVE  /\ s.states \in Seq(Frame) /\ s.indents \in Seq(Nat) /\ Len(s.states) \in Nat
         /\ s.states = <<>> <=> LastState(s) = "none"
         /\ s.states # <<>> => /\ LastState(s) = s.states[Len(s.states)]
                               /\ LastState(s) \in Frame
                               /\ Len(s.states) \in 1..Len(s.states)
         /\ "none" \notin Frame
<1>1. s.states \in Seq(Frame) /\ s.indents \in Seq(Nat)
  BY DEF Stacks, ScannerRecord
<1>2. Len(s.states) \in Nat /\ (s.states # <<>> => Len(s.states) \in 1..Len(s.states))
  BY <1>1
<1>3. s.states # <<>> => s.states[Len(s.states)] \in Frame
  BY <1>1, <1>2, ElementOfSeq
<1>4. "none" \notin Frame
  BY DEF Frame, ObjectFrame, FlowFrame
<1>. QED
  BY <1>1, <1>2, <1>3, <1>4 DEF LastState

\* The frame on top of the stack is replaced by one of its class.
LEMMA RetopReady ==
  ASSUME NEW s, Stacks(s), s.states # <<>>, NEW f \in Frame,
         \/ f \in ObjectFrame /\ LastState(s) \in ObjectFrame
         \/ f \in FlowFrame /\ LastState(s) \in FlowFrame
  PROVE  LET t == [s EXCEPT !.states[Len(s.states)] = f]
         IN  /\ Stacks(t) /\ LastState(t) = f /\ t.states # <<>>
             /\ Frames(s) /\ (f = "ObjectValue" \/ f \in FlowFrame) => Frames(t)
             /\ t = [s EXCEPT !.states = t.states]
<1>. DEFINE q == [s.states EXCEPT ![Len(s.states)] = f]
            t == [s EXCEPT !.states[Len(s.states)] = f]
<1>1. /\ s.states \in Seq(Frame) /\ LastState(s) = s.states[Len(s.states)]
      /\ Len(s.states) \in Nat \ {0}
  BY TopOfStack
<1>2. /\ q \in Seq(Frame) /\ Len(q) = Len(s.states) /\ q[Len(s.states)] = f
      /\ Layered(q) /\ Nested(q, s.indents)
      /\ f = "ObjectValue" \/ (f \in FlowFrame /\ KeyOpen(s.states)) => KeyOpen(q)
  BY <1>1, RetopStack DEF Stacks
<1>3. t = [s EXCEPT !.states = q]
  OBVIOUS
<1>4. q # <<>> /\ Len(q) # 0
  BY <1>1, <1>2
<1>. HIDE DEF q, t
<1>5. t \in ScannerRecord
  BY <1>2, <1>3 DEF Stacks, ScannerRecord
<1>6. /\ t.states = q /\ t.indents = s.indents /\ t.endTop = s.endTop
      /\ t.err = s.err /\ t.sameLine = s.sameLine
  BY <1>3 DEF Stacks, ScannerRecord
<1>7. Stacks(t)
  BY <1>1, <1>2, <1>4, <1>5, <1>6 DEF Stacks
<1>8. LastState(t) = f
  BY <1>2, <1>4, <1>6 DEF LastState
<1>9. ASSUME Frames(s), f = "ObjectValue" \/ f \in FlowFrame PROVE Frames(t)
  BY <1>2, <1>6, <1>7, <1>9 DEF Frames
<1>. QED
  BY <1>3, <1>4, <1>6, <1>7, <1>8, <1>9 DEF t

\* toggleObjectState: the key of a mapping whose value is being read on the line of
\* the key stays open.
LEMMA ToggleReady ==
  ASSUME NEW s, Stacks(s)
  PROVE  LET t == Toggle(s)
         IN  /\ Stacks(t)
             /\ t = [s EXCEPT !.states = t.states]
             /\ Frames(s) /\ (LastState(s) = "ObjectValue" => ~s.sameLine \/ s.err) => Frames(t)
             /\ LastState(s) \in {"ObjectKey", "FlowObjectKey", "ObjectValue", "FlowObjectValue"}
                  => LastState(t) = Toggled[LastState(s)]
             /\ LastState(s) \notin {"ObjectKey", "FlowObjectKey", "ObjectValue", "FlowObjectValue"}
                  => t = s
<1>1. DOMAIN Toggled = {"ObjectKey", "FlowObjectKey", "ObjectValue", "FlowObjectValue"}
  BY DEF Toggled
<1>2. CASE LastState(s) \notin DOMAIN Toggled
  <2>1. Toggle(s) = s
    BY <1>2 DEF Toggle
  <2>2. s = [s EXCEPT !.states = s.states]
    BY DEF Stacks, ScannerRecord
  <2>. QED
    BY <1>1, <1>2, <2>1, <2>2
<1>3. CASE LastState(s) \in DOMAIN Toggled
  <2>. DEFINE f == Toggled[LastState(s)]
              t == [s EXCEPT !.states[Len(s.states)] = f]
  <2>1. /\ f \in Frame
        /\ \/ f \in ObjectFrame /\ LastState(s) \in ObjectFrame
           \/ f \in FlowFrame /\ LastState(s) \in FlowFrame
        /\ f = "ObjectValue" \/ f \in FlowFrame \/ LastState(s) = "ObjectValue"
    BY <1>1, <1>3 DEF Toggled, Frame, ObjectFrame, FlowFrame
  <2>2. s.states # <<>> /\ LastState(s) = s.states[Len(s.states)]
    BY <1>1, <1>3 DEF LastState
  <2>3. Toggle(s) = t
    BY <1>3, <2>2 DEF Toggle
  <2>. HIDE DEF f
  <2>4. /\ Stacks(t) /\ LastState(t) = f /\ t.states # <<>>
        /\ Frames(s) /\ (f = "ObjectValue" \/ f \in FlowFrame) => Frames(t)
        /\ t = [s EXCEPT !.states = t.states]
    BY <2>1, <2>2, RetopReady
  <2>. HIDE DEF t
  <2>5. t.err = s.err /\ t.sameLine = s.sameLine
    BY <2>4 DEF Stacks, ScannerRecord
  <2>6. ASSUME Frames(s), LastState(s) = "ObjectValue" => ~s.sameLine \/ s.err PROVE Frames(t)
    BY <2>1, <2>4, <2>5, <2>6 DEF Frames
  <2>. QED
    BY <1>1, <1>3, <2>3, <2>4, <2>6 DEF f
<1>. QED
  BY <1>2, <1>3

\* pushState.  A key opens its mapping when it pushes it; no sequence is pushed on the
\* line of a key.
LEMMA PushFrames ==
  ASSUME NEW s, Stacks(s), s.hex = 0, ~s.endTop, LastState(s) # "MultiLineValue",
         NEW frame \in Frame, NEW op \in Opcode,
         frame \in BlockFrame => LastState(s) \in BlockFrame \cup {"none"},
         LastState(s) \in BlockFrame /\ frame = "ArrayValue" => IndentDiff(s) > 0,
         LastState(s) \in ObjectFrame /\ frame \in ObjectFrame => IndentDiff(s) > 0,
         LastState(s) = "ArrayValue" /\ frame \in ObjectFrame => IndentDiff(s) >= 0,
         s.sameLine /\ ~s.err =>
           frame = "ObjectValue" \/ (frame \notin BlockFrame /\ KeyOpen(s.states))
  PROVE  LET t == PushState(s, frame, op)
         IN  /\ Frames(t) /\ t.hex = 0 /\ ~t.endTop /\ LastState(t) = frame
             /\ t.step \in {s.step, "Error"} /\ (s.err => t.err)
             /\ t.sameLine = s.sameLine
<1>. DEFINE ind == IF frame = "MultiLineValue" /\ LastState(s) # "ArrayValue"
                   THEN s.idn + 1 ELSE s.idn
            st == Append(s.states, frame)
            in == Append(s.indents, ind)
            t == [s EXCEPT !.states = st, !.indents = in, !.op = op]
<1>1. /\ s \in ScannerRecord /\ s.states \in Seq(Frame) /\ s.indents \in Seq(Nat)
      /\ s.idn \in Nat /\ ind \in Nat /\ Len(s.states) \in Nat
      /\ Len(s.states) = Len(s.indents)
  BY TopOfStack DEF Stacks, ScannerRecord
<1>2. s.states # <<>> => /\ LastState(s) = s.states[Len(s.states)]
                         /\ IndentDiff(s) = s.idn - s.indents[Len(s.indents)]
  <2>1. s.states # <<>> => s.indents # <<>>
    BY <1>1
  <2>. QED
    BY <2>1, <1>1 DEF LastState, IndentDiff
<1>3. /\ st \in Seq(Frame) /\ Len(st) = Len(s.states) + 1 /\ st # <<>> /\ st[Len(st)] = frame
      /\ in \in Seq(Nat) /\ Len(in) = Len(s.indents) + 1
  <2>. HIDE DEF ind
  <2>1. s.states \in Seq(Frame) /\ s.indents \in Seq(Nat) /\ ind \in Nat
    BY <1>1
  <2>2. /\ st \in Seq(Frame) /\ Len(st) = Len(s.states) + 1 /\ st # <<>>
        /\ st[Len(s.states) + 1] = frame
    BY <2>1, AppendProperties
  <2>3. in \in Seq(Nat) /\ Len(in) = Len(s.indents) + 1
    BY <2>1, AppendProperties
  <2>. HIDE DEF st, in
  <2>. QED
    BY <2>2, <2>3
<1>4. Layered(st)
  <2>1. s.states # <<>> /\ frame \in BlockFrame => s.states[Len(s.states)] \in BlockFrame
    BY <1>2, TopOfStack
  <2>. QED
    BY <1>1, <1>2, <2>1, PushLayered DEF Stacks
<1>5. Nested(st, in)
  <2>1. frame \in BlockFrame => ind = s.idn
    BY DEF BlockFrame, ObjectFrame
  <2>2. ASSUME s.states # <<>>
        PROVE  LET top == s.states[Len(s.states)] d == ind - s.indents[Len(s.indents)]
               IN  /\ top \in BlockFrame /\ frame = "ArrayValue" => d > 0
                   /\ top \in ObjectFrame /\ frame \in ObjectFrame => d > 0
                   /\ top = "ArrayValue" /\ frame \in ObjectFrame => d >= 0
    <3>. HIDE DEF ind
    <3>. QED
      BY <1>2, <2>1, <2>2 DEF BlockFrame
  <2>. HIDE DEF ind
  <2>3. Nested(s.states, s.indents)
    BY DEF Stacks
  <2>. QED
    BY <1>1, <2>2, <2>3, PushNested
<1>6. s.sameLine /\ ~s.err => KeyOpen(st)
  BY <1>1, PushKeyOpen
<1>. HIDE DEF ind, st, in
<1>7. /\ t \in ScannerRecord
      /\ t.states = st /\ t.indents = in /\ t.endTop = s.endTop
      /\ t.hex = 0 /\ t.err = s.err /\ t.sameLine = s.sameLine /\ t.step = s.step
  BY <1>1, <1>3 DEF ScannerRecord
<1>8. PushState(s, frame, op) = IF Len(t.states) <= MaxNestingDepth THEN t ELSE Fail(t)
  BY DEF PushState, st, in, ind
<1>. HIDE DEF t
<1>9. /\ Fail(t) \in ScannerRecord
      /\ Fail(t).states = st /\ Fail(t).indents = in /\ Fail(t).endTop = s.endTop
      /\ Fail(t).hex = 0 /\ Fail(t).err /\ Fail(t).sameLine = s.sameLine
      /\ Fail(t).step = "Error"
  BY <1>7 DEF ScannerRecord, Fail, Steps, Opcode
<1>10. CASE Len(t.states) <= MaxNestingDepth
  <2>1. Frames(t)
    BY <1>1, <1>3, <1>4, <1>5, <1>6, <1>7, <1>10, MaxNestingDepthAssumption DEF Frames, Stacks
  <2>. QED
    BY <1>3, <1>7, <1>8, <1>10, <2>1 DEF LastState
<1>11. CASE ~(Len(t.states) <= MaxNestingDepth)
  <2>1. Frames(Fail(t))
    BY <1>1, <1>3, <1>4, <1>5, <1>9 DEF Frames, Stacks
  <2>. QED
    BY <1>3, <1>8, <1>9, <1>11, <2>1 DEF LastState
<1>. QED
  BY <1>10, <1>11

\* keepFrames: a prefix of the stacks
LEMMA KeepStacks ==
  ASSUME NEW s, Stacks(s), NEW n \in 0..Len(s.states)
  PROVE  LET t == KeepFrames(s, n)
         IN  /\ Stacks(t)
             /\ t.states = SubSeq(s.states, 1, n) /\ Len(t.states) = n
             /\ t.endTop <=> s.endTop \/ n = 0
             /\ t.hex = s.hex /\ t.sameLine = s.sameLine /\ t.step = s.step
             /\ s.err <=> t.err
<1>. DEFINE st == SubSeq(s.states, 1, n)
            in == SubSeq(s.indents, 1, n)
            t == [s EXCEPT !.states = st, !.indents = in, !.endTop = s.endTop \/ n = 0]
<1>1. /\ s \in ScannerRecord /\ s.states \in Seq(Frame) /\ s.indents \in Seq(Nat)
      /\ Len(s.states) \in Nat /\ Len(s.states) = Len(s.indents)
      /\ n \in Nat /\ n <= Len(s.states)
  BY TopOfStack DEF Stacks, ScannerRecord
<1>2. /\ st \in Seq(Frame) /\ Len(st) = n /\ in \in Seq(Nat) /\ Len(in) = n
  BY <1>1, PrefixOfStack
<1>3. Layered(st) /\ Nested(st, in)
  BY <1>1, KeepLayered, KeepNested DEF Stacks
<1>4. (s.endTop \/ n = 0) \in BOOLEAN
  OBVIOUS
<1>5. s.endTop \/ n = 0 => st = <<>>
  <2>1. s.endTop => n = 0
    BY <1>1 DEF Stacks
  <2>. QED
    BY <1>2, <2>1
<1>. HIDE DEF st, in
<1>6. t \in ScannerRecord
  BY <1>1, <1>2, <1>4 DEF ScannerRecord
<1>7. /\ t.states = st /\ t.indents = in /\ t.endTop = (s.endTop \/ n = 0)
      /\ t.hex = s.hex /\ t.err = s.err /\ t.sameLine = s.sameLine /\ t.step = s.step
  BY <1>1 DEF ScannerRecord
<1>8. KeepFrames(s, n) = t
  BY DEF KeepFrames, st, in
<1>. HIDE DEF t
<1>9. n > MaxNestingDepth => s.err
  BY <1>1, MaxNestingDepthAssumption DEF Stacks
<1>10. Stacks(t)
  BY <1>2, <1>3, <1>5, <1>6, <1>7, <1>9 DEF Stacks
<1>. QED
  BY <1>2, <1>7, <1>8, <1>10 DEF st

\* popState at the closing bracket
LEMMA PopSound ==
  ASSUME NEW s, Ready(s), LastState(s) \in FlowFrame, NEW op \in Opcode
  PROVE  Leads(s, PopState(s, op))
<1>. DEFINE n == Len(s.states) - 1
            k == KeepFrames(s, n)
            t == PopState(s, op)
<1>1. /\ s.states \in Seq(Frame) /\ s.states # <<>> /\ n \in 0..Len(s.states)
      /\ LastState(s) = s.states[Len(s.states)] /\ Len(s.states) \in Nat
  <2>1. LastState(s) # "none"
    BY DEF FlowFrame
  <2>. QED
    BY <2>1, TopOfStack DEF Ready, Frames
<1>2. /\ Stacks(k) /\ k.states = SubSeq(s.states, 1, n) /\ Len(k.states) = n
      /\ k.endTop <=> s.endTop \/ n = 0
      /\ k.hex = s.hex /\ k.sameLine = s.sameLine /\ k.step = s.step
      /\ s.err <=> k.err
  BY <1>1, KeepStacks DEF Ready, Frames
<1>3. s.sameLine /\ ~s.err => KeyOpen(k.states) /\ n > 0
  BY <1>1, <1>2, PopKeyOpen DEF Ready, Frames
<1>4. t = Goto(k, IF n = 0 THEN "EndTop" ELSE "EndValue", op)
  BY DEF PopState
<1>5. LastState(k) # "MultiLineValue"
  <2>1. CASE n = 0
    BY <1>2, <2>1 DEF LastState
  <2>2. CASE n > 0
    <3>1. n \in 1..Len(s.states) /\ Len(s.states) \in 1..Len(s.states) /\ n < Len(s.states)
      BY <1>1, <2>2
    <3>2. s.states[n] # "MultiLineValue"
      BY <3>1 DEF Ready, Frames, Stacks, Layered
    <3>3. k.states[Len(k.states)] = s.states[n]
      BY <1>1, <1>2, <3>1, PrefixOfStack
    <3>. QED
      BY <3>2, <3>3, <1>2 DEF LastState
  <2>3. n = 0 \/ n > 0
    <3>. HIDE DEF n
    <3>. QED
      BY <1>1
  <2>. QED
    BY <2>1, <2>2, <2>3
<1>. HIDE DEF n, k, t
<1>6. /\ t \in ScannerRecord
      /\ t.states = k.states /\ t.indents = k.indents /\ t.endTop = k.endTop
      /\ t.hex = k.hex /\ t.err = k.err /\ t.sameLine = k.sameLine
      /\ t.step = IF n = 0 THEN "EndTop" ELSE "EndValue"
  BY <1>2, <1>4 DEF Stacks, ScannerRecord, Goto, Steps
<1>7. Frames(t)
  BY <1>2, <1>3, <1>6 DEF Frames, Stacks
<1>8. Sound(t)
  <2>1. t.step = "EndTop" \/ t.step = "EndValue"
    BY <1>6
  <2>2. t.hex = 0 /\ LastState(t) # "MultiLineValue"
    BY <1>2, <1>5, <1>6 DEF Ready, LastState
  <2>3. t.endTop <=> t.step = "EndTop"
    BY <1>2, <1>6 DEF Ready
  <2>. QED
    BY <1>7, <2>1, <2>2, <2>3 DEF Sound, TopSteps
<1>. QED
  BY <1>2, <1>6, <1>8 DEF Leads, t

\* Setting the step of a scanner that is Ready
LEMMA StepReady ==
  ASSUME NEW s, Ready(s), NEW step \in Steps
  PROVE  LET t == [s EXCEPT !.step = step]
         IN  /\ Ready(t) /\ t.step = step /\ t.states = s.states /\ t.indents = s.indents
             /\ t.idn = s.idn /\ t.err = s.err /\ t.sameLine = s.sameLine
<1>. DEFINE t == [s EXCEPT !.step = step]
<1>1. t \in ScannerRecord
  BY DEF Ready, Frames, Stacks, ScannerRecord
<1>2. /\ t.states = s.states /\ t.indents = s.indents /\ t.endTop = s.endTop /\ t.idn = s.idn
      /\ t.hex = s.hex /\ t.err = s.err /\ t.sameLine = s.sameLine /\ t.step = step
  BY DEF Ready, Frames, Stacks, ScannerRecord
<1>. HIDE DEF t
<1>3. Ready(t)
  BY <1>1, <1>2 DEF Ready, Frames, Stacks, LastState
<1>. QED
  BY <1>2, <1>3 DEF t

\* A flow collection is begun.
LEMMA PushFlowSound ==
  ASSUME NEW s, Ready(s), s.step = "BeginValueOrEmpty",
         NEW frame \in {"FlowObjectKey", "FlowArrayValue"}, NEW op \in Opcode
  PROVE  Leads(s, PushState(s, frame, op))
<1>1. frame \in Frame /\ frame \notin BlockFrame /\ frame \notin ObjectFrame
  BY DEF Frame, BlockFrame, ObjectFrame, FlowFrame
<1>2. frame # "ArrayValue"
  OBVIOUS
<1>. DEFINE t == PushState(s, frame, op)
<1>3. /\ Frames(t) /\ t.hex = 0 /\ ~t.endTop /\ LastState(t) = frame
      /\ t.step \in {s.step, "Error"} /\ (s.err => t.err)
  BY <1>1, <1>2, PushFrames DEF Ready, Frames
<1>. HIDE DEF t
<1>. QED
  BY <1>3 DEF Leads, Sound, t

\* A block literal is begun.
LEMMA PushLiteralSound ==
  ASSUME NEW s, Ready(s), s.step = "BeginMultilineChomp", NEW op \in Opcode
  PROVE  Leads(s, PushState(s, "MultiLineValue", op))
<1>. DEFINE frame == "MultiLineValue"
            t == PushState(s, frame, op)
<1>1. frame \in Frame /\ frame \notin BlockFrame /\ frame \notin ObjectFrame
  BY DEF Frame, BlockFrame, ObjectFrame, FlowFrame
<1>2. /\ Frames(t) /\ t.hex = 0 /\ ~t.endTop
      /\ t.step \in {s.step, "Error"} /\ (s.err => t.err)
  BY <1>1, PushFrames DEF Ready, Frames
<1>. HIDE DEF t
<1>. QED
  BY <1>2 DEF Leads, Sound, LiteralSteps, t

\* stateEndTop
LEMMA EndTopSound ==
  ASSUME NEW s, Frames(s), s.hex = 0, s.endTop, s.step = "EndTop", NEW c
  PROVE  Leads(s, EndTop(s, c))
<1>1. LastState(s) = "none" /\ (s.sameLine => s.err)
  <2>1. ~KeyOpen(<<>>)
    BY DEF KeyOpen
  <2>. QED
    BY <2>1 DEF LastState, Frames, Stacks, ScannerRecord
<1>2. ASSUME NEW t, t \in ScannerRecord, t.states = s.states, t.indents = s.indents,
             t.endTop = s.endTop, t.hex = 0, t.err = s.err, t.sameLine = s.sameLine,
             t.step \in {"EndTop", "NewDoc1", "EndYaml1"}
      PROVE  Leads(s, t)
  BY <1>1, <1>2 DEF Leads, Sound, Frames, Stacks, LastState, TopSteps
<1>3. s \in ScannerRecord /\ s.idn \in Nat /\ s.idn + 1 \in Nat
  BY DEF Frames, Stacks, ScannerRecord
<1>4. ASSUME NEW n \in Nat PROVE Leads(s, [s EXCEPT !.idn = n, !.op = "End"])
  <2>. DEFINE t == [s EXCEPT !.idn = n, !.op = "End"]
  <2>1. t \in ScannerRecord
    BY <1>3 DEF ScannerRecord, Opcode
  <2>2. /\ t.states = s.states /\ t.indents = s.indents /\ t.endTop = s.endTop /\ t.hex = 0
        /\ t.err = s.err /\ t.sameLine = s.sameLine /\ t.step = "EndTop"
    BY <1>3 DEF ScannerRecord
  <2>. HIDE DEF t
  <2>3. Leads(s, t)
    BY <1>2, <2>1, <2>2
  <2>. QED
    BY <2>3 DEF t
<1>5. CASE c \notin Space \cup LineBreak /\ c = "-" /\ s.idn = 0
  <2>1. EndTop(s, c) = Goto(s, "NewDoc1", "Continue")
    BY <1>5 DEF EndTop, Space, LineBreak
  <2>2. Goto(s, "NewDoc1", "Continue") \in ScannerRecord
    BY DEF Frames, Stacks, ScannerRecord, Opcode, Goto, Steps
  <2>. QED
    BY <1>2, <2>1, <2>2 DEF Frames, Stacks, ScannerRecord, Goto
<1>6. CASE c \notin Space \cup LineBreak /\ c = "." /\ s.idn = 0
  <2>1. EndTop(s, c) = Goto(s, "EndYaml1", "Continue")
    BY <1>6 DEF EndTop, Space, LineBreak
  <2>2. Goto(s, "EndYaml1", "Continue") \in ScannerRecord
    BY DEF Frames, Stacks, ScannerRecord, Opcode, Goto, Steps
  <2>. QED
    BY <1>2, <2>1, <2>2 DEF Frames, Stacks, ScannerRecord, Goto
<1>7. CASE c \notin Space \cup LineBreak /\ ~(c \in {"-", "."} /\ s.idn = 0)
  <2>. DEFINE t == Stay(Fail(s), "End")
  <2>1. EndTop(s, c) = t
    BY <1>7 DEF EndTop, Space, LineBreak
  <2>2. t \in ScannerRecord
    BY DEF Frames, Stacks, ScannerRecord, Opcode, Steps, Stay, Fail
  <2>3. /\ t.states = s.states /\ t.indents = s.indents /\ t.endTop = s.endTop
        /\ t.hex = 0 /\ t.err /\ t.sameLine = s.sameLine /\ t.step = "Error"
    BY DEF Frames, Stacks, ScannerRecord, Stay, Fail
  <2>. HIDE DEF t
  <2>. QED
    BY <1>1, <2>1, <2>2, <2>3 DEF Leads, Sound, Frames, Stacks, LastState, TopSteps
<1>8. CASE c \in Space \cup LineBreak
  <2>1. \/ EndTop(s, c) = [s EXCEPT !.idn = s.idn + 1, !.op = "End"]
        \/ EndTop(s, c) = [s EXCEPT !.idn = 0, !.op = "End"]
    BY <1>8 DEF EndTop, Space, LineBreak
  <2>2. /\ Leads(s, [s EXCEPT !.idn = s.idn + 1, !.op = "End"])
        /\ Leads(s, [s EXCEPT !.idn = 0, !.op = "End"])
    BY <1>3, <1>4
  <2>. QED
    BY <2>1, <2>2
<1>. QED
  BY <1>5, <1>6, <1>7, <1>8

\* stateBeginValue
LEMMA BeginValueSound ==
  ASSUME NEW s, Frames(s), s.hex = 0, LastState(s) # "MultiLineValue", NEW c
  PROVE  Leads(s, BeginValue(s, c))
<1>1. CASE s.endTop
  <2>. DEFINE t == [s EXCEPT !.step = "EndTop"]
  <2>1. t \in ScannerRecord
    BY DEF Frames, Stacks, ScannerRecord, Steps
  <2>2. /\ t.states = s.states /\ t.indents = s.indents /\ t.endTop = s.endTop
        /\ t.hex = 0 /\ t.err = s.err /\ t.sameLine = s.sameLine /\ t.step = "EndTop"
    BY DEF Frames, Stacks, ScannerRecord
  <2>3. BeginValue(s, c) = EndTop(t, c)
    BY <1>1 DEF BeginValue
  <2>. HIDE DEF t
  <2>4. Frames(t) /\ t.endTop
    BY <1>1, <2>1, <2>2 DEF Frames, Stacks
  <2>. QED
    BY <2>2, <2>3, <2>4, EndTopSound DEF Leads
<1>2. CASE ~s.endTop
  <2>1. Ready(s)
    BY <1>2 DEF Ready
  <2>. DEFINE v == [s EXCEPT !.step = "BeginValueOrEmpty"]
              m == [s EXCEPT !.step = "BeginMultilineChomp"]
  <2>2. /\ Ready(v) /\ v.step = "BeginValueOrEmpty" /\ v.err = s.err
        /\ Ready(m) /\ m.step = "BeginMultilineChomp" /\ m.err = s.err
    <3>1. "BeginValueOrEmpty" \in Steps /\ "BeginMultilineChomp" \in Steps
      BY DEF Steps
    <3>2. Ready(v) /\ v.step = "BeginValueOrEmpty" /\ v.err = s.err
      BY <2>1, <3>1, StepReady
    <3>3. Ready(m) /\ m.step = "BeginMultilineChomp" /\ m.err = s.err
      BY <2>1, <3>1, StepReady
    <3>. QED
      BY <3>2, <3>3
  <2>. HIDE DEF v, m
  <2>3. /\ Leads(s, EndLine(s, "SkipSpace")) /\ Leads(s, Fail(s))
    BY <2>1, EndLineSound, FailSound DEF Ready, Frames, Opcode
  <2>4. /\ Leads(s, PushState(v, "FlowObjectKey", "BeginObject"))
        /\ Leads(s, PushState(v, "FlowArrayValue", "BeginArray"))
    BY <2>2, PushFlowSound DEF Leads, Opcode
  <2>5. Leads(s, PushState(m, "MultiLineValue", "BeginLiteral"))
    BY <2>2, PushLiteralSound DEF Leads, Opcode
  <2>6. \A step \in Plain, op \in Opcode : Leads(s, Goto(s, step, op))
    BY <2>1, GotoReady
  <2>7. LiteralStep(c) \in Plain /\ {"InDirective", "BeginComment"} \subseteq Plain
    BY DEF LiteralStep, Plain, Steps
  <2>8. {"Continue", "SkipSpace", "BeginLiteral"} \subseteq Opcode
    BY DEF Opcode
  <2>9. BeginValue(s, c) \in
          {EndLine(s, "SkipSpace"), Fail(s),
           PushState(v, "FlowObjectKey", "BeginObject"),
           PushState(v, "FlowArrayValue", "BeginArray"),
           PushState(m, "MultiLineValue", "BeginLiteral"),
           Goto(s, "InDirective", "Continue"), Goto(s, "BeginComment", "SkipSpace"),
           Goto(s, LiteralStep(c), "BeginLiteral")}
    BY <1>2 DEF BeginValue, v, m
  <2>. QED
    BY <2>3, <2>4, <2>5, <2>6, <2>7, <2>8, <2>9
<1>. QED
  BY <1>1, <1>2

\* The calls a scanner that is Ready may always make.
LEMMA ReadyMoves ==
  ASSUME NEW s, Ready(s)
  PROVE  /\ Leads(s, Fail(s))
         /\ \A op \in Opcode : Leads(s, EndLine(s, op))
         /\ \A step \in Plain, op \in Opcode : Leads(s, Goto(s, step, op))
         /\ s.step \in Plain => \A op \in Opcode : Leads(s, Stay(s, op))
         /\ \A c : Leads(s, BeginValue(s, c))
<1>1. Leads(s, Fail(s))
  BY FailSound DEF Ready, Frames
<1>2. \A op \in Opcode : Leads(s, EndLine(s, op))
  BY EndLineSound DEF Ready, Frames
<1>3. \A step \in Plain, op \in Opcode : Leads(s, Goto(s, step, op))
  BY GotoReady
<1>4. s.step \in Plain => \A op \in Opcode : Leads(s, Stay(s, op))
  BY StayReady
<1>5. \A c : Leads(s, BeginValue(s, c))
  BY BeginValueSound DEF Ready
<1>. QED
  BY <1>1, <1>2, <1>3, <1>4, <1>5

\* The end of a key: the opcode of a key, or the end of its line
LEMMA AfterKeySound ==
  ASSUME NEW s, Ready(s), s.step \in Plain, NEW c
  PROVE  Leads(s, AfterKey(s, c))
<1>1. "ObjectKey" \in Opcode
  BY DEF Opcode
<1>. QED
  BY <1>1, ReadyMoves DEF AfterKey

\* A mapping is opened by its first key.
LEMMA OpenObjectSound ==
  ASSUME NEW s, Ready(s), OpensObject(s), NEW c
  PROVE  LET t == [s EXCEPT !.step = "BeginValueOrEmpty", !.sameLine = TRUE]
         IN  Leads(s, AfterKey(PushState(t, "ObjectValue", "ObjectValue"), c))
<1>. DEFINE t == [s EXCEPT !.step = "BeginValueOrEmpty", !.sameLine = TRUE]
            u == PushState(t, "ObjectValue", "ObjectValue")
<1>1. t \in ScannerRecord
  BY DEF Ready, Frames, Stacks, ScannerRecord, Steps
<1>2. /\ t.states = s.states /\ t.indents = s.indents /\ t.endTop = s.endTop
      /\ t.idn = s.idn /\ t.hex = s.hex /\ t.err = s.err /\ t.sameLine = TRUE
      /\ t.step = "BeginValueOrEmpty"
  BY DEF Ready, Frames, Stacks, ScannerRecord
<1>. HIDE DEF t
<1>3. /\ Stacks(t) /\ t.hex = 0 /\ ~t.endTop
      /\ LastState(t) = LastState(s) /\ IndentDiff(t) = IndentDiff(s)
  BY <1>1, <1>2 DEF Ready, Frames, Stacks, LastState, IndentDiff
<1>4. /\ LastState(s) \in {"none", "ObjectValue", "ArrayValue"}
      /\ LastState(s) = "ObjectValue" => IndentDiff(s) > 0
      /\ LastState(s) = "ArrayValue" => IndentDiff(s) >= 0
  BY DEF OpensObject, LastState
<1>5. {"ObjectValue", "ArrayValue"} \subseteq Frame /\ "ObjectValue" \in Opcode
  BY DEF Frame, ObjectFrame, Opcode
<1>6. /\ LastState(t) # "MultiLineValue"
      /\ LastState(t) \in BlockFrame \cup {"none"}
      /\ LastState(t) \in ObjectFrame => IndentDiff(t) > 0
      /\ LastState(t) = "ArrayValue" => IndentDiff(t) >= 0
  BY <1>3, <1>4 DEF BlockFrame, ObjectFrame
<1>7. /\ Frames(u) /\ u.hex = 0 /\ ~u.endTop /\ LastState(u) = "ObjectValue"
      /\ u.step \in {t.step, "Error"} /\ (t.err => u.err)
  BY <1>3, <1>5, <1>6, PushFrames
<1>. HIDE DEF u
<1>8. Ready(u) /\ u.step \in Plain
  BY <1>2, <1>7 DEF Ready, Plain, Steps
<1>9. Leads(s, AfterKey(u, c))
  BY <1>2, <1>7, <1>8, AfterKeySound DEF Leads
<1>. QED
  BY <1>9 DEF u, t

\* pushObjectState
LEMMA PushObjectStateSound ==
  ASSUME NEW s, Ready(s), NEW c
  PROVE  Leads(s, PushObjectState(s, c))
<1>. DEFINE t == [s EXCEPT !.step = "BeginValueOrEmpty"]
            u == Toggle(t)
<1>1. "BeginValueOrEmpty" \in Plain /\ {"BeginObject", "BeginArray"} \subseteq Opcode
  BY DEF Plain, Steps, Opcode
<1>2. /\ Ready(t) /\ t.step = "BeginValueOrEmpty" /\ t.states = s.states
      /\ t.err = s.err /\ t.sameLine = s.sameLine
  BY <1>1, StepReady DEF Plain
<1>3. CASE OpensObject(s)
  <2>1. PushObjectState(s, c) =
          AfterKey(PushState([t EXCEPT !.sameLine = TRUE], "ObjectValue", "ObjectValue"), c)
    BY <1>3 DEF PushObjectState
  <2>. QED
    BY <1>3, <2>1, OpenObjectSound
<1>4. CASE ~OpensObject(s) /\ LastState(s) = "ObjectValue" /\ s.sameLine
  <2>1. PushObjectState(s, c) = Fail(t)
    BY <1>4 DEF PushObjectState
  <2>. HIDE DEF t
  <2>. QED
    BY <1>2, <2>1, ReadyMoves DEF Leads
<1>5. CASE ~OpensObject(s) /\ ~(LastState(s) = "ObjectValue" /\ s.sameLine)
  <2>1. PushObjectState(s, c) \in
          {PushState(u, "FlowObjectKey", "BeginObject"),
           PushState(u, "FlowArrayValue", "BeginArray"), AfterKey(u, c)}
    BY <1>5 DEF PushObjectState
  <2>. HIDE DEF t
  <2>2. LastState(t) = "ObjectValue" => ~t.sameLine
    BY <1>2, <1>5 DEF LastState
  <2>3. /\ Frames(u) /\ u = [t EXCEPT !.states = u.states]
        /\ LastState(u) # "MultiLineValue"
    BY <1>2, <2>2, ToggleReady DEF Ready, Frames, Toggled
  <2>. HIDE DEF u
  <2>4. u.hex = t.hex /\ u.endTop = t.endTop /\ u.step = t.step /\ u.err = t.err
    BY <1>2, <2>3 DEF Ready, Frames, Stacks, ScannerRecord
  <2>5. Ready(u)
    BY <1>2, <2>3, <2>4 DEF Ready
  <2>6. /\ Leads(u, PushState(u, "FlowObjectKey", "BeginObject"))
        /\ Leads(u, PushState(u, "FlowArrayValue", "BeginArray"))
        /\ Leads(u, AfterKey(u, c))
    BY <1>1, <1>2, <2>4, <2>5, PushFlowSound, AfterKeySound
  <2>. QED
    BY <1>2, <2>1, <2>4, <2>6 DEF Leads
<1>. QED
  BY <1>3, <1>4, <1>5

\* pushArrayState
LEMMA PushArrayStateSound ==
  ASSUME NEW s, Ready(s)
  PROVE  Leads(s, PushArrayState(s))
<1>. DEFINE t == [s EXCEPT !.idn = @ + 2]
            u == PushState(t, "ArrayValue", "ArrayValue")
<1>1. s.idn \in Nat /\ s.idn + 2 \in Nat
  BY DEF Ready, Frames, Stacks, ScannerRecord
<1>2. t \in ScannerRecord
  BY <1>1 DEF Ready, Frames, Stacks, ScannerRecord
<1>3. /\ t.states = s.states /\ t.indents = s.indents /\ t.endTop = s.endTop
      /\ t.hex = s.hex /\ t.err = s.err /\ t.sameLine = s.sameLine
  BY DEF Ready, Frames, Stacks, ScannerRecord
<1>4. Ready(t) /\ LastState(t) = LastState(s)
  <2>. HIDE DEF t
  <2>. QED
    BY <1>2, <1>3 DEF Ready, Frames, Stacks, LastState
<1>5. /\ "BeginValueOrEmpty" \in Plain /\ {"SkipSpace", "ArrayValue"} \subseteq Opcode
      /\ "ArrayValue" \in Frame
  BY DEF Plain, Steps, Opcode, Frame
<1>6. /\ Leads(s, Fail(s)) /\ Leads(s, Fail(t))
      /\ Leads(s, Goto(t, "BeginValueOrEmpty", "SkipSpace"))
  <2>1. Leads(s, Fail(s))
    BY ReadyMoves
  <2>2. Leads(t, Fail(t)) /\ Leads(t, Goto(t, "BeginValueOrEmpty", "SkipSpace"))
    <3>. HIDE DEF t
    <3>. QED
      BY <1>4, <1>5, ReadyMoves
  <2>. HIDE DEF t
  <2>. QED
    BY <1>3, <2>1, <2>2 DEF Leads
<1>7. CASE /\ ~s.sameLine
           /\ \/ s.states = <<>>
              \/ LastState(s) \in {"ArrayValue", "ObjectValue"} /\ IndentDiff(t) > 0
  <2>. HIDE DEF t
  <2>1. /\ LastState(t) \in BlockFrame \cup {"none"}
        /\ LastState(t) \in BlockFrame => IndentDiff(t) > 0
        /\ "ArrayValue" \notin ObjectFrame
    BY <1>4, <1>7 DEF LastState, BlockFrame, ObjectFrame
  <2>2. /\ Frames(u) /\ u.hex = 0 /\ ~u.endTop /\ LastState(u) = "ArrayValue"
        /\ (t.err => u.err)
    BY <1>3, <1>4, <1>5, <1>7, <2>1, PushFrames DEF Ready, Frames
  <2>. HIDE DEF u
  <2>3. Ready(u)
    BY <2>2 DEF Ready
  <2>4. Leads(s, Goto(u, "BeginValueOrEmpty", "SkipSpace"))
    BY <1>3, <1>5, <2>2, <2>3, ReadyMoves DEF Leads
  <2>5. PushArrayState(s) = Goto(u, "BeginValueOrEmpty", "SkipSpace")
    BY <1>7 DEF PushArrayState, u, t
  <2>. QED
    BY <2>4, <2>5
<1>8. CASE ~ (/\ ~s.sameLine
              /\ \/ s.states = <<>>
                 \/ LastState(s) \in {"ArrayValue", "ObjectValue"} /\ IndentDiff(t) > 0)
  <2>1. PushArrayState(s) \in
          {Fail(s), Fail(t), Goto(t, "BeginValueOrEmpty", "SkipSpace")}
    BY <1>8 DEF PushArrayState
  <2>. HIDE DEF t
  <2>. QED
    BY <1>6, <2>1
<1>. QED
  BY <1>7, <1>8

\* stateEndValue, inside a collection
LEMMA EndValueInSound ==
  ASSUME NEW s, Ready(s), NEW c
  PROVE  Leads(s, EndValueIn(s, c))
<1>. DEFINE u == Toggle(s)
<1>1. /\ {"ObjectKey", "ObjectValue", "ArrayValue", "SkipSpace", "EndObject", "EndArray"}
            \subseteq Opcode
      /\ "BeginValueOrEmpty" \in Plain
  BY DEF Opcode, Plain, Steps
<1>2. /\ Stacks(u) /\ u = [s EXCEPT !.states = u.states]
      /\ LastState(s) # "ObjectValue" => Frames(u)
      /\ LastState(u) # "MultiLineValue"
  BY ToggleReady DEF Ready, Frames, Toggled
<1>. HIDE DEF u
<1>3. u.hex = 0 /\ ~u.endTop /\ u.err = s.err
  BY <1>2 DEF Ready, Frames, Stacks, ScannerRecord
<1>4. LastState(s) # "ObjectValue" => Ready(u)
  BY <1>2, <1>3 DEF Ready
<1>5. \A op \in Opcode : Leads(s, EndLine(u, op))
  BY <1>2, <1>3, EndLineSound DEF Leads
<1>6. LastState(s) # "ObjectValue" =>
        /\ \A op \in Opcode : Leads(s, Goto(u, "BeginValueOrEmpty", op))
        /\ Leads(s, BeginValue(u, c))
  BY <1>1, <1>3, <1>4, ReadyMoves DEF Leads
<1>7. LastState(s) \in FlowFrame => \A op \in Opcode : Leads(s, PopState(s, op))
  BY PopSound
<1>8. {"FlowObjectKey", "FlowObjectValue", "FlowArrayValue"} \subseteq FlowFrame
  BY DEF FlowFrame
<1>9. /\ Leads(s, Fail(s)) /\ \A op \in Opcode : Leads(s, EndLine(s, op))
      /\ \A op \in Opcode : Leads(s, Goto(s, "BeginValueOrEmpty", op))
  BY <1>1, ReadyMoves
<1>10. \/ EndValueIn(s, c) \in {EndLine(u, "ObjectKey"), EndLine(u, "ObjectValue")}
       \/ /\ LastState(s) # "ObjectValue"
          /\ EndValueIn(s, c) \in {Goto(u, "BeginValueOrEmpty", "ObjectKey"),
                                   Goto(u, "BeginValueOrEmpty", "ObjectValue"),
                                   BeginValue(u, c)}
       \/ /\ LastState(s) \in {"FlowObjectValue", "FlowArrayValue"}
          /\ EndValueIn(s, c) \in {PopState(s, "EndObject"), PopState(s, "EndArray")}
       \/ EndValueIn(s, c) \in {EndLine(s, "ArrayValue"), EndLine(s, "SkipSpace"), Fail(s),
                                Goto(s, "BeginValueOrEmpty", "ArrayValue")}
  BY DEF EndValueIn, u, White, LineBreak, Space
<1>. QED
  BY <1>1, <1>5, <1>6, <1>7, <1>8, <1>9, <1>10

\* stateEndValue
LEMMA EndValueSound ==
  ASSUME NEW s, Ready(s), NEW c
  PROVE  Leads(s, EndValue(s, c))
<1>1. {"EndValue", "BeginComment"} \subseteq Plain /\ "SkipSpace" \in Opcode
  BY DEF Plain, Steps, Opcode
<1>2. CASE c \in Space \cup {"#"}
  <2>1. EndValue(s, c) \in {Goto(s, "EndValue", "SkipSpace"), Goto(s, "BeginComment", "SkipSpace")}
    BY <1>2 DEF EndValue, Space
  <2>. QED
    BY <1>1, <2>1, ReadyMoves
<1>3. CASE c = ":"
  <2>1. EndValue(s, c) = PushObjectState(s, c)
    BY <1>3 DEF EndValue, Space
  <2>. QED
    BY <2>1, PushObjectStateSound
<1>4. CASE c \notin Space \cup {"#", ":"} /\ s.states = <<>>
  <2>. DEFINE t == [s EXCEPT !.step = "EndTop", !.endTop = TRUE]
  <2>1. EndValue(s, c) = EndTop(t, c)
    BY <1>4 DEF EndValue
  <2>2. t \in ScannerRecord
    BY DEF Ready, Frames, Stacks, ScannerRecord, Steps
  <2>3. /\ t.states = s.states /\ t.indents = s.indents /\ t.hex = 0 /\ t.step = "EndTop"
        /\ t.err = s.err /\ t.sameLine = s.sameLine /\ t.endTop
    BY DEF Ready, Frames, Stacks, ScannerRecord
  <2>. HIDE DEF t
  <2>4. Frames(t)
    BY <1>4, <2>2, <2>3 DEF Ready, Frames, Stacks
  <2>. QED
    BY <1>4, <2>1, <2>3, <2>4, EndTopSound DEF Leads
<1>5. CASE c \notin Space \cup {"#", ":"} /\ s.states # <<>>
  <2>1. EndValue(s, c) = EndValueIn(s, c)
    BY <1>5 DEF EndValue
  <2>. QED
    BY <2>1, EndValueInSound
<1>. QED
  BY <1>2, <1>3, <1>4, <1>5

\* stateBeginValueOrEmpty
LEMMA BeginValueOrEmptySound ==
  ASSUME NEW s, Ready(s), s.step = "BeginValueOrEmpty", NEW c
  PROVE  Leads(s, BeginValueOrEmpty(s, c))
<1>1. s.step \in Plain /\ "SkipSpace" \in Opcode
  BY DEF Plain, Steps, Opcode
<1>2. CASE c = "}" /\ LastState(s) \in {"FlowObjectKey", "FlowObjectValue"}
  <2>. DEFINE t == [s EXCEPT !.states[Len(s.states)] = "FlowObjectValue"]
  <2>1. /\ LastState(s) \in FlowFrame /\ "FlowObjectValue" \in FlowFrame
        /\ "FlowObjectValue" \in Frame /\ s.states # <<>>
    BY <1>2 DEF FlowFrame, Frame, LastState
  <2>2. /\ Stacks(t) /\ LastState(t) = "FlowObjectValue" /\ Frames(t)
        /\ t = [s EXCEPT !.states = t.states]
    BY <2>1, RetopReady DEF Ready, Frames
  <2>3. BeginValueOrEmpty(s, c) = EndValue(t, c)
    BY <1>2 DEF BeginValueOrEmpty, Space, LineBreak
  <2>. HIDE DEF t
  <2>4. t.hex = 0 /\ ~t.endTop /\ t.err = s.err
    BY <2>2 DEF Ready, Frames, Stacks, ScannerRecord
  <2>5. Ready(t)
    BY <2>2, <2>4 DEF Ready
  <2>. QED
    BY <2>3, <2>4, <2>5, EndValueSound DEF Leads
<1>3. CASE ~(c = "}" /\ LastState(s) \in {"FlowObjectKey", "FlowObjectValue"})
  <2>1. BeginValueOrEmpty(s, c) \in
          {Stay(s, "SkipSpace"), EndLine(s, "SkipSpace"), EndValue(s, c), Fail(s),
           BeginValue(s, c)}
    BY <1>3 DEF BeginValueOrEmpty, Space, LineBreak
  <2>. QED
    BY <1>1, <2>1, ReadyMoves, EndValueSound
<1>. QED
  BY <1>2, <1>3

-----------------------------------------------------------------------------
(***************************************************************************)
(* A new line.                                                             *)
(***************************************************************************)
\* stateBeginLine stops popping: there is a first frame from the top that keeps the
\* line, or the stack is emptied.
LEMMA FramesKeptExists ==
  ASSUME NEW s, Stacks(s), NEW c
  PROVE  LET n == FramesKept(s, c)
         IN  /\ n \in 0..Len(s.states)
             /\ \A i \in (n + 1)..Len(s.states) : LeavesFrame(s, i, c)
             /\ n > 0 => ~LeavesFrame(s, n, c)
<1>. DEFINE len == Len(s.states)
            T == {n \in 0..len : n > 0 => ~LeavesFrame(s, n, c)}
            P(n) == /\ \A i \in (n + 1)..len : LeavesFrame(s, i, c)
                    /\ n > 0 => ~LeavesFrame(s, n, c)
<1>1. len \in Nat
  BY TopOfStack
<1>. HIDE DEF len
<1>2. 0 \in T /\ T \subseteq 0..len
  BY <1>1
<1>3. PICK m \in T : \A n \in T : n <= m
  <2>. HIDE DEF T
  <2>. QED
    BY <1>1, <1>2, GreatestNatural
<1>4. m \in 0..len /\ P(m)
  <2>1. ASSUME NEW i \in (m + 1)..len PROVE LeavesFrame(s, i, c)
    <3>1. i \in 0..len /\ i > m /\ i > 0
      BY <1>1, <1>2
    <3>2. i \notin T
      BY <1>3, <3>1
    <3>. QED
      BY <3>1, <3>2
  <2>. QED
    BY <2>1
<1>5. FramesKept(s, c) = CHOOSE n \in 0..len : P(n)
  BY DEF FramesKept, len
<1>6. FramesKept(s, c) \in 0..len /\ P(FramesKept(s, c))
  <2>. HIDE DEF P
  <2>. QED
    BY <1>4, <1>5
<1>. QED
  BY <1>6 DEF len

\* The line leaves its frames; a block literal on top is left with the first.
LEMMA UnwindFrames ==
  ASSUME NEW s, Sound(s), s.step = "BeginLine", NEW c
  PROVE  LET u == Unwind(s, c)
         IN  /\ Frames(u) /\ u.hex = 0 /\ u.step = "BeginLine"
             /\ s.err <=> u.err
             /\ u.sameLine => u.err
<1>. DEFINE n == FramesKept(s, c)
            k == KeepFrames(s, n)
<1>1. n \in 0..Len(s.states)
  BY FramesKeptExists DEF Sound, Frames
<1>. HIDE DEF n
<1>2. /\ s \in ScannerRecord /\ s.hex = 0 /\ Frames(s) /\ Stacks(s) /\ (s.sameLine => s.err)
  BY DEF Sound, Frames, Stacks, ScannerRecord
<1>3. CASE n = Len(s.states)
  BY <1>2, <1>3 DEF Unwind, n
<1>4. CASE n # Len(s.states)
  <2>1. /\ Stacks(k) /\ k.hex = 0 /\ k.sameLine = s.sameLine /\ k.step = "BeginLine"
        /\ s.err <=> k.err
    BY <1>1, <1>2, KeepStacks
  <2>2. Unwind(s, c) = Toggle(k)
    BY <1>4 DEF Unwind, n
  <2>. HIDE DEF k
  <2>3. Frames(k)
    BY <1>2, <2>1 DEF Frames
  <2>4. k.sameLine => k.err
    BY <1>2, <2>1
  <2>5. Frames(Toggle(k)) /\ Toggle(k) = [k EXCEPT !.states = Toggle(k).states]
    BY <2>1, <2>3, <2>4, ToggleReady
  <2>6. /\ Toggle(k).hex = k.hex /\ Toggle(k).step = k.step
        /\ Toggle(k).err = k.err /\ Toggle(k).sameLine = k.sameLine
    BY <2>1, <2>5 DEF Stacks, ScannerRecord
  <2>. QED
    BY <2>1, <2>2, <2>4, <2>5, <2>6
<1>. QED
  BY <1>3, <1>4

\* A sound scanner goes on in another state, which must be one of the literal while a
\* block literal is on top, and one of the end when the value is complete ...
LEMMA GotoSound ==
  ASSUME NEW s, Frames(s), s.hex = 0, NEW step \in Plain, NEW op \in Opcode,
         s.endTop => step \in TopSteps,
         LastState(s) = "MultiLineValue" => step \in LiteralSteps
  PROVE  Leads(s, Goto(s, step, op))
<1>. DEFINE t == Goto(s, step, op)
<1>1. t \in ScannerRecord
  BY DEF Frames, Stacks, Goto, ScannerRecord, Plain
<1>2. /\ t.states = s.states /\ t.indents = s.indents /\ t.endTop = s.endTop
      /\ t.hex = s.hex /\ t.err = s.err /\ t.sameLine = s.sameLine /\ t.step = step
  BY DEF Frames, Stacks, Goto, ScannerRecord
<1>. HIDE DEF t
<1>3. Frames(t) /\ LastState(t) = LastState(s)
  BY <1>1, <1>2 DEF Frames, Stacks, LastState
<1>. QED
  BY <1>2, <1>3 DEF Leads, Sound, Plain, t

\* ... or in the same, at another indent or with another opcode.
LEMMA StaySound ==
  ASSUME NEW s, Sound(s), NEW op \in Opcode
  PROVE  /\ Leads(s, Stay(s, op))
         /\ \A n \in Nat : Leads(s, [s EXCEPT !.idn = n, !.op = op])
<1>1. ASSUME NEW t, t \in ScannerRecord, t.states = s.states, t.indents = s.indents,
             t.endTop = s.endTop, t.hex = s.hex, t.err = s.err, t.sameLine = s.sameLine,
             t.step = s.step
      PROVE  Leads(s, t)
  BY <1>1 DEF Leads, Sound, Frames, Stacks, LastState
<1>2. s \in ScannerRecord
  BY DEF Sound, Frames, Stacks
<1>3. Leads(s, Stay(s, op))
  <2>. DEFINE t == Stay(s, op)
  <2>1. /\ t \in ScannerRecord /\ t.states = s.states /\ t.indents = s.indents
        /\ t.endTop = s.endTop /\ t.hex = s.hex /\ t.err = s.err
        /\ t.sameLine = s.sameLine /\ t.step = s.step
    BY <1>2 DEF ScannerRecord, Stay
  <2>. HIDE DEF t
  <2>2. Leads(s, t)
    BY <1>1, <2>1
  <2>. QED
    BY <2>2 DEF t
<1>4. ASSUME NEW n \in Nat PROVE Leads(s, [s EXCEPT !.idn = n, !.op = op])
  <2>. DEFINE t == [s EXCEPT !.idn = n, !.op = op]
  <2>1. /\ t \in ScannerRecord /\ t.states = s.states /\ t.indents = s.indents
        /\ t.endTop = s.endTop /\ t.hex = s.hex /\ t.err = s.err
        /\ t.sameLine = s.sameLine /\ t.step = s.step
    BY <1>2 DEF ScannerRecord
  <2>. HIDE DEF t
  <2>2. Leads(s, t)
    BY <1>1, <2>1
  <2>. QED
    BY <2>2 DEF t
<1>. QED
  BY <1>3, <1>4

\* The byte that begins a line, after the frames it leaves
LEMMA BeginLineInSound ==
  ASSUME NEW s, Frames(s), s.hex = 0, s.sameLine => s.err, NEW c
  PROVE  Leads(s, BeginLineIn(s, c))
<1>. DEFINE u == Toggle(s)
<1>1. /\ {"BeginArrayValueS", "EndYaml1", "InMultiline"} \subseteq Plain
      /\ {"BeginLiteral", "SkipSpace", "Continue"} \subseteq Opcode
      /\ "InMultiline" \in LiteralSteps
  BY DEF Plain, Steps, Opcode, LiteralSteps
<1>2. LastState(s) # "none" => ~s.endTop
  BY DEF Frames, Stacks, LastState
<1>3. Leads(s, Fail(s))
  BY FailSound DEF Frames
<1>4. LastState(s) # "MultiLineValue" => Leads(s, BeginValue(s, c))
  BY BeginValueSound
<1>5. LastState(s) # "MultiLineValue" => Leads(s, BeginValue(u, c))
  <2>1. /\ Frames(u) /\ u = [s EXCEPT !.states = u.states]
        /\ LastState(s) # "MultiLineValue" => LastState(u) # "MultiLineValue"
    BY ToggleReady DEF Frames, Toggled
  <2>. HIDE DEF u
  <2>2. u.hex = 0 /\ u.err = s.err
    BY <2>1 DEF Frames, Stacks, ScannerRecord
  <2>. QED
    BY <2>1, <2>2, BeginValueSound DEF Leads
<1>6. LastState(s) \in {"ObjectValue", "ArrayValue"} =>
        \A step \in {"BeginArrayValueS", "EndYaml1"}, op \in Opcode : Leads(s, Goto(s, step, op))
  BY <1>1, <1>2, GotoReady DEF Ready
<1>7. LastState(s) = "MultiLineValue" => Leads(s, Goto(s, "InMultiline", "Continue"))
  BY <1>1, <1>2, GotoSound
<1>. HIDE DEF u
<1>8. \/ BeginLineIn(s, c) = Fail(s)
      \/ /\ LastState(s) \in {"ObjectValue", "ArrayValue"}
         /\ BeginLineIn(s, c) \in {Goto(s, "BeginArrayValueS", "BeginLiteral"),
                                   Goto(s, "BeginArrayValueS", "SkipSpace"),
                                   Goto(s, "EndYaml1", "Continue")}
      \/ /\ LastState(s) = "MultiLineValue"
         /\ BeginLineIn(s, c) = Goto(s, "InMultiline", "Continue")
      \/ /\ LastState(s) # "MultiLineValue"
         /\ BeginLineIn(s, c) \in {BeginValue(s, c), BeginValue(u, c)}
  BY DEF BeginLineIn, u
<1>. QED
  BY <1>1, <1>3, <1>4, <1>5, <1>6, <1>7, <1>8

\* stateBeginLine
LEMMA BeginLineSound ==
  ASSUME NEW s, Sound(s), s.step = "BeginLine", NEW c
  PROVE  Leads(s, BeginLine(s, c))
<1>. DEFINE u == Unwind(s, c)
<1>1. s.idn \in Nat /\ s.idn + 1 \in Nat /\ 0 \in Nat /\ s.hex = 0 /\ Frames(s)
  BY DEF Sound, Frames, Stacks, ScannerRecord
<1>2. "SkipSpace" \in Opcode /\ "BeginComment" \in Plain \cap TopSteps \cap LiteralSteps
  BY DEF Opcode, Plain, Steps, TopSteps, LiteralSteps
<1>3. /\ Leads(s, [s EXCEPT !.idn = 0, !.op = "SkipSpace"])
      /\ Leads(s, [s EXCEPT !.idn = s.idn + 1, !.op = "SkipSpace"])
  BY <1>1, <1>2, StaySound
<1>4. Leads(s, Goto(s, "BeginComment", "SkipSpace"))
  BY <1>1, <1>2, GotoSound
<1>5. /\ Frames(u) /\ u.hex = 0 /\ (s.err <=> u.err) /\ (u.sameLine => u.err)
  BY UnwindFrames
<1>. HIDE DEF u
<1>6. Leads(s, Fail(u)) /\ Leads(s, BeginLineIn(u, c))
  BY <1>5, FailSound, BeginLineInSound DEF Leads, Frames
<1>7. BeginLine(s, c) \in
        {[s EXCEPT !.idn = 0, !.op = "SkipSpace"], [s EXCEPT !.idn = s.idn + 1, !.op = "SkipSpace"],
         Goto(s, "BeginComment", "SkipSpace"), Fail(u), BeginLineIn(u, c)}
  BY DEF BeginLine, u, LineBreak, Space
<1>. QED
  BY <1>3, <1>4, <1>6, <1>7

-----------------------------------------------------------------------------
(***************************************************************************)
(* Comments, block literals and scalars.                                   *)
(***************************************************************************)
\* The state functions that run while a block literal is on top of the stack
LEMMA LiteralSound ==
  ASSUME NEW s, Sound(s), NEW c,
         s.step \in {"BeginComment", "EmptyLine", "BeginMultiline", "BeginMultilineChomp",
                     "InMultiline"}
  PROVE  Leads(s, Step(s, c))
<1>1. /\ Frames(s) /\ Stacks(s) /\ s.hex = 0
      /\ s.step # "BeginComment" => ~s.endTop
  BY DEF Sound, Frames, Stacks, ScannerRecord, TopSteps
<1>2. /\ {"SkipSpace", "Continue"} \subseteq Opcode
      /\ {"BeginComment", "EmptyLine", "BeginMultiline"} \subseteq Plain \cap LiteralSteps
      /\ "BeginComment" \in TopSteps
  BY DEF Opcode, Plain, Steps, LiteralSteps, TopSteps
<1>3. /\ \A op \in Opcode : Leads(s, Stay(s, op)) /\ Leads(s, EndLine(s, op))
      /\ Leads(s, Fail(s))
  BY <1>1, StaySound, EndLineSound, FailSound
<1>4. /\ s.step # "BeginComment" =>
           \A step \in {"EmptyLine", "BeginMultiline"} : Leads(s, Goto(s, step, "Continue"))
      /\ Leads(s, Goto(s, "BeginComment", "SkipSpace"))
  BY <1>1, <1>2, GotoSound
<1>5. CASE s.step = "BeginComment"
  <2>1. Step(s, c) \in {EndLine(s, "SkipSpace"), Stay(s, "SkipSpace")}
    BY <1>5 DEF Step, BeginComment
  <2>. QED
    BY <1>2, <1>3, <2>1
<1>6. CASE s.step = "EmptyLine"
  <2>1. Step(s, c) \in {Stay(s, "Continue"), EndLine(s, "Continue"),
                        Goto(s, "BeginComment", "SkipSpace"), Fail(s)}
    BY <1>6 DEF Step, EmptyLine, Space, LineBreak
  <2>. QED
    BY <1>2, <1>3, <1>4, <2>1
<1>7. CASE s.step \in {"BeginMultiline", "BeginMultilineChomp"}
  <2>1. Step(s, c) \in {Goto(s, "EmptyLine", "Continue"), EndLine(s, "Continue"),
                        Goto(s, "BeginMultiline", "Continue"), Fail(s)}
    BY <1>7 DEF Step, BeginMultilineChomp, BeginMultiline, Space, LineBreak
  <2>. QED
    BY <1>2, <1>3, <1>4, <1>7, <2>1
<1>8. CASE s.step = "InMultiline"
  <2>1. Step(s, c) \in {EndLine(s, "SkipSpace"), Stay(s, "Continue")}
    BY <1>8 DEF Step, InMultiline
  <2>. QED
    BY <1>2, <1>3, <2>1
<1>. QED
  BY <1>5, <1>6, <1>7, <1>8

\* stateInStringUnq, which other states call on the byte they have not expected
LEMMA InStringUnqSound ==
  ASSUME NEW s, Ready(s), s.step \in Plain, NEW c
  PROVE  Leads(s, InStringUnq(s, c))
<1>1. "Continue" \in Opcode /\ {"KeyOrUnq", "InStringUnqOrComment"} \subseteq Plain
  BY DEF Opcode, Plain, Steps
<1>2. InStringUnq(s, c) \in
        {EndValue(s, c), Goto(s, "KeyOrUnq", "Continue"),
         Goto(s, "InStringUnqOrComment", "Continue"), Fail(s), Stay(s, "Continue")}
  BY DEF InStringUnq, IsUnqDelim, Space, LineBreak
<1>. QED
  BY <1>1, <1>2, ReadyMoves, EndValueSound

\* The state functions of plain scalars, and of what begins like one
LEMMA PlainSound ==
  ASSUME NEW s, Ready(s), NEW c,
         s.step \in {"InStringUnq", "InStringUnqOrComment", "KeyOrUnq", "BeginMerge", "Merge1",
                     "Hyphen", "BeginArrayValueS", "DotBegin"}
  PROVE  Leads(s, Step(s, c))
<1>. DEFINE t == [s EXCEPT !.step = "InStringUnq"]
<1>1. s.step \in Plain /\ {"Continue", "SkipSpace"} \subseteq Opcode
  BY DEF Plain, Steps, Opcode
<1>2. {"BeginComment", "Merge1", "InStringUnq", "NewDoc2", "EndYaml2"} \subseteq Plain
  BY DEF Plain, Steps
<1>3. Ready(t) /\ t.step = "InStringUnq" /\ t.err = s.err
  <2>1. "InStringUnq" \in Steps
    BY DEF Steps
  <2>. QED
    BY <2>1, StepReady
<1>. HIDE DEF t
<1>4. Leads(s, InStringUnq(t, c))
  BY <1>2, <1>3, InStringUnqSound DEF Leads
<1>5. CASE s.step \in {"InStringUnq", "DotBegin"}
  <2>1. Step(s, c) \in {InStringUnq(s, c), Goto(s, "EndYaml2", "Continue")}
    BY <1>5 DEF Step, DotBegin
  <2>. QED
    BY <1>1, <1>2, <2>1, InStringUnqSound, ReadyMoves
<1>6. CASE s.step = "InStringUnqOrComment"
  <2>1. Step(s, c) \in {Stay(s, "Continue"), Goto(s, "BeginComment", "SkipSpace"),
                        InStringUnq(t, c)}
    BY <1>6 DEF Step, InStringUnqOrComment, Space, t
  <2>. QED
    BY <1>1, <1>2, <1>4, <2>1, ReadyMoves
<1>7. CASE s.step = "KeyOrUnq"
  <2>1. Step(s, c) \in {PushObjectState(s, c), InStringUnq(t, c)}
    BY <1>7 DEF Step, KeyOrUnq, t
  <2>. QED
    BY <1>4, <2>1, PushObjectStateSound
<1>8. CASE s.step \in {"BeginMerge", "Merge1"}
  <2>1. Step(s, c) \in {Goto(s, "Merge1", "Continue"), Goto(s, "InStringUnq", "Continue"), Fail(s)}
    BY <1>8 DEF Step, BeginMerge
  <2>. QED
    BY <1>1, <1>2, <2>1, ReadyMoves
<1>9. CASE s.step = "Hyphen"
  <2>1. Step(s, c) \in {PushArrayState(s), Goto(s, "NewDoc2", "Continue"), EndValue(s, c),
                        Goto(s, "InStringUnq", "Continue")}
    BY <1>9 DEF Step, Hyphen, Space, LineBreak
  <2>. QED
    BY <1>1, <1>2, <2>1, ReadyMoves, PushArrayStateSound, EndValueSound
<1>10. CASE s.step = "BeginArrayValueS"
  <2>1. Step(s, c) \in {PushArrayState(s), Goto(s, "NewDoc2", "Continue"), Fail(s)}
    BY <1>10 DEF Step, BeginArrayValueS, Space
  <2>. QED
    BY <1>1, <1>2, <2>1, ReadyMoves, PushArrayStateSound
<1>. QED
  BY <1>5, <1>6, <1>7, <1>8, <1>9, <1>10

\* Anchors, aliases and type tags
LEMMA MarkSound ==
  ASSUME NEW s, Ready(s), NEW c,
         s.step \in {"BeginAnchor", "InAnchor", "BeginAlias", "InAlias", "ExplicitType1",
                     "ExplicitType2"}
  PROVE  Leads(s, Step(s, c))
<1>1. s.step \in Plain /\ {"Continue", "SkipSpace"} \subseteq Opcode
  BY DEF Plain, Steps, Opcode
<1>2. {"InAnchor", "BeginValueOrEmpty", "InAlias", "EndValue", "ExplicitType2"} \subseteq Plain
  BY DEF Plain, Steps
<1>3. CASE s.step \in {"BeginAnchor", "BeginAlias", "ExplicitType1"}
  <2>1. Step(s, c) \in {Goto(s, "InAnchor", "Continue"), Goto(s, "InAlias", "Continue"),
                        Goto(s, "ExplicitType2", "Continue"), Fail(s)}
    BY <1>3 DEF Step, BeginAnchor, BeginAlias, ExplicitType1
  <2>. QED
    BY <1>1, <1>2, <2>1, ReadyMoves
<1>4. CASE s.step = "InAnchor"
  <2>1. InAnchor(s, c) \in {Stay(s, "Continue"), Goto(s, "BeginValueOrEmpty", "SkipSpace"),
                            EndLine(s, "SkipSpace"), Fail(s)}
    BY DEF InAnchor
  <2>2. Step(s, c) = InAnchor(s, c)
    BY <1>4 DEF Step
  <2>. QED
    BY <1>1, <1>2, <2>1, <2>2, ReadyMoves
<1>5. CASE s.step = "InAlias"
  <2>1. InAlias(s, c) \in {Stay(s, "Continue"), Goto(s, "EndValue", "SkipSpace"),
                           EndValue(s, c), Fail(s)}
    BY DEF InAlias
  <2>2. Step(s, c) = InAlias(s, c)
    BY <1>5 DEF Step
  <2>. QED
    BY <1>1, <1>2, <2>1, <2>2, ReadyMoves, EndValueSound
<1>6. CASE s.step = "ExplicitType2"
  <2>1. ExplicitType2(s, c) \in {Stay(s, "Continue"), Goto(s, "BeginValueOrEmpty", "SkipSpace"),
                                 Fail(s)}
    BY DEF ExplicitType2
  <2>2. Step(s, c) = ExplicitType2(s, c)
    BY <1>6 DEF Step
  <2>. QED
    BY <1>1, <1>2, <2>1, <2>2, ReadyMoves
<1>. QED
  BY <1>3, <1>4, <1>5, <1>6

\* A backslash escape: two, four or eight digits may be wanted
LEMMA EscapeSound ==
  ASSUME NEW s, Ready(s), s.step \in Plain, NEW c
  PROVE  Leads(s, InStringEsc(s, c))
<1>1. "Continue" \in Opcode /\ {"InString"} \subseteq Plain
  BY DEF Opcode, Plain, Steps
<1>2. CASE c \in {"x", "u", "U"}
  <2>. DEFINE t == [Goto(s, "InStringHex", "Continue") EXCEPT !.hex = HexCount[c]]
  <2>1. InStringEsc(s, c) = t
    BY <1>2 DEF InStringEsc, Escaped, HexCount, LineBreak
  <2>2. HexCount[c] \in 0..8 /\ HexCount[c] > 0
    BY <1>2 DEF HexCount
  <2>3. t \in ScannerRecord
    BY <1>1, <2>2 DEF Ready, Frames, Stacks, ScannerRecord, Goto, Steps
  <2>4. /\ t.states = s.states /\ t.indents = s.indents /\ t.endTop = s.endTop
        /\ t.hex = HexCount[c] /\ t.err = s.err /\ t.sameLine = s.sameLine
        /\ t.step = "InStringHex"
    BY DEF Ready, Frames, Stacks, ScannerRecord, Goto
  <2>. HIDE DEF t
  <2>5. Sound(t)
    BY <2>2, <2>3, <2>4 DEF Ready, Sound, Frames, Stacks, LastState
  <2>. QED
    BY <2>1, <2>4, <2>5 DEF Leads
<1>3. CASE c \notin {"x", "u", "U"}
  <2>1. InStringEsc(s, c) \in {Goto(s, "InString", "Continue"), Fail(s)}
    BY <1>3 DEF InStringEsc, Escaped, HexCount, LineBreak
  <2>. QED
    BY <1>1, <2>1, ReadyMoves
<1>. QED
  BY <1>2, <1>3

\* Quoted scalars
LEMMA QuotedSound ==
  ASSUME NEW s, Ready(s), NEW c,
         s.step \in {"InString", "InStringSq", "InStringSq2", "InStringEsc"}
  PROVE  Leads(s, Step(s, c))
<1>1. s.step \in Plain /\ "Continue" \in Opcode
  BY DEF Plain, Steps, Opcode
<1>2. {"EndValue", "InStringEsc", "InStringSq", "InStringSq2"} \subseteq Plain
  BY DEF Plain, Steps
<1>3. CASE s.step \in {"InString", "InStringEsc"}
  <2>1. Step(s, c) \in {Goto(s, "EndValue", "Continue"), Goto(s, "InStringEsc", "Continue"),
                        InStringEsc(s, c), Fail(s), Stay(s, "Continue")}
    BY <1>3 DEF Step, InString, Control
  <2>. QED
    BY <1>1, <1>2, <2>1, ReadyMoves, EscapeSound
<1>4. CASE s.step \in {"InStringSq", "InStringSq2"}
  <2>1. Step(s, c) \in {Goto(s, "InStringSq", "Continue"), Goto(s, "InStringSq2", "Continue"),
                        EndValue(s, c), Stay(s, "Continue")}
    BY <1>4 DEF Step, InStringSq, InStringSq2
  <2>. QED
    BY <1>1, <1>2, <2>1, ReadyMoves, EndValueSound
<1>. QED
  BY <1>3, <1>4

\* The digits of an escape are counted down.
LEMMA HexSound ==
  ASSUME NEW s, Sound(s), s.step = "InStringHex", NEW c
  PROVE  Leads(s, InStringHex(s, c))
<1>1. /\ s \in ScannerRecord /\ s.hex \in 1..8 /\ ~s.endTop
      /\ LastState(s) # "MultiLineValue"
  BY DEF Sound, Frames, Stacks, ScannerRecord, TopSteps, LiteralSteps
<1>2. CASE c \in Hex
  <2>. DEFINE t == [s EXCEPT !.hex = @ - 1, !.step = IF s.hex = 1 THEN "InString" ELSE @,
                             !.op = "Continue"]
  <2>1. InStringHex(s, c) = t
    BY <1>2 DEF InStringHex
  <2>2. /\ t \in ScannerRecord
        /\ t.states = s.states /\ t.indents = s.indents /\ t.endTop = s.endTop
        /\ t.hex = s.hex - 1 /\ t.err = s.err /\ t.sameLine = s.sameLine
        /\ t.step = IF s.hex = 1 THEN "InString" ELSE s.step
    <3>. DEFINE step == IF s.hex = 1 THEN "InString" ELSE s.step
    <3>1. step \in Steps /\ s.hex - 1 \in 0..8 /\ "Continue" \in Opcode
      BY <1>1 DEF Steps, Opcode
    <3>2. t = [s EXCEPT !.hex = s.hex - 1, !.step = step, !.op = "Continue"]
      OBVIOUS
    <3>. HIDE DEF step, t
    <3>3. t \in ScannerRecord
      BY <1>1, <3>1, <3>2 DEF ScannerRecord
    <3>4. /\ t.states = s.states /\ t.indents = s.indents /\ t.endTop = s.endTop
          /\ t.hex = s.hex - 1 /\ t.err = s.err /\ t.sameLine = s.sameLine /\ t.step = step
      BY <1>1, <3>2 DEF ScannerRecord
    <3>. QED
      BY <3>3, <3>4 DEF step
  <2>. HIDE DEF t
  <2>3. Sound(t)
    BY <1>1, <2>2 DEF Sound, Frames, Stacks, LastState
  <2>. QED
    BY <2>1, <2>2, <2>3 DEF Leads
<1>3. CASE c \notin Hex
  <2>. DEFINE t == [s EXCEPT !.hex = 0]
  <2>1. InStringHex(s, c) = Fail(t)
    BY <1>3 DEF InStringHex
  <2>2. /\ t \in ScannerRecord
        /\ t.states = s.states /\ t.indents = s.indents /\ t.endTop = s.endTop
        /\ t.hex = 0 /\ t.err = s.err /\ t.sameLine = s.sameLine
    BY <1>1 DEF ScannerRecord
  <2>. HIDE DEF t
  <2>3. Stacks(t)
    BY <2>2 DEF Sound, Frames, Stacks
  <2>. QED
    BY <2>1, <2>2, <2>3, FailSound DEF Leads
<1>. QED
  BY <1>2, <1>3

-----------------------------------------------------------------------------
(***************************************************************************)
(* Directives, separators and the end of the input.                        *)
(***************************************************************************)
\* An error is recorded without a change of the step.
LEMMA ErrorSound ==
  ASSUME NEW s, Frames(s), s.hex = 0, s.step # "InStringHex",
         s.endTop => s.step \in TopSteps, s.step = "EndTop" => s.endTop,
         LastState(s) = "MultiLineValue" => s.step \in LiteralSteps
  PROVE  Leads(s, [s EXCEPT !.err = TRUE, !.op = "Error"])
<1>. DEFINE t == [s EXCEPT !.err = TRUE, !.op = "Error"]
<1>1. /\ t \in ScannerRecord
      /\ t.states = s.states /\ t.indents = s.indents /\ t.endTop = s.endTop
      /\ t.hex = 0 /\ t.err /\ t.step = s.step
  BY DEF Frames, Stacks, ScannerRecord, Opcode
<1>. HIDE DEF t
<1>2. Leads(s, t)
  BY <1>1 DEF Leads, Sound, Frames, Stacks, LastState
<1>. QED
  BY <1>2 DEF t

\* eof, whatever s.step(s, '\n') has left behind
LEMMA EofWithSound ==
  ASSUME NEW s, Sound(s), NEW t, Leads(s, t)
  PROVE  Leads(s, EofWith(s, t))
<1>1. {"Error", "End"} \subseteq Opcode
  BY DEF Opcode
<1>2. /\ Leads(s, Stay(s, "Error")) /\ Leads(s, Stay(s, "End"))
      /\ Leads(s, Stay(t, "Error")) /\ Leads(s, Stay(t, "End"))
  BY <1>1, StaySound DEF Leads
<1>3. CASE s.step = "InStringHex"
  <2>. DEFINE u == [s EXCEPT !.err = TRUE, !.op = "Error"]
  <2>1. /\ u \in ScannerRecord
        /\ u.states = s.states /\ u.indents = s.indents /\ u.endTop = s.endTop
        /\ u.hex = s.hex /\ u.err /\ u.step = s.step
    BY DEF Sound, Frames, Stacks, ScannerRecord, Opcode
  <2>. HIDE DEF u
  <2>2. Leads(s, u)
    BY <2>1 DEF Leads, Sound, Frames, Stacks, LastState
  <2>3. EofWith(s, t) \in {Stay(s, "Error"), Stay(s, "End"), u, Stay(t, "Error"), Stay(t, "End")}
    BY DEF EofWith, u
  <2>. QED
    BY <1>2, <2>2, <2>3
<1>4. CASE s.step # "InStringHex"
  <2>1. s.hex = 0
    BY <1>4 DEF Sound, Frames, Stacks, ScannerRecord
  <2>2. Leads(s, [s EXCEPT !.err = TRUE, !.op = "Error"])
    BY <1>4, <2>1, ErrorSound DEF Sound
  <2>3. EofWith(s, t) \in {Stay(s, "Error"), Stay(s, "End"),
                           [s EXCEPT !.err = TRUE, !.op = "Error"],
                           Stay(t, "Error"), Stay(t, "End")}
    BY DEF EofWith
  <2>. QED
    BY <1>2, <2>2, <2>3
<1>. QED
  BY <1>3, <1>4

\* A scanner that reset() has left is sound.
LEMMA ResetSound == Sound(Reset)
<1>1. Reset \in ScannerRecord
  BY EmptySeq DEF Reset, ScannerRecord, Steps, LastC, Opcode
<1>2. Layered(<<>>) /\ Nested(<<>>, <<>>) /\ Len(<<>>) = 0
  BY DEF Layered, Nested
<1>. QED
  BY <1>1, <1>2, MaxNestingDepthAssumption
     DEF Reset, Sound, Frames, Stacks, TopSteps, LiteralSteps, LastState

\* stateNewDoc3: the document is checked, then the next one begins.
LEMMA NewDoc3Sound ==
  ASSUME NEW s, Sound(s), s.step = "NewDoc3", NEW c
  PROVE  Leads(s, NewDoc3(s, c))
<1>1. /\ Frames(s) /\ Stacks(s) /\ s \in ScannerRecord /\ s.hex = 0
      /\ LastState(s) # "MultiLineValue"
  BY DEF Sound, Frames, Stacks, ScannerRecord, LiteralSteps
<1>2. /\ {"SkipSpace", "Error", "End"} \subseteq Opcode
      /\ "BeginComment" \in Plain \cap TopSteps
  BY DEF Opcode, Plain, Steps, TopSteps
<1>3. /\ Leads(s, Stay(s, "SkipSpace")) /\ Leads(s, Fail(s))
      /\ Leads(s, Goto(s, "BeginComment", "SkipSpace"))
  BY <1>1, <1>2, StaySound, FailSound, GotoSound
<1>4. CASE c \in LineBreak
  <2>. DEFINE b == [s EXCEPT !.step = "BeginLine"]
              t == BeginLine(b, "LF")
              e == EofWith(b, t)
              f == [b EXCEPT !.err = TRUE, !.op = "Error"]
  <2>1. /\ b \in ScannerRecord
        /\ b.states = s.states /\ b.indents = s.indents /\ b.endTop = s.endTop
        /\ b.hex = 0 /\ b.err = s.err /\ b.sameLine = s.sameLine /\ b.step = "BeginLine"
    BY <1>1 DEF ScannerRecord, Steps
  <2>2. NewDoc3(s, c) = IF e.op = "Error" THEN e ELSE Reset
    BY <1>4 DEF NewDoc3, LineBreak, Space
  <2>3. t = [b EXCEPT !.idn = 0, !.op = "SkipSpace"]
    BY DEF BeginLine, LineBreak, Space
  <2>. HIDE DEF b, t
  <2>4. /\ Frames(b) /\ LastState(b) # "MultiLineValue"
        /\ s.err => Sound(b)
    BY <1>1, <2>1 DEF Frames, Stacks, LastState, Sound, TopSteps
  <2>5. Leads(s, f)
    <3>1. Leads(b, f)
      BY <2>1, <2>4, ErrorSound DEF TopSteps
    <3>. HIDE DEF f
    <3>. QED
      BY <2>1, <3>1 DEF Leads
  <2>6. CASE s.err
    <3>1. e = Stay(b, "Error")
      BY <2>1, <2>6 DEF EofWith
    <3>2. Stay(b, "Error").op = "Error"
      BY <2>1 DEF Stay, ScannerRecord
    <3>3. Leads(b, Stay(b, "Error"))
      BY <1>2, <2>4, <2>6, StaySound
    <3>. HIDE DEF e
    <3>. QED
      BY <2>1, <2>2, <3>1, <3>2, <3>3 DEF Leads
  <2>7. CASE ~s.err
    <3>1. t.err = b.err /\ t \in ScannerRecord
      BY <1>2, <2>1, <2>3 DEF ScannerRecord
    <3>. HIDE DEF f
    <3>2. e \in {Stay(b, "End"), f, Stay(t, "End")}
      BY <2>1, <2>7, <3>1 DEF EofWith, f
    <3>3. Stay(b, "End").op = "End" /\ Stay(t, "End").op = "End"
      BY <2>1, <3>1 DEF Stay, ScannerRecord
    <3>. HIDE DEF e
    <3>. QED
      BY <2>2, <2>5, <2>7, <3>2, <3>3, ResetSound DEF Leads
  <2>. QED
    BY <2>6, <2>7
<1>5. CASE c \notin LineBreak
  <2>1. NewDoc3(s, c) \in {Stay(s, "SkipSpace"), Goto(s, "BeginComment", "SkipSpace"), Fail(s)}
    BY <1>5 DEF NewDoc3
  <2>. QED
    BY <1>3, <2>1
<1>. QED
  BY <1>4, <1>5

\* stateEndYaml3
LEMMA EndYaml3Sound ==
  ASSUME NEW s, Sound(s), s.step = "EndYaml3", NEW c
  PROVE  Leads(s, EndYaml3(s, c))
<1>1. /\ Frames(s) /\ Stacks(s) /\ s \in ScannerRecord /\ s.hex = 0
      /\ LastState(s) # "MultiLineValue"
  BY DEF Sound, Frames, Stacks, ScannerRecord, LiteralSteps
<1>2. /\ {"SkipSpace", "Error", "End"} \subseteq Opcode
      /\ "BeginComment" \in Plain \cap TopSteps
  BY DEF Opcode, Plain, Steps, TopSteps
<1>3. /\ Leads(s, Stay(s, "SkipSpace")) /\ Leads(s, Fail(s))
      /\ Leads(s, Goto(s, "BeginComment", "SkipSpace"))
  BY <1>1, <1>2, StaySound, FailSound, GotoSound
<1>4. CASE c \in LineBreak
  <2>. DEFINE b == [s EXCEPT !.step = "EndYaml"]
  <2>1. /\ b \in ScannerRecord
        /\ b.states = s.states /\ b.indents = s.indents /\ b.endTop = s.endTop
        /\ b.hex = 0 /\ b.err = s.err /\ b.sameLine = s.sameLine /\ b.step = "EndYaml"
    BY <1>1 DEF ScannerRecord, Steps
  <2>2. EndYaml3(s, c) = EofWith(b, Stay(b, "End"))
    BY <1>4 DEF EndYaml3, LineBreak, Space
  <2>. HIDE DEF b
  <2>3. Sound(b)
    BY <1>1, <2>1 DEF Sound, Frames, Stacks, LastState, TopSteps
  <2>4. Leads(b, EofWith(b, Stay(b, "End")))
    BY <1>2, <2>3, StaySound, EofWithSound
  <2>. QED
    BY <2>1, <2>2, <2>4 DEF Leads
<1>5. CASE c \notin LineBreak
  <2>1. EndYaml3(s, c) \in {Stay(s, "SkipSpace"), Goto(s, "BeginComment", "SkipSpace"), Fail(s)}
    BY <1>5 DEF EndYaml3
  <2>. QED
    BY <1>3, <2>1
<1>. QED
  BY <1>4, <1>5

\* Directives, and the bytes of "---" and "..."
LEMMA SeparatorSound ==
  ASSUME NEW s, Sound(s), NEW c,
         s.step \in {"InDirective", "NewDoc", "NewDoc1", "NewDoc2", "EndYaml1", "EndYaml2"}
  PROVE  Leads(s, Step(s, c))
<1>1. /\ Frames(s) /\ Stacks(s) /\ s.hex = 0 /\ LastState(s) # "MultiLineValue"
      /\ s.step \in {"InDirective", "NewDoc"} => ~s.endTop
  BY DEF Sound, Frames, Stacks, ScannerRecord, LiteralSteps, TopSteps
<1>2. /\ "Continue" \in Opcode /\ "NewDoc" \in Plain
      /\ {"NewDoc1", "NewDoc2", "NewDoc3", "EndYaml2", "EndYaml3"} \subseteq Plain \cap TopSteps
  BY DEF Opcode, Plain, Steps, TopSteps
<1>3. /\ Leads(s, Fail(s)) /\ Leads(s, Stay(s, "Continue"))
      /\ \A step \in {"NewDoc1", "NewDoc2", "NewDoc3", "EndYaml2", "EndYaml3"} :
           Leads(s, Goto(s, step, "Continue"))
      /\ s.step = "InDirective" => Leads(s, Goto(s, "NewDoc", "Continue"))
  BY <1>1, <1>2, FailSound, StaySound, GotoSound
<1>4. CASE s.step = "InDirective"
  <2>1. Step(s, c) = InDirective(s, c)
    BY <1>4 DEF Step
  <2>2. InDirective(s, c) \in {Stay(s, "Continue"), Goto(s, "NewDoc", "Continue"), Fail(s)}
    BY DEF InDirective, NoPrint, Control, LineBreak
  <2>. QED
    BY <1>3, <1>4, <2>1, <2>2
<1>5. CASE s.step \in {"NewDoc", "NewDoc1", "NewDoc2", "EndYaml1", "EndYaml2"}
  <2>1. Step(s, c) \in {Goto(s, "NewDoc1", "Continue"), Goto(s, "NewDoc2", "Continue"),
                        Goto(s, "NewDoc3", "Continue"), Goto(s, "EndYaml2", "Continue"),
                        Goto(s, "EndYaml3", "Continue"), Fail(s)}
    BY <1>5 DEF Step, Expect
  <2>. QED
    BY <1>3, <2>1
<1>. QED
  BY <1>4, <1>5

-----------------------------------------------------------------------------
\* Every call of s.step, on any byte, keeps the scanner sound, and an error that is on
\* record stays on record.
THEOREM StepSound ==
  ASSUME NEW s, Sound(s), NEW c
  PROVE  Sound(Step(s, c)) /\ (s.err => Step(s, c).err)
<1>1. s \in ScannerRecord /\ Frames(s) /\ Stacks(s) /\ s.step \in Steps
  BY DEF Sound, Frames, Stacks, ScannerRecord
<1>2. s.step \notin TopSteps \cup LiteralSteps \cup {"InStringHex"} => Ready(s)
  BY <1>1 DEF Ready, Sound, ScannerRecord
<1>3. CASE s.step = "BeginLine"
  BY <1>3, BeginLineSound DEF Step, Leads
<1>4. CASE s.step \in {"BeginComment", "EmptyLine", "BeginMultiline", "BeginMultilineChomp",
                       "InMultiline"}
  BY <1>4, LiteralSound DEF Leads
<1>5. CASE s.step = "BeginValueOrEmpty"
  BY <1>2, <1>5, BeginValueOrEmptySound DEF Step, Leads, TopSteps, LiteralSteps
<1>6. CASE s.step = "BeginValue"
  BY <1>2, <1>6, ReadyMoves DEF Step, Leads, TopSteps, LiteralSteps
<1>7. CASE s.step = "EndValue"
  BY <1>2, <1>7, EndValueSound DEF Step, Leads, TopSteps, LiteralSteps
<1>8. CASE s.step \in {"InStringUnq", "InStringUnqOrComment", "KeyOrUnq", "BeginMerge", "Merge1",
                       "Hyphen", "BeginArrayValueS", "DotBegin"}
  BY <1>2, <1>8, PlainSound DEF Leads, TopSteps, LiteralSteps
<1>9. CASE s.step \in {"BeginAnchor", "InAnchor", "BeginAlias", "InAlias", "ExplicitType1",
                       "ExplicitType2"}
  BY <1>2, <1>9, MarkSound DEF Leads, TopSteps, LiteralSteps
<1>10. CASE s.step \in {"InString", "InStringSq", "InStringSq2", "InStringEsc"}
  BY <1>2, <1>10, QuotedSound DEF Leads, TopSteps, LiteralSteps
<1>11. CASE s.step = "InStringHex"
  BY <1>11, HexSound DEF Step, Leads
<1>12. CASE s.step \in {"InDirective", "NewDoc", "NewDoc1", "NewDoc2", "EndYaml1", "EndYaml2"}
  BY <1>12, SeparatorSound DEF Leads
<1>13. CASE s.step = "NewDoc3"
  BY <1>13, NewDoc3Sound DEF Step, Leads
<1>14. CASE s.step = "EndYaml3"
  BY <1>14, EndYaml3Sound DEF Step, Leads
<1>15. CASE s.step = "EndTop"
  BY <1>1, <1>15, EndTopSound DEF Step, Leads, Sound, ScannerRecord
<1>16. CASE s.step \in {"EndYaml", "Error"}
  <2>1. Step(s, c) \in {Stay(s, "End"), Stay(s, "Error")} /\ {"End", "Error"} \subseteq Opcode
    BY <1>16 DEF Step, Opcode
  <2>. QED
    BY <2>1, StaySound DEF Leads
<1>. QED
  BY <1>1, <1>3, <1>4, <1>5, <1>6, <1>7, <1>8, <1>9, <1>10, <1>11, <1>12, <1>13, <1>14, <1>15,
     <1>16 DEF Steps

\* eof() asks the step function about a line break: it keeps the scanner sound too.
THEOREM EofSound ==
  ASSUME NEW s, Sound(s)
  PROVE  Sound(Eof(s)) /\ (s.err => Eof(s).err)
<1>1. Leads(s, Step(s, "LF"))
  BY StepSound DEF Leads
<1>. QED
  BY <1>1, EofWithSound DEF Eof, Leads

\* checkValid and readValue keep the last byte that is no space.
LEMMA LastInputSound ==
  ASSUME NEW s, Sound(s), NEW c
  PROVE  /\ Sound(LastInput(s, c)) /\ (s.err <=> LastInput(s, c).err)
         /\ LastInput(s, c).op = s.op /\ LastInput(s, c).states = s.states
<1>. DEFINE l == IF c \in {":", "\\"} THEN c ELSE "other"
            t == [s EXCEPT !.lastc = l]
<1>1. l \in LastC
  BY DEF LastC
<1>2. LastInput(s, c) \in {s, t}
  BY DEF LastInput
<1>. HIDE DEF l
<1>3. /\ t \in ScannerRecord /\ t.states = s.states /\ t.indents = s.indents
      /\ t.endTop = s.endTop /\ t.hex = s.hex /\ t.err = s.err
      /\ t.sameLine = s.sameLine /\ t.step = s.step /\ t.op = s.op
  BY <1>1 DEF Sound, Frames, Stacks, ScannerRecord
<1>. HIDE DEF t
<1>4. Sound(t)
  BY <1>3 DEF Sound, Frames, Stacks, LastState
<1>. QED
  BY <1>2, <1>3, <1>4
-----------------------------------------------------------------------------
(***************************************************************************)
(* A line break and a recorded error.  At the end of the input eof() asks  *)
(* the step function about a line break and takes endTop for success.      *)
(***************************************************************************)
\* If the call completes the top-level value, it has recorded no error.
EndsClean(t) == t.endTop => ~t.err

\* The helpers that leave endTop alone
LEMMA EndTopKept ==
  ASSUME NEW s \in ScannerRecord, ~s.endTop
  PROVE  /\ \A op : ~Stay(s, op).endTop /\ ~EndLine(s, op).endTop
         /\ \A step, op : ~Goto(s, step, op).endTop
         /\ ~Fail(s).endTop
         /\ \A n, op : ~[s EXCEPT !.idn = n, !.op = op].endTop
         /\ ~[s EXCEPT !.err = TRUE, !.op = "Error"].endTop
         /\ ~Fail([s EXCEPT !.hex = 0]).endTop
  BY DEF ScannerRecord, Stay, Goto, EndLine, Fail

\* toggleObjectState changes the stack only.
LEMMA EndTopToggled ==
  ASSUME NEW s \in ScannerRecord
  PROVE  Toggle(s).endTop = s.endTop /\ Toggle(s) = [s EXCEPT !.states = Toggle(s).states]
<1>. DEFINE q == [s.states EXCEPT ![Len(s.states)] = Toggled[@]]
<1>1. Toggle(s) = s \/ Toggle(s) = [s EXCEPT !.states = q]
  BY DEF Toggle
<1>. HIDE DEF q
<1>. QED
  BY <1>1 DEF ScannerRecord

\* A line break after the value: stateEndValue
LEMMA EndValueClean ==
  ASSUME NEW s \in ScannerRecord, ~s.err, ~s.endTop
  PROVE  EndsClean(EndValue(s, "LF"))
<1>1. CASE s.states = <<>>
  <2>. DEFINE b == [s EXCEPT !.step = "EndTop", !.endTop = TRUE]
  <2>1. EndValue(s, "LF") = [b EXCEPT !.idn = 0, !.op = "End"]
    BY <1>1 DEF EndValue, EndTop, Space, LineBreak
  <2>2. [b EXCEPT !.idn = 0, !.op = "End"].err = s.err
    BY DEF ScannerRecord
  <2>. HIDE DEF b
  <2>. QED
    BY <2>1, <2>2 DEF EndsClean
<1>2. CASE s.states # <<>>
  <2>. DEFINE u == Toggle(s)
  <2>1. EndValue(s, "LF") = EndValueIn(s, "LF")
    BY <1>2 DEF EndValue, Space
  <2>2. EndValueIn(s, "LF") \in
          {EndLine(u, "ObjectKey"), EndLine(u, "ObjectValue"), EndLine(s, "ArrayValue"),
           EndLine(s, "SkipSpace"), Goto(u, "BeginValueOrEmpty", "ObjectKey"), Fail(s)}
    BY DEF EndValueIn, LineBreak
  <2>3. ~u.endTop /\ u = [s EXCEPT !.states = u.states]
    BY EndTopToggled
  <2>. HIDE DEF u
  <2>4. /\ \A op : ~EndLine(u, op).endTop
        /\ ~Goto(u, "BeginValueOrEmpty", "ObjectKey").endTop
    BY <2>3 DEF ScannerRecord, EndLine, Goto
  <2>5. /\ \A op : ~EndLine(s, op).endTop
        /\ ~Fail(s).endTop
    BY EndTopKept
  <2>6. ~EndValueIn(s, "LF").endTop
    BY <2>2, <2>4, <2>5
  <2>. QED
    BY <2>1, <2>6 DEF EndsClean
<1>. QED
  BY <1>1, <1>2

\* A line break after the ':' of a key: pushObjectState
LEMMA PushObjectStateClean ==
  ASSUME NEW s \in ScannerRecord, ~s.endTop
  PROVE  EndsClean(PushObjectState(s, "LF"))
<1>. DEFINE t == [s EXCEPT !.step = "BeginValueOrEmpty"]
            b == [t EXCEPT !.sameLine = TRUE]
            p == PushState(b, "ObjectValue", "ObjectValue")
            u == Toggle(t)
<1>1. t \in ScannerRecord /\ b \in ScannerRecord /\ ~t.endTop /\ ~b.endTop
  BY DEF ScannerRecord, Steps
<1>2. PushObjectState(s, "LF") \in {EndLine(p, "ObjectKey"), Fail(t), EndLine(u, "ObjectKey")}
  BY DEF PushObjectState, AfterKey, LineBreak
<1>. HIDE DEF t, b
<1>3. ~EndLine(u, "ObjectKey").endTop
  <2>1. ~u.endTop /\ u = [t EXCEPT !.states = u.states]
    BY <1>1, EndTopToggled
  <2>. HIDE DEF u
  <2>. QED
    BY <1>1, <2>1 DEF ScannerRecord, EndLine
<1>4. ~EndLine(p, "ObjectKey").endTop
  <2>1. PICK st, ind : LET q == [b EXCEPT !.states = st, !.indents = ind, !.op = "ObjectValue"]
                       IN  p = q \/ p = Fail(q)
    BY DEF PushState
  <2>. HIDE DEF p
  <2>. QED
    BY <1>1, <2>1 DEF ScannerRecord, EndLine, Fail
<1>. HIDE DEF p, u
<1>. QED
  BY <1>1, <1>2, <1>3, <1>4, EndTopKept DEF EndsClean

\* A line break, whatever the state function: a value that ends there has no error.
LEMMA LineBreakClean ==
  ASSUME NEW s, Sound(s), ~s.err, ~s.endTop
  PROVE  EndsClean(Step(s, "LF"))
<1>. DEFINE t == Step(s, "LF")
            u == [s EXCEPT !.step = "InStringUnq"]
            b == [s EXCEPT !.step = "BeginLine"]
            y == [s EXCEPT !.step = "EndYaml"]
<1>1. s \in ScannerRecord /\ s.step \in Steps /\ s.step # "EndTop"
  BY DEF Sound, Frames, Stacks, ScannerRecord
<1>2. /\ u \in ScannerRecord /\ ~u.err /\ ~u.endTop
      /\ b \in ScannerRecord /\ ~b.err /\ ~b.endTop
      /\ y \in ScannerRecord /\ ~y.err /\ ~y.endTop
  BY <1>1 DEF ScannerRecord, Steps
<1>3. CASE s.step \in {"EndValue", "InStringUnqOrComment", "InStringUnq", "InStringSq2", "InAlias",
                       "Hyphen", "DotBegin"}
  <2>1. t \in {EndValue(s, "LF"), EndValue(u, "LF")}
    BY <1>3 DEF Step, InStringUnqOrComment, InStringUnq, InStringSq2, InAlias, Hyphen, DotBegin,
                IsUnqDelim, Space, LineBreak, NameByte, Lower, Upper, Digit
  <2>. HIDE DEF u, t
  <2>. QED
    BY <1>1, <1>2, <2>1, EndValueClean DEF t
<1>4. CASE s.step = "KeyOrUnq"
  <2>1. t = PushObjectState(s, "LF")
    BY <1>4 DEF Step, KeyOrUnq, IsUnqDelim, LineBreak
  <2>. QED
    BY <1>1, <2>1, PushObjectStateClean
<1>5. CASE s.step \in {"BeginLine", "BeginValueOrEmpty", "BeginValue", "BeginComment", "EmptyLine",
                       "BeginMultilineChomp", "BeginMultiline", "InMultiline", "InAnchor"}
  <2>1. CASE s.step \in {"BeginLine", "BeginValueOrEmpty", "BeginValue"}
    <3>1. t \in {[s EXCEPT !.idn = 0, !.op = "SkipSpace"], EndLine(s, "SkipSpace")}
      <4>1. BeginLine(s, "LF") = [s EXCEPT !.idn = 0, !.op = "SkipSpace"]
        BY DEF BeginLine, Space, LineBreak
      <4>2. BeginValueOrEmpty(s, "LF") = EndLine(s, "SkipSpace")
        BY DEF BeginValueOrEmpty, Space, LineBreak
      <4>3. BeginValue(s, "LF") = EndLine(s, "SkipSpace")
        BY DEF BeginValue, LineBreak, PlainHead, Lower, Upper, Digit
      <4>. QED
        BY <2>1, <4>1, <4>2, <4>3 DEF Step
    <3>2. ~[s EXCEPT !.idn = 0, !.op = "SkipSpace"].endTop /\ ~EndLine(s, "SkipSpace").endTop
      BY <1>1, EndTopKept
    <3>. HIDE DEF t
    <3>. QED
      BY <3>1, <3>2 DEF EndsClean, t
  <2>2. CASE s.step \in {"BeginComment", "EmptyLine", "BeginMultilineChomp", "BeginMultiline",
                         "InMultiline", "InAnchor"}
    <3>1. t \in {EndLine(s, "SkipSpace"), EndLine(s, "Continue")}
      BY <2>2 DEF Step, BeginComment, EmptyLine, BeginMultilineChomp, BeginMultiline,
                  InMultiline, InAnchor, Space, LineBreak, NameByte, Lower, Upper, Digit
    <3>2. ~EndLine(s, "SkipSpace").endTop /\ ~EndLine(s, "Continue").endTop
      BY <1>1, EndTopKept
    <3>. HIDE DEF t
    <3>. QED
      BY <3>1, <3>2 DEF EndsClean, t
  <2>. QED
    BY <1>5, <2>1, <2>2
<1>6. CASE s.step \in {"EndYaml", "BeginMerge", "Merge1", "InStringSq", "BeginAnchor", "BeginAlias",
                       "InDirective", "NewDoc", "NewDoc1", "NewDoc2", "EndYaml1", "EndYaml2",
                       "BeginArrayValueS", "ExplicitType1", "ExplicitType2", "Error"}
  <2>1. t \in {Stay(s, "End"), Stay(s, "Continue"), Stay(s, "Error"), Fail(s),
               Goto(s, "InStringUnq", "Continue"), Goto(s, "NewDoc", "Continue"),
               Goto(s, "BeginValueOrEmpty", "SkipSpace")}
    BY <1>6 DEF Step, BeginMerge, InStringSq, BeginAnchor, BeginAlias, InDirective, Expect,
                BeginArrayValueS, ExplicitType1, ExplicitType2, NoPrint, Control, White, Space,
                LineBreak, NameByte, Lower, Upper, Digit
  <2>2. /\ \A op : ~Stay(s, op).endTop
        /\ \A step, op : ~Goto(s, step, op).endTop
        /\ ~Fail(s).endTop
    BY <1>1, EndTopKept
  <2>. HIDE DEF t
  <2>. QED
    BY <2>1, <2>2 DEF EndsClean, t
<1>7. CASE s.step \in {"InString", "InStringEsc", "InStringHex"}
  <2>1. t \in {Goto(s, "InString", "Continue"), Fail(s), Fail([s EXCEPT !.hex = 0])}
    BY <1>7 DEF Step, InString, InStringEsc, InStringHex, Escaped, HexCount, Hex, Digit, Control,
                LineBreak
  <2>. HIDE DEF t
  <2>. QED
    BY <1>1, <2>1, EndTopKept DEF EndsClean, t
<1>8. CASE s.step = "NewDoc3"
  <2>. DEFINE v == [b EXCEPT !.idn = 0, !.op = "SkipSpace"]
              e == EofWith(b, v)
  <2>1. t = IF e.op = "Error" THEN e ELSE Reset
    BY <1>8 DEF Step, NewDoc3, BeginLine, Space, LineBreak
  <2>2. v \in ScannerRecord /\ ~v.endTop
    BY <1>2 DEF ScannerRecord, Opcode
  <2>. HIDE DEF b, v
  <2>3. e \in {Stay(b, "Error"), Stay(b, "End"), [b EXCEPT !.err = TRUE, !.op = "Error"],
               Stay(v, "End"), Stay(v, "Error")}
    BY DEF EofWith
  <2>. HIDE DEF e
  <2>4. ~e.endTop
    <3>1. /\ \A op : ~Stay(b, op).endTop /\ ~Stay(v, op).endTop
          /\ ~[b EXCEPT !.err = TRUE, !.op = "Error"].endTop
      BY <1>2, <2>2, EndTopKept
    <3>. QED
      BY <2>3, <3>1
  <2>5. ~Reset.endTop
    BY DEF Reset
  <2>. HIDE DEF t
  <2>. QED
    BY <2>1, <2>4, <2>5 DEF EndsClean, t
<1>9. CASE s.step = "EndYaml3"
  <2>. DEFINE v == Stay(y, "End")
  <2>1. t = EofWith(y, v)
    BY <1>9 DEF Step, EndYaml3, Space, LineBreak
  <2>2. v \in ScannerRecord /\ ~v.endTop
    BY <1>2 DEF Stay, ScannerRecord, Opcode
  <2>. HIDE DEF y, v
  <2>3. EofWith(y, v) \in {Stay(y, "Error"), Stay(y, "End"), [y EXCEPT !.err = TRUE, !.op = "Error"],
                           Stay(v, "End"), Stay(v, "Error")}
    BY DEF EofWith
  <2>4. ~EofWith(y, v).endTop
    <3>1. /\ \A op : ~Stay(y, op).endTop /\ ~Stay(v, op).endTop
          /\ ~[y EXCEPT !.err = TRUE, !.op = "Error"].endTop
      BY <1>2, <2>2, EndTopKept
    <3>. QED
      BY <2>3, <3>1
  <2>. HIDE DEF t
  <2>. QED
    BY <2>1, <2>4 DEF EndsClean, t
<1>. HIDE DEF t
<1>. QED
  BY <1>1, <1>3, <1>4, <1>5, <1>6, <1>7, <1>8, <1>9 DEF Steps, t

\* eof() answers scanEnd or scanError; it answers scanEnd only without an error.
THEOREM EofClean ==
  ASSUME NEW s, Sound(s), Eof(s).op # "Error"
  PROVE  ~Eof(s).err
<1>. DEFINE t == Step(s, "LF")
            f == [s EXCEPT !.err = TRUE, !.op = "Error"]
<1>1. s \in ScannerRecord /\ t \in ScannerRecord
  BY StepSound DEF Sound, Frames, Stacks
<1>2. Eof(s) = EofWith(s, t)
  BY DEF Eof
<1>3. ~s.err /\ ~s.endTop => EndsClean(t)
  BY LineBreakClean
<1>. HIDE DEF t
<1>4. /\ Stay(s, "Error").op = "Error" /\ Stay(s, "End").err = s.err
      /\ f.op = "Error" /\ Stay(t, "Error").op = "Error" /\ Stay(t, "End").err = t.err
  BY <1>1 DEF ScannerRecord, Stay
<1>. HIDE DEF f
<1>5. CASE s.err \/ s.endTop \/ FlowOpen(s)
  <2>1. \/ EofWith(s, t) = Stay(s, "Error")
        \/ EofWith(s, t) = Stay(s, "End") /\ ~s.err
        \/ EofWith(s, t) = f
    BY <1>5 DEF EofWith, f
  <2>. QED
    BY <1>2, <1>4, <2>1
<1>6. CASE ~s.err /\ ~s.endTop /\ ~FlowOpen(s)
  <2>1. \/ EofWith(s, t) = Stay(t, "End") /\ (t.endTop \/ ~t.err)
        \/ EofWith(s, t) = Stay(t, "Error")
    BY <1>6 DEF EofWith
  <2>. QED
    BY <1>2, <1>3, <1>4, <1>6, <2>1 DEF EndsClean
<1>. QED
  BY <1>5, <1>6

-----------------------------------------------------------------------------
(***************************************************************************)
(* A text as a sequence.                                                   *)
(***************************************************************************)
\* A part of a sequence
LEMMA Part ==
  ASSUME NEW S, NEW b \in Seq(S), NEW m \in Nat, NEW n \in Nat, m >= 1, n <= Len(b)
  PROVE  /\ SubSeq(b, m, n) \in Seq(S)
         /\ Len(SubSeq(b, m, n)) = IF m <= n THEN n - m + 1 ELSE 0
         /\ \A i \in 1..(n - m + 1) : SubSeq(b, m, n)[i] = b[m + i - 1]
<1>1. Len(b) \in Nat /\ m \in Int /\ n \in Int
  BY LenProperties
<1>2. \A i \in m..n : b[i] \in S
  BY <1>1, ElementOfSeq
<1>. QED
  BY <1>1, <1>2, SubSeqProperties

\* A text without its first n bytes
LEMMA DropFacts ==
  ASSUME NEW S, NEW b \in Seq(S), NEW n \in 0..Len(b)
  PROVE  /\ Drop(b, n) \in Seq(S) /\ Len(Drop(b, n)) = Len(b) - n
         /\ \A i \in 1..(Len(b) - n) : Drop(b, n)[i] = b[n + i]
<1>1. Len(b) \in Nat /\ n \in Nat /\ n <= Len(b) /\ n + 1 \in Nat /\ n + 1 >= 1
  BY LenProperties
<1>2. /\ SubSeq(b, n + 1, Len(b)) \in Seq(S)
      /\ Len(SubSeq(b, n + 1, Len(b))) = IF n + 1 <= Len(b) THEN Len(b) - (n + 1) + 1 ELSE 0
      /\ \A i \in 1..(Len(b) - (n + 1) + 1) : SubSeq(b, n + 1, Len(b))[i] = b[n + 1 + i - 1]
  BY <1>1, Part
<1>3. /\ Len(b) - (n + 1) + 1 = Len(b) - n
      /\ \A i \in 1..(Len(b) - n) : n + 1 + i - 1 = n + i
      /\ (IF n + 1 <= Len(b) THEN Len(b) - (n + 1) + 1 ELSE 0) = Len(b) - n
  BY <1>1
<1>. QED
  BY <1>2, <1>3 DEF Drop

\* The first n bytes of a text
LEMMA KeepFacts ==
  ASSUME NEW S, NEW b \in Seq(S), NEW n \in 0..Len(b)
  PROVE  /\ Keep(b, n) \in Seq(S) /\ Len(Keep(b, n)) = n
         /\ \A i \in 1..n : Keep(b, n)[i] = b[i]
  BY PrefixOfStack DEF Keep

\* What is kept and what is dropped is the whole.
LEMMA KeepAndDrop ==
  ASSUME NEW S, NEW b \in Seq(S), NEW n \in 0..Len(b)
  PROVE  Keep(b, n) \o Drop(b, n) = b
<1>1. Len(b) \in Nat
  BY LenProperties
<1>2. 1 \in 1..Len(b)+1 /\ n \in 1-1..Len(b) /\ Len(b) \in n..Len(b)
  BY <1>1
<1>3. SubSeq(b, 1, n) \o SubSeq(b, n + 1, Len(b)) = SubSeq(b, 1, Len(b))
  BY <1>2, ConcatAdjacentSubSeq
<1>. QED
  BY <1>3, SubSeqFull DEF Keep, Drop

\* Bytes dropped in two steps, or from the first of two parts
LEMMA DropTwice ==
  ASSUME NEW S, NEW b \in Seq(S), NEW n \in 0..Len(b), NEW m \in 0..(Len(b) - n)
  PROVE  Drop(Drop(b, n), m) = Drop(b, n + m)
<1>1. /\ Len(b) \in Nat /\ n \in Nat /\ m \in Nat /\ n + m \in 0..Len(b)
      /\ (Len(b) - n) - m = Len(b) - (n + m)
  BY LenProperties
<1>2. /\ Drop(b, n) \in Seq(S) /\ Len(Drop(b, n)) = Len(b) - n
      /\ \A i \in 1..(Len(b) - n) : Drop(b, n)[i] = b[n + i]
  BY DropFacts
<1>3. /\ Drop(b, n + m) \in Seq(S) /\ Len(Drop(b, n + m)) = Len(b) - (n + m)
      /\ \A i \in 1..(Len(b) - (n + m)) : Drop(b, n + m)[i] = b[n + m + i]
  BY <1>1, DropFacts
<1>. DEFINE d == Drop(b, n)
<1>4. m \in 0..Len(d)
  BY <1>1, <1>2
<1>. HIDE DEF d
<1>5. /\ Drop(d, m) \in Seq(S) /\ Len(Drop(d, m)) = Len(d) - m
      /\ \A i \in 1..(Len(d) - m) : Drop(d, m)[i] = d[m + i]
  BY <1>2, <1>4, DropFacts DEF d
<1>6. \A i \in 1..(Len(b) - (n + m)) : m + i \in 1..(Len(b) - n) /\ n + (m + i) = n + m + i
  BY <1>1
<1>7. Len(Drop(d, m)) = Len(Drop(b, n + m))
  BY <1>1, <1>2, <1>3, <1>5 DEF d
<1>8. \A i \in 1..Len(Drop(d, m)) : Drop(d, m)[i] = Drop(b, n + m)[i]
  BY <1>1, <1>2, <1>3, <1>5, <1>6 DEF d
<1>9. Drop(d, m) = Drop(b, n + m)
  BY <1>3, <1>5, <1>7, <1>8, SeqEqual
<1>. QED
  BY <1>9 DEF d

\* Bytes dropped from the first of two parts leave the second alone.
LEMMA DropOfConcat ==
  ASSUME NEW S, NEW a \in Seq(S), NEW b \in Seq(S), NEW n \in 0..Len(a)
  PROVE  Drop(a \o b, n) = Drop(a, n) \o b
<1>. DEFINE k == Keep(a, n)
            d == Drop(a, n)
            c == d \o b
<1>0. k \in Seq(S) /\ Len(k) = n
  BY KeepFacts
<1>a. d \in Seq(S)
  BY DropFacts
<1>b. a = k \o d
  BY KeepAndDrop
<1>c. Len(a) \in Nat /\ Len(b) \in Nat /\ n \in Nat
  BY LenProperties
<1>1. /\ k \in Seq(S) /\ Len(k) = n /\ d \in Seq(S) /\ a = k \o d
      /\ Len(a) \in Nat /\ Len(b) \in Nat /\ n \in Nat
  BY <1>0, <1>a, <1>b, <1>c
<1>. HIDE DEF k, d
<1>2. c \in Seq(S) /\ a \o b = k \o c /\ Len(c) \in Nat
  BY <1>1, ConcatProperties, ConcatAssociative, LenProperties
<1>. HIDE DEF c
<1>3. /\ k \o c \in Seq(S) /\ Len(k \o c) = n + Len(c)
      /\ \A i \in 1..(n + Len(c)) : (k \o c)[i] = IF i <= n THEN k[i] ELSE c[i - n]
  BY <1>1, <1>2, ConcatProperties
<1>. DEFINE w == k \o c
<1>4. n \in 0..Len(w)
  BY <1>1, <1>2, <1>3
<1>5. /\ Drop(w, n) \in Seq(S) /\ Len(Drop(w, n)) = Len(w) - n
      /\ \A i \in 1..(Len(w) - n) : Drop(w, n)[i] = w[n + i]
  <2>. HIDE DEF w
  <2>. QED
    BY <1>3, <1>4, DropFacts DEF w
<1>6. Len(w) - n = Len(c)
  BY <1>1, <1>2, <1>3
<1>7. \A i \in 1..Len(c) : n + i \in 1..(n + Len(c)) /\ ~(n + i <= n) /\ (n + i) - n = i
  BY <1>1, <1>2
<1>8. \A i \in 1..Len(c) : Drop(w, n)[i] = c[i]
  BY <1>3, <1>5, <1>6, <1>7
<1>9. Drop(w, n) = c
  BY <1>2, <1>5, <1>6, <1>8, SeqEqual
<1>. QED
  BY <1>2, <1>9 DEF c, d

-----------------------------------------------------------------------------
(***************************************************************************)
(* Separators.                                                             *)
(***************************************************************************)
\* What is found is there, within the text.
LEMMA IndexOfFacts ==
  ASSUME NEW S, NEW b \in Seq(S), NEW p \in Seq(S)
  PROVE  \/ IndexOf(b, p) = -1
         \/ /\ IndexOf(b, p) \in 0..Len(b)
            /\ IndexOf(b, p) + Len(p) <= Len(b)
            /\ StartsWith(Drop(b, IndexOf(b, p)), p)
<1>. DEFINE at == {i \in 0..Len(b) : StartsWith(Drop(b, i), p)}
<1>1. CASE at = {}
  BY <1>1 DEF IndexOf
<1>2. CASE at # {}
  <2>. DEFINE k == CHOOSE i \in at : \A j \in at : i <= j
  <2>1. IndexOf(b, p) = k
    BY <1>2 DEF IndexOf
  <2>2. at \subseteq Nat
    OBVIOUS
  <2>3. \E i \in at : \A j \in at : i <= j
    <3>. HIDE DEF at
    <3>. QED
      BY <1>2, <2>2, LeastNatural
  <2>4. k \in at
    BY <2>3
  <2>. HIDE DEF k
  <2>a. k \in 0..Len(b) /\ StartsWith(Drop(b, k), p)
    BY <2>4
  <2>5. k \in 0..Len(b) /\ Len(p) <= Len(Drop(b, k))
    BY <2>a DEF StartsWith
  <2>6. Len(Drop(b, k)) = Len(b) - k /\ Len(b) \in Nat /\ Len(p) \in Nat
    BY <2>5, DropFacts, LenProperties
  <2>. QED
    BY <2>1, <2>5, <2>6, <2>a
<1>. QED
  BY <1>1, <1>2

\* The marks of three bytes, and the lines that begin with them
LEMMA MarkFacts ==
  ASSUME NEW c \in {"LF", "CR"}, NEW m \in {Dashes, Dots}
  PROVE  /\ m \in Seq(Byte) /\ Len(m) = 3
         /\ <<c>> \o m \in Seq(Byte) /\ Len(<<c>> \o m) = 4
<1>1. {"LF", "CR", "-", "."} \subseteq Byte
  BY DEF Byte, White, LineBreak, Indicator
<1>2. ASSUME m = Dashes PROVE m \in Seq(Byte) /\ Len(m) = 3
  <2>1. <<"-", "-", "-">> \in Seq(Byte) /\ Len(<<"-", "-", "-">>) = 3
    BY <1>1
  <2>2. m = <<"-", "-", "-">>
    BY <1>2 DEF Dashes
  <2>. QED
    BY <2>1, <2>2
<1>3. ASSUME m = Dots PROVE m \in Seq(Byte) /\ Len(m) = 3
  <2>1. <<".", ".", ".">> \in Seq(Byte) /\ Len(<<".", ".", ".">>) = 3
    BY <1>1
  <2>2. m = <<".", ".", ".">>
    BY <1>3 DEF Dots
  <2>. QED
    BY <2>1, <2>2
<1>4. m \in Seq(Byte) /\ Len(m) = 3
  BY <1>2, <1>3
<1>5. <<c>> \in Seq(Byte) /\ Len(<<c>>) = 1
  BY <1>1
<1>6. <<c>> \o m \in Seq(Byte) /\ Len(<<c>> \o m) = Len(<<c>>) + Len(m)
  BY <1>4, <1>5, ConcatProperties
<1>. QED
  BY <1>4, <1>5, <1>6

\* A separator at the beginning of a line is found with its line break and three bytes.
LEMMA LineIndexFacts ==
  ASSUME NEW b \in Seq(Byte), NEW m \in {Dashes, Dots}
  PROVE  \/ LineIndex(b, m) = -1
         \/ LineIndex(b, m) \in 0..Len(b) /\ LineIndex(b, m) + 4 <= Len(b)
<1>1. \A c \in {"LF", "CR"} : <<c>> \o m \in Seq(Byte) /\ Len(<<c>> \o m) = 4
  BY MarkFacts
<1>2. \A c \in {"LF", "CR"} :
        \/ IndexOf(b, <<c>> \o m) = -1
        \/ /\ IndexOf(b, <<c>> \o m) \in 0..Len(b)
           /\ IndexOf(b, <<c>> \o m) + 4 <= Len(b)
  BY <1>1, IndexOfFacts
<1>3. LineIndex(b, m) = IndexOf(b, <<"LF">> \o m) \/ LineIndex(b, m) = IndexOf(b, <<"CR">> \o m)
  BY DEF LineIndex
<1>. QED
  BY <1>2, <1>3

\* A separator ends within the text.
LEMMA StartFacts ==
  ASSUME NEW b \in Seq(Byte)
  PROVE  documentStartIndex(b) \in 0..Len(b)
<1>1. Len(b) \in Nat /\ Len(Dashes) = 3
  BY LenProperties, MarkFacts
<1>2. LineIndex(b, Dashes) = -1 \/ LineIndex(b, Dashes) + 4 \in 0..Len(b)
  BY <1>1, LineIndexFacts
<1>3. StartsWith(b, Dashes) => 3 \in 0..Len(b)
  BY <1>1 DEF StartsWith
<1>. QED
  BY <1>1, <1>2, <1>3 DEF documentStartIndex

\* The four bytes of an end marker lie within the text, unless the text begins with it.
LEMMA EndFacts ==
  ASSUME NEW b \in Seq(Byte)
  PROVE  \/ documentEndIndex(b) = -1
         \/ /\ documentEndIndex(b) \in 0..Len(b)
            /\ documentEndIndex(b) + 4 <= Len(b) \/ documentEndIndex(b) = 0
<1>1. Len(b) \in Nat /\ <<"LF">> \o Dots \in Seq(Byte) /\ Len(<<"LF">> \o Dots) = 4
  BY LenProperties, MarkFacts
<1>. DEFINE k == IndexOf(b, <<"LF">> \o Dots)
<1>2. k = -1 \/ (k \in 0..Len(b) /\ k + 4 <= Len(b))
  BY <1>1, IndexOfFacts
<1>3. LineIndex(b, Dots) = -1 \/ (LineIndex(b, Dots) \in 0..Len(b) /\ LineIndex(b, Dots) + 4 <= Len(b))
  BY LineIndexFacts
<1>. HIDE DEF k
<1>4. documentEndIndex(b) \in {k, 0, LineIndex(b, Dots)}
  BY <1>2 DEF documentEndIndex, k
<1>. QED
  BY <1>1, <1>2, <1>3, <1>4
=============================================================================
