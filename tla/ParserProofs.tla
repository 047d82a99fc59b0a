----------------------------- MODULE ParserProofs -----------------------------
(***************************************************************************)
(* Theorems about Parser, for any texts and any types of targets, whatever *)
(* becomes of the literals: the document need not be one that checkValid   *)
(* accepts.  A move of decodeState over its data keeps the scanner sound   *)
(* and the read index in place, and never goes back, but for skip.  When   *)
(* the target is an empty interface nothing is skipped, and then the bytes *)
(* that have been read pay for the calls that are running and for what     *)
(* they have collected.                                                    *)
(***************************************************************************)
EXTENDS Parser, ScannerFacts

\* A decodeState between two moves: the scanner is sound, and the read index is in
\* the text or one behind it.
Scans(e) ==
  /\ e \in [data : Seq(Byte), off : Nat, opcode : Opcode, scan : ScannerRecord,
            anchors : {e.anchors}, savedError : {e.savedError}]
  /\ e.off <= Len(e.data) + 1
  /\ Sound(e.scan)

\* A literal begins with a byte that is no ':'.  A block literal that has ended keeps
\* its opcode; a ':' that ends it is an error, or begins another line of a literal.
Stuck      == {"Error", "InMultiline"}
NoColon(s) == s.lastc # ":" \/ s.step \in Stuck
Fresh(e)   == e.opcode = "BeginLiteral" => NoColon(e.scan)

\* Behind the text nothing but its end can be met.
Good(e) ==
  /\ Scans(e)
  /\ e.off > Len(e.data) \/ Len(e.data) = 0 => e.opcode \in {"End", "Error"}
  /\ Fresh(e)

\* The moves leave the rest alone; e is reached from b without going back.
Same(b, e)  == e.data = b.data /\ e.anchors = b.anchors /\ e.savedError = b.savedError
Ahead(b, e) == Same(b, e) /\ e.off >= b.off

USE DEF Same

-----------------------------------------------------------------------------
(***************************************************************************)
(* One byte.                                                               *)
(***************************************************************************)
\* What one call s.step(s, c) does to the last byte and to the stack.  A literal begins
\* at a byte that is neither a space nor a ':'.  At a ':' the stack gets lower only where
\* the scanner is left with an error or in a block literal, at a space only for a new
\* document.
Follows(s, c, t) ==
  /\ t.lastc \in {s.lastc, "other"}
  /\ t.op = "BeginLiteral" => c \notin White \cup {":"}
  /\ Len(t.states) < Len(s.states) =>
       /\ c = ":" => t.step \in {"Error", "InMultiline"}
       /\ c \in White => t.lastc = "other"

\* A scanner on the way from s, before it is told what comes next
Like(s, u) == u \in ScannerRecord /\ u.lastc = s.lastc /\ Len(u.states) >= Len(s.states)

\* The moves that only name the step and the opcode
LEMMA MovesFollow ==
  ASSUME NEW s \in ScannerRecord, NEW u, Like(s, u), NEW c
  PROVE  /\ Follows(s, c, Fail(u))
         /\ Follows(s, c, [u EXCEPT !.err = TRUE, !.op = "Error"])
         /\ \A op : op # "BeginLiteral" \/ c \notin White \cup {":"} =>
              /\ Follows(s, c, Stay(u, op)) /\ Follows(s, c, EndLine(u, op))
              /\ \A step : Follows(s, c, Goto(u, step, op))
              /\ \A n : Follows(s, c, [u EXCEPT !.idn = n, !.op = op])
<1>1. /\ u \in ScannerRecord /\ u.lastc = s.lastc /\ Len(u.states) \in Nat /\ Len(s.states) \in Nat
      /\ ~(Len(u.states) < Len(s.states))
  BY LenProperties DEF Like, ScannerRecord
<1>2. ASSUME NEW t, t.lastc = u.lastc, t.states = u.states, NEW op, t.op = op,
             op # "BeginLiteral" \/ c \notin White \cup {":"}
      PROVE  Follows(s, c, t)
  BY <1>1, <1>2 DEF Follows
<1>3. Follows(s, c, Fail(u))
  <2>1. /\ Fail(u).lastc = u.lastc /\ Fail(u).states = u.states /\ Fail(u).op = "Error"
    BY <1>1 DEF Fail, ScannerRecord
  <2>. QED
    BY <1>2, <2>1
<1>4. Follows(s, c, [u EXCEPT !.err = TRUE, !.op = "Error"])
  <2>. DEFINE t == [u EXCEPT !.err = TRUE, !.op = "Error"]
  <2>1. t.lastc = u.lastc /\ t.states = u.states /\ t.op = "Error"
    BY <1>1 DEF ScannerRecord
  <2>. HIDE DEF t
  <2>. QED
    BY <1>2, <2>1 DEF t
<1>5. ASSUME NEW op, op # "BeginLiteral" \/ c \notin White \cup {":"}
      PROVE  /\ Follows(s, c, Stay(u, op)) /\ Follows(s, c, EndLine(u, op))
             /\ \A step : Follows(s, c, Goto(u, step, op))
             /\ \A n : Follows(s, c, [u EXCEPT !.idn = n, !.op = op])
  <2>1. Follows(s, c, Stay(u, op))
    <3>1. Stay(u, op).lastc = u.lastc /\ Stay(u, op).states = u.states /\ Stay(u, op).op = op
      BY <1>1 DEF Stay, ScannerRecord
    <3>. QED
      BY <1>2, <1>5, <3>1
  <2>2. Follows(s, c, EndLine(u, op))
    <3>1. /\ EndLine(u, op).lastc = u.lastc /\ EndLine(u, op).states = u.states
          /\ EndLine(u, op).op = op
      BY <1>1 DEF EndLine, ScannerRecord
    <3>. QED
      BY <1>2, <1>5, <3>1
  <2>3. ASSUME NEW step PROVE Follows(s, c, Goto(u, step, op))
    <3>1. /\ Goto(u, step, op).lastc = u.lastc /\ Goto(u, step, op).states = u.states
          /\ Goto(u, step, op).op = op
      BY <1>1 DEF Goto, ScannerRecord
    <3>. QED
      BY <1>2, <1>5, <3>1
  <2>4. ASSUME NEW n PROVE Follows(s, c, [u EXCEPT !.idn = n, !.op = op])
    <3>. DEFINE t == [u EXCEPT !.idn = n, !.op = op]
    <3>1. t.lastc = u.lastc /\ t.states = u.states /\ t.op = op
      BY <1>1 DEF ScannerRecord
    <3>. HIDE DEF t
    <3>. QED
      BY <1>2, <1>5, <3>1 DEF t
  <2>. QED
    BY <2>1, <2>2, <2>3, <2>4
<1>. QED
  BY <1>3, <1>4, <1>5

\* Changes of the step, of sameLine and of the frame on top are on the way.
LEMMA LikeChanges ==
  ASSUME NEW s \in ScannerRecord, NEW u, Like(s, u)
  PROVE  /\ \A step \in Steps : Like(s, [u EXCEPT !.step = step])
         /\ \A step \in Steps, b \in BOOLEAN : Like(s, [u EXCEPT !.step = step, !.endTop = b])
         /\ Like(s, [u EXCEPT !.sameLine = TRUE])
         /\ Like(s, [u EXCEPT !.hex = 0])
         /\ Like(s, Toggle(u))
         /\ u.states # <<>> => Like(s, [u EXCEPT !.states[Len(u.states)] = "FlowObjectValue"])
<1>1. u \in ScannerRecord /\ u.lastc = s.lastc /\ u.states \in Seq(Frame) /\ Len(u.states) >= Len(s.states)
  BY DEF Like, ScannerRecord
<1>2. ASSUME u.states # <<>>, NEW f \in Frame
      PROVE  Like(s, [u EXCEPT !.states[Len(u.states)] = f])
  <2>. DEFINE q == [u.states EXCEPT ![Len(u.states)] = f]
  <2>1. Len(u.states) \in 1..Len(u.states)
    BY <1>1, <1>2
  <2>2. q \in Seq(Frame) /\ Len(q) = Len(u.states)
    BY <1>1, <2>1, ExceptSeq
  <2>3. [u EXCEPT !.states[Len(u.states)] = f] = [u EXCEPT !.states = q]
    BY <1>1 DEF ScannerRecord
  <2>. HIDE DEF q
  <2>4. [u EXCEPT !.states = q] \in ScannerRecord
    BY <1>1, <2>2 DEF ScannerRecord
  <2>5. [u EXCEPT !.states = q].lastc = u.lastc /\ [u EXCEPT !.states = q].states = q
    BY <1>1 DEF ScannerRecord
  <2>. QED
    BY <1>1, <2>2, <2>3, <2>4, <2>5 DEF Like
<1>3. Like(s, Toggle(u))
  <2>1. CASE LastState(u) \in DOMAIN Toggled
    <3>1. u.states # <<>>
      BY <2>1 DEF LastState, Toggled
    <3>2. Toggled[LastState(u)] \in Frame
      BY <2>1 DEF Toggled, Frame, ObjectFrame, FlowFrame
    <3>3. LastState(u) = u.states[Len(u.states)]
      BY <3>1 DEF LastState
    <3>4. Toggle(u) = [u EXCEPT !.states[Len(u.states)] = Toggled[LastState(u)]]
      BY <1>1, <2>1, <3>3 DEF Toggle, ScannerRecord
    <3>. QED
      BY <1>2, <3>1, <3>2, <3>4
  <2>2. CASE LastState(u) \notin DOMAIN Toggled
    BY <2>2 DEF Toggle
  <2>. QED
    BY <2>1, <2>2
<1>4. \A step \in Steps : Like(s, [u EXCEPT !.step = step])
  BY <1>1 DEF Like, ScannerRecord
<1>5. \A step \in Steps, b \in BOOLEAN : Like(s, [u EXCEPT !.step = step, !.endTop = b])
  BY <1>1 DEF Like, ScannerRecord
<1>6. Like(s, [u EXCEPT !.sameLine = TRUE])
  BY <1>1 DEF Like, ScannerRecord
<1>7. Like(s, [u EXCEPT !.hex = 0])
  <2>. DEFINE t == [u EXCEPT !.hex = 0]
  <2>1. DOMAIN u = DOMAIN s /\ 0 \in 0..8
    BY <1>1 DEF ScannerRecord
  <2>2. t \in ScannerRecord
    <3>. DEFINE H == 0..8
    <3>. HIDE DEF H
    <3>1. ScannerRecord =
            [step : Steps, endTop : BOOLEAN, states : Seq(Frame), indents : Seq(Nat),
             idn : Nat, lastc : LastC, sameLine : BOOLEAN, err : BOOLEAN, hex : H, op : Opcode]
      BY DEF H, ScannerRecord
    <3>. QED
      BY <1>1, <2>1, <3>1 DEF H
  <2>3. t.lastc = u.lastc /\ t.states = u.states
    BY <1>1 DEF ScannerRecord
  <2>. QED
    BY <1>1, <2>2, <2>3 DEF Like
<1>. QED
  BY <1>2, <1>3, <1>4, <1>5, <1>6, <1>7 DEF Frame, FlowFrame

\* A frame that is pushed is on the way too.
LEMMA PushLike ==
  ASSUME NEW s \in ScannerRecord, NEW u, Like(s, u), NEW frame \in Frame, NEW op \in Opcode
  PROVE  LET t == PushState(u, frame, op) IN Like(s, t) /\ t.op \in {op, "Error"}
<1>. DEFINE ind == IF frame = "MultiLineValue" /\ LastState(u) # "ArrayValue" THEN u.idn + 1 ELSE u.idn
            st  == Append(u.states, frame)
            in  == Append(u.indents, ind)
            t   == [u EXCEPT !.states = st, !.indents = in, !.op = op]
<1>1. /\ u \in ScannerRecord /\ u.lastc = s.lastc /\ Len(u.states) >= Len(s.states)
      /\ u.states \in Seq(Frame) /\ u.indents \in Seq(Nat) /\ u.idn \in Nat
  BY DEF Like, ScannerRecord
<1>2. ind \in Nat
  BY <1>1
<1>. HIDE DEF ind
<1>3. st \in Seq(Frame) /\ Len(st) = Len(u.states) + 1 /\ in \in Seq(Nat)
  BY <1>1, <1>2
<1>4. PushState(u, frame, op) = IF Len(t.states) <= MaxNestingDepth THEN t ELSE Fail(t)
  BY DEF PushState, ind
<1>5. Len(u.states) \in Nat /\ Len(s.states) \in Nat
  BY <1>1 DEF ScannerRecord
<1>. HIDE DEF st, in
<1>6. t \in ScannerRecord /\ t.lastc = u.lastc /\ t.states = st /\ t.op = op
  BY <1>1, <1>3 DEF ScannerRecord
<1>7. Like(s, t)
  BY <1>1, <1>3, <1>5, <1>6 DEF Like
<1>. HIDE DEF t
<1>8. Like(s, Fail(t)) /\ Fail(t).op = "Error"
  <2>1. Fail(t) \in ScannerRecord
    BY <1>6 DEF Fail, ScannerRecord, Steps, Opcode
  <2>2. Fail(t).lastc = t.lastc /\ Fail(t).states = t.states /\ Fail(t).op = "Error"
    BY <1>6 DEF Fail, ScannerRecord
  <2>. QED
    BY <1>7, <2>1, <2>2 DEF Like
<1>. QED
  BY <1>4, <1>6, <1>7, <1>8

\* stateEndTop
LEMMA EndTopFollows ==
  ASSUME NEW s \in ScannerRecord, NEW u, Like(s, u), NEW c
  PROVE  Follows(s, c, EndTop(u, c))
<1>1. /\ \A n : Follows(s, c, [u EXCEPT !.idn = n, !.op = "End"])
      /\ \A step : Follows(s, c, Goto(u, step, "Continue"))
  BY MovesFollow
<1>2. Follows(s, c, Stay(Fail(u), "End"))
  <2>1. Follows(s, c, Fail(u))
    BY MovesFollow
  <2>2. /\ Stay(Fail(u), "End").lastc = Fail(u).lastc /\ Stay(Fail(u), "End").states = Fail(u).states
        /\ Stay(Fail(u), "End").step = Fail(u).step /\ Stay(Fail(u), "End").op = "End"
    BY DEF Stay, Fail, Like, ScannerRecord
  <2>. QED
    BY <2>1, <2>2 DEF Follows
<1>3. \/ EndTop(u, c) = [u EXCEPT !.idn = u.idn + 1, !.op = "End"]
      \/ EndTop(u, c) = [u EXCEPT !.idn = 0, !.op = "End"]
      \/ EndTop(u, c) \in {Goto(u, "NewDoc1", "Continue"), Goto(u, "EndYaml1", "Continue")}
      \/ EndTop(u, c) = Stay(Fail(u), "End")
  BY DEF EndTop
<1>. QED
  BY <1>1, <1>2, <1>3

\* stateBeginValue
LEMMA BeginValueFollows ==
  ASSUME NEW s \in ScannerRecord, NEW u, Like(s, u), NEW c
  PROVE  Follows(s, c, BeginValue(u, c))
<1>. DEFINE a == [u EXCEPT !.step = "EndTop"]
            e == [u EXCEPT !.step = "BeginValueOrEmpty"]
            m == [u EXCEPT !.step = "BeginMultilineChomp"]
<1>1. Like(s, a) /\ Like(s, e) /\ Like(s, m)
  BY LikeChanges DEF Steps
<1>2. /\ {"FlowObjectKey", "FlowArrayValue", "MultiLineValue"} \subseteq Frame
      /\ {"BeginObject", "BeginArray", "BeginLiteral"} \subseteq Opcode
  BY DEF Frame, FlowFrame, Opcode
<1>. HIDE DEF a, e, m
<1>3. Follows(s, c, EndTop(a, c))
  BY <1>1, EndTopFollows
<1>4. ASSUME NEW t, Like(s, t), t.op = "BeginLiteral" => c \notin White \cup {":"}
      PROVE  Follows(s, c, t)
  <2>1. Len(t.states) \in Nat /\ Len(s.states) \in Nat
    BY <1>4 DEF Like, ScannerRecord
  <2>. QED
    BY <1>4, <2>1 DEF Follows, Like
<1>5. /\ Follows(s, c, PushState(e, "FlowObjectKey", "BeginObject"))
      /\ Follows(s, c, PushState(e, "FlowArrayValue", "BeginArray"))
      /\ c \in {"|", ">"} => Follows(s, c, PushState(m, "MultiLineValue", "BeginLiteral"))
  <2>1. /\ Like(s, PushState(e, "FlowObjectKey", "BeginObject"))
        /\ PushState(e, "FlowObjectKey", "BeginObject").op \in {"BeginObject", "Error"}
    BY <1>1, <1>2, PushLike
  <2>2. /\ Like(s, PushState(e, "FlowArrayValue", "BeginArray"))
        /\ PushState(e, "FlowArrayValue", "BeginArray").op \in {"BeginArray", "Error"}
    BY <1>1, <1>2, PushLike
  <2>3. Like(s, PushState(m, "MultiLineValue", "BeginLiteral"))
    BY <1>1, <1>2, PushLike
  <2>4. c \in {"|", ">"} => c \notin White \cup {":"}
    BY DEF White, Space, LineBreak
  <2>. QED
    BY <1>4, <2>1, <2>2, <2>3, <2>4
<1>6. /\ Follows(s, c, EndLine(u, "SkipSpace")) /\ Follows(s, c, Fail(u))
      /\ Follows(s, c, Goto(u, "InDirective", "Continue"))
      /\ Follows(s, c, Goto(u, "BeginComment", "SkipSpace"))
  BY MovesFollow
<1>7. ASSUME c \in PlainHead \cup {"dq", "sq", "-", "&", "*", "!", ".", "<"}
      PROVE  \A step : Follows(s, c, Goto(u, step, "BeginLiteral"))
  <2>1. c \notin White \cup {":"}
    BY <1>7 DEF PlainHead, Lower, Upper, Digit, White, Space, LineBreak
  <2>. QED
    BY <2>1, MovesFollow
<1>. QED
  BY <1>3, <1>5, <1>6, <1>7 DEF BeginValue, a, e, m

\* pushObjectState and pushArrayState
LEMMA PushesFollow ==
  ASSUME NEW s \in ScannerRecord, NEW u, Like(s, u), NEW c
  PROVE  Follows(s, c, PushObjectState(u, c)) /\ Follows(s, c, PushArrayState(u))
<1>. DEFINE t == [u EXCEPT !.step = "BeginValueOrEmpty"]
            b == [t EXCEPT !.sameLine = TRUE]
            o == PushState(b, "ObjectValue", "ObjectValue")
            g == Toggle(t)
<1>1. Like(s, t)
  BY LikeChanges DEF Steps
<1>2. /\ {"FlowObjectKey", "FlowArrayValue", "ObjectValue", "ArrayValue"} \subseteq Frame
      /\ {"BeginObject", "BeginArray", "ObjectValue"} \subseteq Opcode
  BY DEF Frame, FlowFrame, ObjectFrame, Opcode
<1>. HIDE DEF t
<1>3. Like(s, b) /\ Like(s, g)
  BY <1>1, LikeChanges
<1>. HIDE DEF b, g
<1>4. Like(s, o)
  BY <1>2, <1>3, PushLike
<1>. HIDE DEF o
<1>5. Follows(s, c, AfterKey(o, c)) /\ Follows(s, c, AfterKey(g, c))
  BY <1>3, <1>4, MovesFollow DEF AfterKey
<1>6. ASSUME NEW v, Like(s, v), NEW frame \in Frame, NEW op \in Opcode, op # "BeginLiteral"
      PROVE  Follows(s, c, PushState(v, frame, op))
  <2>. DEFINE w == PushState(v, frame, op)
  <2>1. Like(s, w) /\ w.op # "BeginLiteral"
    BY <1>6, PushLike
  <2>. HIDE DEF w
  <2>2. Len(w.states) \in Nat /\ Len(s.states) \in Nat
    BY <2>1 DEF Like, ScannerRecord
  <2>. QED
    BY <2>1, <2>2 DEF Follows, Like, w
<1>7. Follows(s, c, Fail(t)) /\ Follows(s, c, Fail(u))
  BY <1>1, MovesFollow
<1>8. Follows(s, c, PushObjectState(u, c))
  BY <1>2, <1>3, <1>5, <1>6, <1>7 DEF PushObjectState, t, b, o, g
<1>. DEFINE y == [u EXCEPT !.idn = u.idn + 2]
            z == PushState(y, "ArrayValue", "ArrayValue")
<1>9. Like(s, y)
  <2>1. u \in ScannerRecord /\ u.idn + 2 \in Nat
    BY DEF Like, ScannerRecord
  <2>2. y \in ScannerRecord /\ y.lastc = u.lastc /\ y.states = u.states
    BY <2>1 DEF ScannerRecord
  <2>. HIDE DEF y
  <2>. QED
    BY <2>2 DEF Like
<1>10. PushArrayState(u) \in {Fail(u), Fail(y), Goto(y, "BeginValueOrEmpty", "SkipSpace"),
                             Goto(z, "BeginValueOrEmpty", "SkipSpace")}
  BY DEF PushArrayState
<1>. HIDE DEF y
<1>11. Like(s, z)
  <2>1. "ArrayValue" \in Frame /\ "ArrayValue" \in Opcode
    BY DEF Frame, Opcode
  <2>. QED
    BY <1>9, <2>1, PushLike
<1>. HIDE DEF z
<1>12. /\ Follows(s, c, Fail(u)) /\ Follows(s, c, Fail(y))
       /\ Follows(s, c, Goto(y, "BeginValueOrEmpty", "SkipSpace"))
       /\ Follows(s, c, Goto(z, "BeginValueOrEmpty", "SkipSpace"))
  BY <1>9, <1>11, MovesFollow
<1>. QED
  BY <1>8, <1>10, <1>12

\* What leaves the last byte and the stack alone, or is no pop
LEMMA KeptFollows ==
  ASSUME NEW s \in ScannerRecord, NEW c, NEW t, t.lastc = s.lastc, t.states = s.states,
         t.op = "BeginLiteral" => c \notin White \cup {":"}
  PROVE  Follows(s, c, t)
<1>1. Len(s.states) \in Nat
  BY LenProperties DEF ScannerRecord
<1>. QED
  BY <1>1 DEF Follows

\* popState is called at a closing bracket.
LEMMA PopFollows ==
  ASSUME NEW s \in ScannerRecord, NEW u, Like(s, u), NEW c \in {"}", "]"},
         NEW op \in {"EndObject", "EndArray"}
  PROVE  Follows(s, c, PopState(u, op))
<1>. DEFINE t == PopState(u, op)
<1>1. u \in ScannerRecord /\ u.lastc = s.lastc
  BY DEF Like
<1>2. t.lastc = u.lastc /\ t.op = op
  BY <1>1 DEF PopState, KeepFrames, Goto, ScannerRecord
<1>3. c \notin White \cup {":"}
  BY DEF White, Space, LineBreak
<1>. QED
  BY <1>1, <1>2, <1>3 DEF Follows

\* stateEndValue
LEMMA EndValueInFollows ==
  ASSUME NEW s \in ScannerRecord, NEW u, Like(s, u), NEW c
  PROVE  Follows(s, c, EndValueIn(u, c))
<1>. DEFINE g == Toggle(u)
<1>1. Like(s, g)
  BY LikeChanges
<1>. HIDE DEF g
<1>2. /\ \A op \in {"ObjectKey", "ObjectValue", "ArrayValue", "SkipSpace"} :
           /\ Follows(s, c, EndLine(u, op)) /\ Follows(s, c, EndLine(g, op))
           /\ \A step : Follows(s, c, Goto(u, step, op)) /\ Follows(s, c, Goto(g, step, op))
      /\ Follows(s, c, Fail(u))
  BY <1>1, MovesFollow
<1>3. Follows(s, c, BeginValue(g, c))
  BY <1>1, BeginValueFollows
<1>4. c = "}" => Follows(s, c, PopState(u, "EndObject"))
  BY PopFollows
<1>5. c = "]" => Follows(s, c, PopState(u, "EndArray"))
  BY PopFollows
<1>. QED
  BY <1>2, <1>3, <1>4, <1>5 DEF EndValueIn, g

\* stateEndValue, in a collection or outside of all
LEMMA EndValueFollows ==
  ASSUME NEW s \in ScannerRecord, NEW u, Like(s, u), NEW c
  PROVE  Follows(s, c, EndValue(u, c))
<1>. DEFINE a == [u EXCEPT !.step = "EndTop", !.endTop = TRUE]
<1>1. Like(s, a)
  BY LikeChanges DEF Steps
<1>. HIDE DEF a
<1>2. Follows(s, c, EndTop(a, c))
  BY <1>1, EndTopFollows
<1>3. Follows(s, c, PushObjectState(u, c)) /\ Follows(s, c, EndValueIn(u, c))
  BY PushesFollow, EndValueInFollows
<1>4. \A step : Follows(s, c, Goto(u, step, "SkipSpace"))
  BY MovesFollow
<1>. QED
  BY <1>2, <1>3, <1>4 DEF EndValue, a

\* stateBeginValueOrEmpty
LEMMA BeginValueOrEmptyFollows ==
  ASSUME NEW s \in ScannerRecord, NEW u, Like(s, u), NEW c
  PROVE  Follows(s, c, BeginValueOrEmpty(u, c))
<1>. DEFINE a == [u EXCEPT !.states[Len(u.states)] = "FlowObjectValue"]
<1>1. LastState(u) \in {"FlowObjectKey", "FlowObjectValue"} => u.states # <<>>
  BY DEF LastState
<1>2. u.states # <<>> => Like(s, a)
  BY LikeChanges
<1>. HIDE DEF a
<1>3. LastState(u) \in {"FlowObjectKey", "FlowObjectValue"} => Follows(s, c, EndValue(a, c))
  BY <1>1, <1>2, EndValueFollows
<1>4. /\ Follows(s, c, Stay(u, "SkipSpace")) /\ Follows(s, c, EndLine(u, "SkipSpace"))
      /\ Follows(s, c, Fail(u))
  BY MovesFollow
<1>5. Follows(s, c, EndValue(u, c)) /\ Follows(s, c, BeginValue(u, c))
  BY EndValueFollows, BeginValueFollows
<1>. QED
  BY <1>3, <1>4, <1>5 DEF BeginValueOrEmpty, a

\* stateInStringUnq and the state functions that end in it
LEMMA PlainFollows ==
  ASSUME NEW s \in ScannerRecord, NEW u, Like(s, u), NEW c
  PROVE  /\ Follows(s, c, InStringUnq(u, c)) /\ Follows(s, c, InStringUnqOrComment(u, c))
         /\ Follows(s, c, KeyOrUnq(u, c)) /\ Follows(s, c, DotBegin(u, c))
<1>1. ASSUME NEW w, Like(s, w) PROVE Follows(s, c, InStringUnq(w, c))
  <2>1. /\ Follows(s, c, Fail(w)) /\ Follows(s, c, Stay(w, "Continue"))
        /\ \A step : Follows(s, c, Goto(w, step, "Continue"))
    BY <1>1, MovesFollow
  <2>2. Follows(s, c, EndValue(w, c))
    BY <1>1, EndValueFollows
  <2>. QED
    BY <2>1, <2>2 DEF InStringUnq
<1>. DEFINE a == [u EXCEPT !.step = "InStringUnq"]
<1>2. Like(s, a)
  BY LikeChanges DEF Steps
<1>. HIDE DEF a
<1>3. Follows(s, c, InStringUnq(u, c)) /\ Follows(s, c, InStringUnq(a, c))
  BY <1>1, <1>2
<1>4. /\ Follows(s, c, Stay(u, "Continue"))
      /\ \A step : Follows(s, c, Goto(u, step, "SkipSpace")) /\ Follows(s, c, Goto(u, step, "Continue"))
  BY MovesFollow
<1>5. Follows(s, c, PushObjectState(u, c))
  BY PushesFollow
<1>. QED
  BY <1>3, <1>4, <1>5 DEF InStringUnqOrComment, KeyOrUnq, DotBegin, a

\* The state functions that mark something
LEMMA MarkFollows ==
  ASSUME NEW s \in ScannerRecord, NEW c
  PROVE  /\ Follows(s, c, Hyphen(s, c)) /\ Follows(s, c, BeginArrayValueS(s, c))
         /\ Follows(s, c, InAlias(s, c)) /\ Follows(s, c, InStringSq2(s, c))
<1>1. Like(s, s)
  <2>1. Len(s.states) \in Nat
    BY LenProperties DEF ScannerRecord
  <2>. QED
    BY <2>1 DEF Like
<1>2. Follows(s, c, PushArrayState(s)) /\ Follows(s, c, EndValue(s, c))
  BY <1>1, PushesFollow, EndValueFollows
<1>3. /\ Follows(s, c, Fail(s)) /\ Follows(s, c, Stay(s, "Continue"))
      /\ \A step : Follows(s, c, Goto(s, step, "SkipSpace")) /\ Follows(s, c, Goto(s, step, "Continue"))
  BY <1>1, MovesFollow
<1>. QED
  BY <1>2, <1>3 DEF Hyphen, BeginArrayValueS, InAlias, InStringSq2

\* Escapes
LEMMA EscapeFollows ==
  ASSUME NEW s \in ScannerRecord, NEW c
  PROVE  /\ Follows(s, c, InStringEsc(s, c)) /\ Follows(s, c, InStringHex(s, c))
         /\ Follows(s, c, InString(s, c))
<1>1. Like(s, s)
  <2>1. Len(s.states) \in Nat
    BY LenProperties DEF ScannerRecord
  <2>. QED
    BY <2>1 DEF Like
<1>2. /\ Follows(s, c, Fail(s)) /\ Follows(s, c, Stay(s, "Continue"))
      /\ \A step : Follows(s, c, Goto(s, step, "Continue"))
  BY <1>1, MovesFollow
<1>3. ASSUME NEW n PROVE Follows(s, c, [Goto(s, "InStringHex", "Continue") EXCEPT !.hex = n])
  <2>. DEFINE t == [Goto(s, "InStringHex", "Continue") EXCEPT !.hex = n]
  <2>1. t.lastc = s.lastc /\ t.states = s.states /\ t.op = "Continue"
    BY DEF Goto, ScannerRecord
  <2>. HIDE DEF t
  <2>. QED
    BY <2>1, KeptFollows DEF t
<1>4. Follows(s, c, InStringEsc(s, c))
  BY <1>2, <1>3 DEF InStringEsc
<1>5. Follows(s, c, InStringHex(s, c))
  <2>. DEFINE t == InStringHex(s, c)
  <2>1. t.lastc = s.lastc /\ t.states = s.states /\ t.op \in {"Continue", "Error"}
    BY DEF InStringHex, Fail, ScannerRecord
  <2>. HIDE DEF t
  <2>. QED
    BY <2>1, KeptFollows DEF t
<1>6. Follows(s, c, InString(s, c))
  BY <1>2, <1>4 DEF InString
<1>. QED
  BY <1>4, <1>5, <1>6

\* A ':' cannot begin a value.
LEMMA NoColonValue ==
  ASSUME NEW u \in ScannerRecord
  PROVE  BeginValue(u, ":").step = "Error"
<1>. DEFINE a == [u EXCEPT !.step = "EndTop"]
<1>1. ":" \notin White /\ ":" \notin PlainHead
  BY DEF White, Space, LineBreak, PlainHead, Lower, Upper, Digit
<1>2. a \in ScannerRecord
  BY DEF ScannerRecord, Steps
<1>3. EndTop(a, ":") = Stay(Fail(a), "End")
  BY <1>1 DEF EndTop, White
<1>4. BeginValue(u, ":") = IF u.endTop THEN EndTop(a, ":") ELSE Fail(u)
  <2>1. u.endTop \in BOOLEAN
    BY DEF ScannerRecord
  <2>. HIDE DEF a
  <2>. QED
    BY <1>1, <2>1 DEF BeginValue, White, a
<1>. HIDE DEF a
<1>5. Stay(Fail(a), "End").step = "Error" /\ Fail(u).step = "Error"
  BY <1>2 DEF Stay, Fail, ScannerRecord
<1>. QED
  BY <1>3, <1>4, <1>5

\* stateBeginLine
LEMMA BeginLineFollows ==
  ASSUME NEW s, Sound(s), s.step = "BeginLine", NEW c
  PROVE  Follows(s, c, BeginLine(s, c))
<1>. DEFINE u == Unwind(s, c)
            g == Toggle(u)
<1>1. s \in ScannerRecord /\ Len(s.states) \in Nat /\ s.lastc = s.lastc /\ s.idn \in Nat
  BY LenProperties DEF Sound, Frames, Stacks, ScannerRecord
<1>2. Like(s, s)
  BY <1>1 DEF Like
<1>3. u \in ScannerRecord
  BY UnwindFrames DEF Frames, Stacks
<1>4. u.lastc = s.lastc
  <2>. DEFINE k == KeepFrames(s, FramesKept(s, c))
  <2>1. u = s \/ u = Toggle(k)
    BY DEF Unwind
  <2>2. k \in ScannerRecord /\ k.lastc = s.lastc
    <3>1. Stacks(s) /\ FramesKept(s, c) \in 0..Len(s.states)
      BY FramesKeptExists DEF Sound, Frames
    <3>2. Stacks(k)
      BY <3>1, KeepStacks
    <3>3. k.lastc = s.lastc
      BY <1>1 DEF KeepFrames, ScannerRecord
    <3>. QED
      BY <3>2, <3>3 DEF Stacks
  <2>. HIDE DEF k
  <2>3. Toggle(k).lastc = k.lastc
    <3>1. Toggle(k) = [k EXCEPT !.states = Toggle(k).states]
      BY <2>2, EndTopToggled
    <3>. QED
      BY <2>2, <3>1 DEF ScannerRecord
  <2>. QED
    BY <2>1, <2>2, <2>3
<1>. HIDE DEF u
<1>5. Like(u, u)
  BY <1>3, LenProperties DEF Like, ScannerRecord
<1>6. Like(u, g)
  BY <1>5, LikeChanges, <1>3
<1>. HIDE DEF g
<1>7. Follows(u, c, BeginLineIn(u, c)) /\ Follows(u, c, Fail(u))
  <2>1. Follows(u, c, BeginValue(u, c)) /\ Follows(u, c, BeginValue(g, c))
    BY <1>3, <1>5, <1>6, BeginValueFollows
  <2>2. /\ Follows(u, c, Fail(u))
        /\ \A step : Follows(u, c, Goto(u, step, "SkipSpace")) /\ Follows(u, c, Goto(u, step, "Continue"))
    BY <1>3, <1>5, MovesFollow
  <2>3. c = "-" => Follows(u, c, Goto(u, "BeginArrayValueS", "BeginLiteral"))
    <3>1. "-" \notin White \cup {":"}
      BY DEF White, Space, LineBreak
    <3>. QED
      BY <1>3, <1>5, <3>1, MovesFollow
  <2>. QED
    BY <2>1, <2>2, <2>3 DEF BeginLineIn, g
<1>8. c = ":" => /\ BeginLineIn(u, c).step \in {"Error", "InMultiline"}
                 /\ Fail(u).step = "Error"
  <2>1. g \in ScannerRecord
    BY <1>6 DEF Like
  <2>2. BeginValue(g, ":").step = "Error" /\ BeginValue(u, ":").step = "Error"
    BY <1>3, <2>1, NoColonValue
  <2>3. Fail(u).step = "Error" /\ Goto(u, "InMultiline", "Continue").step = "InMultiline"
    BY <1>3 DEF Fail, Goto, ScannerRecord
  <2>4. BeginLineIn(u, ":") \in {Fail(u), BeginValue(g, ":"), Goto(u, "InMultiline", "Continue"),
                                 BeginValue(u, ":")}
    BY DEF BeginLineIn, g
  <2>. QED
    BY <2>2, <2>3, <2>4
<1>9. ASSUME c \notin White, NEW t \in {BeginLineIn(u, c), Fail(u)}
      PROVE  Follows(s, c, t)
  <2>1. Follows(u, c, t) /\ (c = ":" => t.step \in {"Error", "InMultiline"})
    BY <1>7, <1>8, <1>9
  <2>. QED
    BY <1>4, <1>9, <2>1 DEF Follows
<1>10. /\ \A n : Follows(s, c, [s EXCEPT !.idn = n, !.op = "SkipSpace"])
       /\ \A step : Follows(s, c, Goto(s, step, "SkipSpace"))
  BY <1>1, <1>2, MovesFollow
<1>11. \/ BeginLine(s, c) = [s EXCEPT !.idn = 0, !.op = "SkipSpace"]
       \/ BeginLine(s, c) = [s EXCEPT !.idn = s.idn + 1, !.op = "SkipSpace"]
       \/ BeginLine(s, c) = Goto(s, "BeginComment", "SkipSpace")
       \/ c \notin White /\ BeginLine(s, c) \in {BeginLineIn(u, c), Fail(u)}
  BY DEF BeginLine, White, u
<1>. QED
  BY <1>9, <1>10, <1>11

\* The state functions at the end of a document
LEMMA SeparatorFollows ==
  ASSUME NEW s, Sound(s), NEW c
  PROVE  Follows(s, c, NewDoc3(s, c)) /\ Follows(s, c, EndYaml3(s, c))
<1>1. s \in ScannerRecord /\ Len(s.states) \in Nat
  BY LenProperties DEF Sound, Frames, Stacks, ScannerRecord
<1>2. Like(s, s)
  BY <1>1 DEF Like
<1>3. /\ Follows(s, c, Stay(s, "SkipSpace")) /\ Follows(s, c, Fail(s))
      /\ Follows(s, c, Goto(s, "BeginComment", "SkipSpace"))
  BY <1>1, <1>2, MovesFollow
<1>4. ASSUME NEW b, Like(s, b), b.states = s.states, NEW t, t \in ScannerRecord,
             t.lastc = s.lastc, t.states = s.states
      PROVE  Follows(s, c, EofWith(b, t))
  <2>1. Like(s, t)
    BY <1>1, <1>4 DEF Like
  <2>2. /\ Follows(s, c, Stay(b, "Error")) /\ Follows(s, c, Stay(b, "End"))
        /\ Follows(s, c, Stay(t, "Error")) /\ Follows(s, c, Stay(t, "End"))
        /\ Follows(s, c, [b EXCEPT !.err = TRUE, !.op = "Error"])
    BY <1>1, <1>4, <2>1, MovesFollow
  <2>. QED
    BY <2>2 DEF EofWith
<1>5. Follows(s, c, EndYaml3(s, c))
  <2>. DEFINE b == [s EXCEPT !.step = "EndYaml"]
              t == Stay(b, "End")
  <2>1. Like(s, b) /\ b.states = s.states /\ b \in ScannerRecord
    BY <1>1, <1>2, LikeChanges DEF Steps, ScannerRecord
  <2>2. t \in ScannerRecord /\ t.lastc = s.lastc /\ t.states = s.states
    BY <1>1 DEF Stay, ScannerRecord, Steps, Opcode
  <2>. HIDE DEF t
  <2>3. Follows(s, c, EofWith(b, t))
    <3>. HIDE DEF b
    <3>. QED
      BY <1>4, <2>1, <2>2
  <2>. QED
    BY <1>3, <2>3 DEF EndYaml3, t
<1>6. Follows(s, c, NewDoc3(s, c))
  <2>. DEFINE b == [s EXCEPT !.step = "BeginLine"]
              t == BeginLine(b, "LF")
  <2>1. Like(s, b) /\ b.states = s.states /\ b \in ScannerRecord /\ b.lastc = s.lastc
    BY <1>1, <1>2, LikeChanges DEF Steps, ScannerRecord
  <2>2. t \in ScannerRecord /\ t.lastc = s.lastc /\ t.states = s.states
    <3>1. t = [b EXCEPT !.idn = 0, !.op = "SkipSpace"]
      BY DEF BeginLine, LineBreak, Space
    <3>. HIDE DEF t, b
    <3>. QED
      BY <2>1, <3>1 DEF ScannerRecord, Opcode
  <2>. HIDE DEF t
  <2>3. Follows(s, c, EofWith(b, t))
    <3>. HIDE DEF b
    <3>. QED
      BY <1>4, <2>1, <2>2
  <2>4. c \in LineBreak => Follows(s, c, Reset)
    <3>1. c \in LineBreak => c # ":"
      BY DEF LineBreak
    <3>2. Reset.lastc = "other" /\ Reset.op = "Continue"
      BY DEF Reset
    <3>. QED
      BY <3>1, <3>2 DEF Follows
  <2>. QED
    BY <1>3, <2>3, <2>4 DEF NewDoc3, t
<1>. QED
  BY <1>5, <1>6

\* Every call of s.step
LEMMA StepFollows ==
  ASSUME NEW s, Sound(s), NEW c
  PROVE  Follows(s, c, Step(s, c))
<1>1. s \in ScannerRecord /\ Len(s.states) \in Nat /\ s.step \in Steps
  BY LenProperties DEF Sound, Frames, Stacks, ScannerRecord
<1>2. Like(s, s)
  BY <1>1 DEF Like
<1>3. /\ Follows(s, c, Fail(s))
      /\ \A op : op # "BeginLiteral" => /\ Follows(s, c, Stay(s, op)) /\ Follows(s, c, EndLine(s, op))
                                        /\ \A step : Follows(s, c, Goto(s, step, op))
  BY <1>1, <1>2, MovesFollow
<1>4. CASE s.step \in {"BeginLine", "BeginValueOrEmpty", "BeginValue", "EndValue", "EndTop"}
  BY <1>1, <1>2, <1>4, BeginLineFollows, BeginValueOrEmptyFollows, BeginValueFollows,
     EndValueFollows, EndTopFollows DEF Step
<1>5. CASE s.step \in {"EndYaml", "Error", "Merge1", "BeginMerge", "BeginComment"}
  BY <1>3, <1>5 DEF Step, BeginMerge, BeginComment
<1>6. CASE s.step \in {"EmptyLine", "BeginMultiline", "BeginMultilineChomp", "InMultiline"}
  <2>1. Follows(s, c, BeginMultiline(s, c))
    BY <1>3 DEF BeginMultiline
  <2>2. Follows(s, c, BeginMultilineChomp(s, c))
    BY <1>3, <2>1 DEF BeginMultilineChomp
  <2>3. Follows(s, c, EmptyLine(s, c)) /\ Follows(s, c, InMultiline(s, c))
    BY <1>3 DEF EmptyLine, InMultiline
  <2>. QED
    BY <1>6, <2>1, <2>2, <2>3 DEF Step
<1>7. CASE s.step \in {"InStringUnq", "InStringUnqOrComment", "KeyOrUnq", "DotBegin"}
  BY <1>1, <1>2, <1>7, PlainFollows DEF Step
<1>8. CASE s.step \in {"Hyphen", "BeginArrayValueS", "InAlias", "InStringSq2"}
  BY <1>1, <1>8, MarkFollows DEF Step
<1>9. CASE s.step \in {"InString", "InStringEsc", "InStringHex"}
  BY <1>1, <1>9, EscapeFollows DEF Step
<1>10. CASE s.step \in {"InStringSq", "BeginAnchor", "InAnchor", "BeginAlias"}
  BY <1>3, <1>10 DEF Step, InStringSq, BeginAnchor, InAnchor, BeginAlias
<1>11. CASE s.step \in {"ExplicitType1", "ExplicitType2", "InDirective"}
  BY <1>3, <1>11 DEF Step, ExplicitType1, ExplicitType2, InDirective
<1>12. CASE s.step \in {"NewDoc", "NewDoc1", "NewDoc2", "EndYaml1", "EndYaml2"}
  BY <1>3, <1>12 DEF Step, Expect
<1>13. CASE s.step \in {"NewDoc3", "EndYaml3"}
  BY <1>13, SeparatorFollows DEF Step
<1>. QED
  BY <1>1, <1>4, <1>5, <1>6, <1>7, <1>8, <1>9, <1>10, <1>11, <1>12, <1>13 DEF Steps

-----------------------------------------------------------------------------
(***************************************************************************)
(* The scanning loops.                                                     *)
(***************************************************************************)
\* What changes of the read index and of the opcode leave alone
LEMMA ScansChanges ==
  ASSUME NEW e, Scans(e), NEW off \in Nat, off <= Len(e.data) + 1, NEW op \in Opcode
  PROVE  /\ LET t == [e EXCEPT !.off = off]
            IN  Scans(t) /\ Same(e, t) /\ t.off = off /\ t.opcode = e.opcode /\ t.scan = e.scan
         /\ LET t == [e EXCEPT !.opcode = op]
            IN  Scans(t) /\ Same(e, t) /\ t.off = e.off /\ t.opcode = op /\ t.scan = e.scan
<1>1. e \in [data : Seq(Byte), off : Nat, opcode : Opcode, scan : ScannerRecord,
             anchors : {e.anchors}, savedError : {e.savedError}]
  BY DEF Scans
<1>2. ASSUME NEW t, t \in {[e EXCEPT !.off = off], [e EXCEPT !.opcode = op]}
      PROVE  /\ t \in [data : Seq(Byte), off : Nat, opcode : Opcode, scan : ScannerRecord,
                       anchors : {e.anchors}, savedError : {e.savedError}]
             /\ Same(e, t) /\ t.scan = e.scan
             /\ t.anchors = e.anchors /\ t.savedError = e.savedError
  BY <1>1, <1>2
<1>3. /\ [e EXCEPT !.off = off].off = off /\ [e EXCEPT !.off = off].opcode = e.opcode
      /\ [e EXCEPT !.opcode = op].off = e.off /\ [e EXCEPT !.opcode = op].opcode = op
  BY <1>1
<1>. DEFINE t == [e EXCEPT !.off = off]
            u == [e EXCEPT !.opcode = op]
<1>4. t \in {t, u} /\ u \in {t, u}
  OBVIOUS
<1>5. /\ t \in [data : Seq(Byte), off : Nat, opcode : Opcode, scan : ScannerRecord,
                anchors : {e.anchors}, savedError : {e.savedError}]
      /\ Same(e, t) /\ t.scan = e.scan
      /\ t.anchors = e.anchors /\ t.savedError = e.savedError
  BY <1>2, <1>4
<1>6. /\ u \in [data : Seq(Byte), off : Nat, opcode : Opcode, scan : ScannerRecord,
                anchors : {e.anchors}, savedError : {e.savedError}]
      /\ Same(e, u) /\ u.scan = e.scan
      /\ u.anchors = e.anchors /\ u.savedError = e.savedError
  BY <1>2, <1>4
<1>. HIDE DEF t, u
<1>7. Scans(t)
  BY <1>3, <1>5 DEF Scans, t
<1>8. Scans(u)
  BY <1>3, <1>6 DEF Scans, u
<1>. QED
  BY <1>3, <1>5, <1>6, <1>7, <1>8 DEF t, u

\* The state with another scanner, opcode and read index
At(e, s, op, off) == [e EXCEPT !.scan = s, !.opcode = op, !.off = off]

\* A scanner that is sound, with an opcode and another read index
LEMMA ScansWith ==
  ASSUME NEW e, Scans(e), NEW s, Sound(s), NEW op \in Opcode, NEW off \in Nat,
         off <= Len(e.data) + 1
  PROVE  LET t == At(e, s, op, off)
         IN  /\ Scans(t) /\ Same(e, t) /\ t.off = off /\ t.opcode = op /\ t.scan = s
<1>. DEFINE t == At(e, s, op, off)
<1>1. /\ e \in [data : Seq(Byte), off : Nat, opcode : Opcode, scan : ScannerRecord,
                anchors : {e.anchors}, savedError : {e.savedError}]
      /\ s \in ScannerRecord
  BY DEF Scans, Sound, Frames, Stacks
<1>2. /\ t \in [data : Seq(Byte), off : Nat, opcode : Opcode, scan : ScannerRecord,
                anchors : {e.anchors}, savedError : {e.savedError}]
      /\ Same(e, t) /\ t.off = off /\ t.opcode = op /\ t.scan = s
      /\ t.anchors = e.anchors /\ t.savedError = e.savedError
  BY <1>1 DEF At
<1>. HIDE DEF t
<1>3. Scans(t)
  BY <1>2 DEF Scans
<1>. QED
  BY <1>2, <1>3 DEF t

\* One byte of the text
LEMMA ReadScans ==
  ASSUME NEW e, Scans(e), e.off < Len(e.data)
  PROVE  LET t == Read(e) IN Scans(t) /\ Same(e, t) /\ t.off = e.off + 1
<1>. DEFINE c == NextByte(e)
            s == Step(e.scan, c)
            l == LastInput(s, c)
<1>1. e.off \in Nat /\ e.data \in Seq(Byte) /\ Len(e.data) \in Nat /\ Sound(e.scan)
  BY DEF Scans
<1>2. c \in Byte
  BY <1>1 DEF NextByte
<1>. HIDE DEF c
<1>3. Sound(s)
  BY <1>1, <1>2, StepSound
<1>4. s.op \in Opcode
  BY <1>3 DEF Sound, Frames, Stacks, ScannerRecord
<1>. HIDE DEF s
<1>5. Sound(l)
  BY <1>3, LastInputSound
<1>. HIDE DEF l
<1>. DEFINE op == s.op
            k == e.off + 1
            t == At(e, l, op, k)
<1>6. Read(e) = t
  BY DEF Read, Moved, At, c, s, l
<1>7. k \in Nat /\ k <= Len(e.data) + 1 /\ op \in Opcode
  BY <1>1, <1>4
<1>. HIDE DEF op, k
<1>8. Scans(t) /\ Same(e, t) /\ t.off = k
  BY <1>5, <1>7, ScansWith
<1>. HIDE DEF t
<1>. QED
  BY <1>6, <1>8 DEF k

\* What the byte does to the last byte of the scanner, and what becomes of a scanner
\* that is stuck
LEMMA ReadFollows ==
  ASSUME NEW e, Scans(e), e.off < Len(e.data)
  PROVE  LET t == Read(e)
         IN  /\ Fresh(t)
             /\ Depth(t) < Depth(e) => NoColon(t.scan)
             /\ NextByte(e) # ":" /\ t.scan.lastc = ":" => e.scan.lastc = ":"
             /\ e.scan.step \in Stuck => t.opcode \in {"Error", "SkipSpace", "Continue"}
<1>. DEFINE c == NextByte(e)
            s == Step(e.scan, c)
            l == LastInput(s, c)
            t == Read(e)
<1>1. Sound(e.scan) /\ e.scan \in ScannerRecord
  BY DEF Scans, Sound, Frames, Stacks
<1>2. Follows(e.scan, c, s)
  BY <1>1, StepFollows
<1>3. Sound(s) /\ s \in ScannerRecord
  BY <1>1, StepSound DEF Sound, Frames, Stacks
<1>4. e.scan.step \in Stuck => s.op \in {"Error", "SkipSpace", "Continue"}
  <2>1. \A op : EndLine(e.scan, op).op = op /\ Stay(e.scan, op).op = op
    BY <1>1 DEF EndLine, Stay, ScannerRecord
  <2>2. e.scan.step = "InMultiline" => s = InMultiline(e.scan, c)
    BY DEF Step
  <2>3. e.scan.step = "Error" => s = Stay(e.scan, "Error")
    BY DEF Step
  <2>. HIDE DEF c, s
  <2>. QED
    BY <2>1, <2>2, <2>3 DEF Stuck, InMultiline
<1>5. /\ t.opcode = s.op /\ t.scan = l
  <2>1. e \in [data : Seq(Byte), off : Nat, opcode : Opcode, scan : ScannerRecord,
               anchors : {e.anchors}, savedError : {e.savedError}]
    BY DEF Scans
  <2>. HIDE DEF s, l
  <2>2. t = [e EXCEPT !.scan = l, !.opcode = s.op, !.off = @ + 1]
    BY DEF Read, Moved, c, s, l
  <2>. HIDE DEF t
  <2>. QED
    BY <2>1, <2>2
<1>. HIDE DEF c, s, t
<1>6. /\ l.states = s.states /\ l.step = s.step
      /\ l.lastc = IF c \in White THEN s.lastc ELSE IF c \in {":", "\\"} THEN c ELSE "other"
  BY <1>3 DEF LastInput, ScannerRecord
<1>. HIDE DEF l
<1>7. Fresh(t)
  BY <1>2, <1>5, <1>6 DEF Fresh, NoColon, Follows
<1>8. Depth(t) < Depth(e) => NoColon(t.scan)
  BY <1>2, <1>5, <1>6 DEF Depth, NoColon, Follows, Stuck
<1>9. c # ":" /\ t.scan.lastc = ":" => e.scan.lastc = ":"
  BY <1>2, <1>5, <1>6 DEF Follows
<1>. QED
  BY <1>4, <1>5, <1>7, <1>8, <1>9 DEF c, t

\* eof returns no other opcodes.
LEMMA EofOpcode ==
  ASSUME NEW s, Sound(s)
  PROVE  Eof(s).op \in {"End", "Error"}
<1>. DEFINE t == Step(s, "LF")
<1>1. "LF" \in Byte
  BY DEF Byte, White, LineBreak
<1>2. Sound(t)
  BY <1>1, StepSound
<1>3. s \in ScannerRecord /\ t \in ScannerRecord
  BY <1>2 DEF Sound, Frames, Stacks
<1>. HIDE DEF t
<1>4. \A r \in {s, t} : \A op \in {"End", "Error"} : Stay(r, op).op = op
  BY <1>3 DEF Stay, ScannerRecord
<1>5. [s EXCEPT !.err = TRUE, !.op = "Error"].op = "Error"
  BY <1>3 DEF ScannerRecord
<1>6. \/ \E r \in {s, t} : \E op \in {"End", "Error"} : Eof(s) = Stay(r, op)
      \/ Eof(s) = [s EXCEPT !.err = TRUE, !.op = "Error"]
  BY DEF Eof, EofWith, t
<1>. QED
  BY <1>4, <1>5, <1>6

\* The end of the data
LEMMA OverGood ==
  ASSUME NEW e, Scans(e)
  PROVE  LET t == Over(e, Eof(e.scan))
         IN  Good(t) /\ Same(e, t) /\ t.off = Len(e.data) + 1
<1>. DEFINE s == Eof(e.scan)
<1>1. Sound(s) /\ s.op \in {"End", "Error"} /\ Len(e.data) \in Nat
  BY EofSound, EofOpcode DEF Scans
<1>. HIDE DEF s
<1>. DEFINE op == s.op
            k == Len(e.data) + 1
            t == At(e, s, op, k)
<1>2. op \in Opcode /\ k \in Nat /\ k <= Len(e.data) + 1
  BY <1>1 DEF Opcode
<1>3. Over(e, s) = t
  BY DEF Over, At
<1>. HIDE DEF op, k
<1>4. Scans(t) /\ Same(e, t) /\ t.off = k /\ t.opcode = op
  BY <1>1, <1>2, ScansWith
<1>. HIDE DEF t
<1>. QED
  BY <1>1, <1>3, <1>4 DEF Good, Fresh, op, k, s

\* F, again and again from a
Walks(S, F, a, L) == {f \in [0..L -> S] : f[0] = a /\ \A n \in 1..L : f[n] = F[f[n - 1]]}

\* There is a function that calls itself with its argument less one.
LEMMA IterationExists ==
  ASSUME NEW S, NEW F \in [S -> S], NEW a \in S, NEW L \in Nat
  PROVE  Walks(S, F, a, L) # {}
<1>. USE DEF Walks
<1>. DEFINE P(m) == \E f \in [0..m -> S] : f[0] = a /\ \A n \in 1..m : f[n] = F[f[n - 1]]
            T == {m \in Nat : ~P(m)}
<1>1. CASE T = {}
  BY <1>1
<1>2. CASE T # {}
  <2>1. T \subseteq Nat
    OBVIOUS
  <2>2. PICK m \in T : \A n \in T : m <= n
    <3>. HIDE DEF T
    <3>. QED
      BY <1>2, <2>1, LeastNatural
  <2>3. P(0)
    <3>1. [n \in 0..0 |-> a] \in [0..0 -> S] /\ [n \in 0..0 |-> a][0] = a /\ 1..0 = {}
      OBVIOUS
    <3>. QED
      BY <3>1
  <2>4. m \in Nat /\ m # 0 /\ ~P(m)
    BY <2>2, <2>3
  <2>5. P(m - 1)
    <3>1. m - 1 \in Nat /\ ~(m <= m - 1)
      BY <2>4
    <3>. HIDE DEF P
    <3>. QED
      BY <2>2, <3>1
  <2>6. PICK f \in [0..(m - 1) -> S] : f[0] = a /\ \A n \in 1..(m - 1) : f[n] = F[f[n - 1]]
    BY <2>5
  <2>. DEFINE g == [n \in 0..m |-> IF n = m THEN F[f[m - 1]] ELSE f[n]]
  <2>7. m - 1 \in 0..(m - 1) /\ 0 \in 0..m
    BY <2>4
  <2>8. g \in [0..m -> S]
    <3>1. \A n \in 0..m : n = m \/ n \in 0..(m - 1)
      BY <2>4
    <3>2. f[m - 1] \in S
      BY <2>7
    <3>. QED
      BY <3>1, <3>2
  <2>9. g[0] = a
    BY <2>4, <2>6, <2>7
  <2>10. \A n \in 1..m : g[n] = F[g[n - 1]]
    <3>1. ASSUME NEW n \in 1..m PROVE g[n] = F[g[n - 1]]
      <4>1. n \in 0..m /\ n - 1 \in 0..m /\ n - 1 # m /\ (n # m => n \in 1..(m - 1))
        BY <2>4
      <4>2. g[n - 1] = f[n - 1]
        BY <4>1
      <4>3. CASE n = m
        BY <4>1, <4>2, <4>3
      <4>4. CASE n # m
        BY <2>6, <4>1, <4>2, <4>4
      <4>. QED
        BY <4>3, <4>4
    <3>. QED
      BY <3>1
  <2>. HIDE DEF g
  <2>. QED
    BY <2>4, <2>8, <2>9, <2>10
<1>. QED
  BY <1>1, <1>2

\* Reads is the function it is written as, and its values are states on the way to
\* the end of the text.
LEMMA ReadsFacts ==
  ASSUME NEW e, Scans(e)
  PROVE  /\ Left(e) \in Nat /\ e.off + Left(e) = IF e.off < Len(e.data) THEN Len(e.data) ELSE e.off
         /\ Reads(e)[0] = e
         /\ \A n \in 1..Left(e) : Reads(e)[n] = Read(Reads(e)[n - 1])
         /\ \A n \in 0..Left(e) :
              LET t == Reads(e)[n] IN Scans(t) /\ Same(e, t) /\ t.off = e.off + n
<1>. DEFINE S == {t \in [data : Seq(Byte), off : Nat, opcode : Opcode, scan : ScannerRecord,
                         anchors : {e.anchors}, savedError : {e.savedError}] :
                    Scans(t) /\ t.data = e.data}
            N(t) == IF t.off < Len(t.data) THEN Read(t) ELSE t
            F == [t \in S |-> N(t)]
            L == Left(e)
            Is(f) == f = [n \in 0..L |-> IF n = 0 THEN e ELSE Read(f[n - 1])]
<1>1. /\ L \in Nat /\ e.off + L = IF e.off < Len(e.data) THEN Len(e.data) ELSE e.off
      /\ e.off \in Nat /\ Len(e.data) \in Nat
  BY DEF Scans, Left
<1>2. F \in [S -> S]
  <2>1. ASSUME NEW t \in S PROVE N(t) \in S
    <3>1. CASE t.off < Len(t.data)
      <4>1. Scans(Read(t)) /\ Same(t, Read(t))
        BY <3>1, ReadScans
      <4>2. Read(t).anchors = t.anchors /\ Read(t).savedError = t.savedError
        BY DEF Read, Moved
      <4>. QED
        BY <3>1, <4>1, <4>2 DEF Scans
    <3>2. CASE ~(t.off < Len(t.data))
      BY <3>2
    <3>. QED
      BY <3>1, <3>2
  <2>. HIDE DEF N, S
  <2>. QED
    BY <2>1
<1>3. e \in S
  BY DEF Scans
<1>. HIDE DEF F, L
<1>4. PICK f \in [0..L -> S] : f[0] = e /\ \A n \in 1..L : f[n] = F[f[n - 1]]
  <2>. HIDE DEF S
  <2>1. L \in Nat
    BY <1>1
  <2>2. Walks(S, F, e, L) # {}
    BY <1>2, <1>3, <2>1, IterationExists
  <2>. QED
    BY <2>2 DEF Walks
<1>5. \A n \in 0..L : f[n] \in S
  OBVIOUS
<1>6. \A n \in 0..L : f[n].off = e.off + n
  <2>. DEFINE T == {n \in 0..L : f[n].off # e.off + n}
  <2>1. CASE T = {}
    BY <2>1
  <2>2. CASE T # {}
    <3>1. PICK m \in T : \A n \in T : m <= n
      <4>1. T \subseteq Nat
        BY <1>1
      <4>. HIDE DEF T
      <4>. QED
        BY <2>2, <4>1, LeastNatural
    <3>2. m # 0
      BY <1>1, <1>4, <3>1
    <3>3. m \in 1..L /\ m - 1 \in 0..L /\ ~(m <= m - 1)
      BY <1>1, <3>1, <3>2
    <3>4. f[m - 1].off = e.off + (m - 1)
      BY <3>1, <3>3
    <3>5. f[m - 1] \in S
      BY <1>5, <3>3
    <3>6. Scans(f[m - 1]) /\ Same(e, f[m - 1])
      BY <3>5
    <3>7. f[m - 1].off < Len(f[m - 1].data)
      BY <1>1, <3>3, <3>4, <3>6
    <3>8. f[m] = Read(f[m - 1])
      <4>1. f[m] = F[f[m - 1]]
        BY <1>4, <3>3
      <4>2. F[f[m - 1]] = N(f[m - 1])
        BY <3>5 DEF F
      <4>. QED
        BY <3>7, <4>1, <4>2
    <3>9. f[m].off = f[m - 1].off + 1
      BY <3>6, <3>7, <3>8, ReadScans
    <3>. QED
      BY <1>1, <3>1, <3>3, <3>4, <3>9
  <2>. QED
    BY <2>1, <2>2
<1>7. \A n \in 1..L : f[n] = Read(f[n - 1])
  <2>1. ASSUME NEW n \in 1..L PROVE f[n] = Read(f[n - 1])
    <3>1. n - 1 \in 0..L /\ n - 1 < L /\ n \in Nat
      BY <1>1
    <3>2. f[n - 1] \in S /\ f[n - 1].off = e.off + (n - 1)
      BY <1>5, <1>6, <3>1
    <3>3. f[n - 1].off < Len(f[n - 1].data)
      BY <1>1, <3>1, <3>2
    <3>4. F[f[n - 1]] = N(f[n - 1])
      BY <3>2 DEF F
    <3>. QED
      BY <1>4, <3>3, <3>4
  <2>. QED
    BY <2>1
<1>8. Is(f)
  <2>1. ASSUME NEW n \in 0..L PROVE f[n] = IF n = 0 THEN e ELSE Read(f[n - 1])
    <3>1. n = 0 \/ n \in 1..L
      BY <1>1
    <3>. QED
      BY <1>4, <1>7, <3>1
  <2>. HIDE DEF S
  <2>. QED
    BY <2>1
<1>. DEFINE g == CHOOSE h : Is(h)
<1>9. Is(g)
  <2>. HIDE DEF Is
  <2>. QED
    BY <1>8
<1>10. Reads(e) = g
  BY DEF Reads, Iterates, L
<1>. HIDE DEF g
<1>11. g = f
  <2>. DEFINE T == {n \in 0..L : g[n] # f[n]}
  <2>1. CASE T = {}
    <3>1. \A n \in 0..L : g[n] = f[n]
      BY <2>1
    <3>2. g = [n \in 0..L |-> g[n]] /\ f = [n \in 0..L |-> f[n]]
      BY <1>9
    <3>. QED
      BY <3>1, <3>2
  <2>2. CASE T # {}
    <3>1. PICK m \in T : \A n \in T : m <= n
      <4>1. T \subseteq Nat
        BY <1>1
      <4>. HIDE DEF T
      <4>. QED
        BY <2>2, <4>1, LeastNatural
    <3>2. m \in 0..L /\ g[m] = IF m = 0 THEN e ELSE Read(g[m - 1])
      BY <1>9, <3>1
    <3>3. m # 0
      BY <1>4, <3>1, <3>2
    <3>4. m \in 1..L /\ m - 1 \in 0..L /\ ~(m <= m - 1)
      BY <1>1, <3>2, <3>3
    <3>5. g[m - 1] = f[m - 1]
      BY <3>1, <3>4
    <3>. QED
      BY <1>7, <3>1, <3>2, <3>3, <3>4, <3>5
  <2>. QED
    BY <2>1, <2>2
<1>12. \A n \in 0..L : Scans(f[n]) /\ Same(e, f[n])
  BY <1>5
<1>. QED
  BY <1>1, <1>4, <1>6, <1>7, <1>10, <1>11, <1>12 DEF L

\* Each of them but the first comes after a byte.
LEMMA ReadsFollow ==
  ASSUME NEW e, Scans(e), NEW n \in 1..Left(e)
  PROVE  LET b == Reads(e)[n - 1]
             t == Reads(e)[n]
         IN  t = Read(b) /\ Scans(b) /\ Same(e, b) /\ b.off < Len(b.data) /\ b.off = e.off + (n - 1)
             /\ Fresh(t)
<1>. DEFINE b == Reads(e)[n - 1]
<1>1. /\ Left(e) \in Nat /\ e.off + Left(e) = IF e.off < Len(e.data) THEN Len(e.data) ELSE e.off
      /\ e.off \in Nat /\ Len(e.data) \in Nat
  BY ReadsFacts DEF Scans
<1>2. n - 1 \in 0..Left(e)
  BY <1>1
<1>3. Reads(e)[n] = Read(b) /\ Scans(b) /\ Same(e, b) /\ b.off = e.off + (n - 1)
  BY <1>2, ReadsFacts
<1>. HIDE DEF b
<1>4. b.off < Len(b.data)
  BY <1>1, <1>3
<1>5. Fresh(Read(b))
  BY <1>3, <1>4, ReadFollows
<1>. QED
  BY <1>3, <1>4, <1>5 DEF b

\* Where a loop stops: it has read at least one byte, and all but the last let it go
\* on.
LEMMA StoppedFacts ==
  ASSUME NEW e, Scans(e), NEW ops, NEW depth, Stops(Reads(e), ops, depth)
  PROVE  LET n == BytesRead(Reads(e), ops, depth)
             t == Stopped(Reads(e), ops, depth)
         IN  /\ n \in 1..Left(e) /\ t = Reads(e)[n] /\ ~GoesOn(t, ops, depth)
             /\ \A k \in 1..(n - 1) : GoesOn(Reads(e)[k], ops, depth)
             /\ Scans(t) /\ Same(e, t) /\ t.off = e.off + n
             /\ e.off < Len(e.data) /\ t.off > e.off /\ t.off <= Len(e.data)
             /\ Fresh(t)
<1>. DEFINE G(n) == GoesOn(Reads(e)[n], ops, depth)
            T == {n \in 1..Left(e) : ~G(n)}
            P(n) == ~G(n) /\ \A k \in 1..(n - 1) : G(k)
            b == BytesRead(Reads(e), ops, depth)
<1>1. /\ Left(e) \in Nat /\ e.off \in Nat /\ Len(e.data) \in Nat
      /\ e.off + Left(e) = IF e.off < Len(e.data) THEN Len(e.data) ELSE e.off
  BY ReadsFacts DEF Scans
<1>0. Reads(e)[0] = e
  BY ReadsFacts
<1>2. T # {} /\ T \subseteq Nat
  BY <1>0 DEF Stops
<1>3. PICK m \in T : \A n \in T : m <= n
  <2>. HIDE DEF T
  <2>. QED
    BY <1>2, LeastNatural
<1>4. m \in 1..Left(e) /\ P(m)
  <2>1. \A k \in 1..(m - 1) : k \in 1..Left(e) /\ ~(m <= k)
    BY <1>1, <1>3
  <2>2. \A k \in 1..(m - 1) : k \notin T
    BY <1>3, <2>1
  <2>. HIDE DEF G
  <2>. QED
    BY <1>3, <2>1, <2>2
<1>5. b = CHOOSE n \in 1..Left(e) : P(n)
  BY <1>0 DEF BytesRead
<1>6. b \in 1..Left(e) /\ P(b)
  <2>. HIDE DEF P, b
  <2>. QED
    BY <1>4, <1>5
<1>. HIDE DEF b
<1>7. Scans(Reads(e)[b]) /\ Same(e, Reads(e)[b]) /\ Reads(e)[b].off = e.off + b
  <2>1. b \in 0..Left(e)
    BY <1>6
  <2>. QED
    BY <2>1, ReadsFacts
<1>8. Stopped(Reads(e), ops, depth) = Reads(e)[b]
  BY DEF Stopped, b
<1>. DEFINE t == Reads(e)[b]
<1>9. e.off < Len(e.data) /\ e.off + b > e.off /\ e.off + b <= Len(e.data)
  BY <1>1, <1>6
<1>10. Fresh(Reads(e)[b])
  BY <1>6, ReadsFollow
<1>. QED
  BY <1>6, <1>7, <1>8, <1>9, <1>10 DEF b

\* All the bytes that are left
LEMMA AllReadFacts ==
  ASSUME NEW e, Scans(e)
  PROVE  LET t == AllRead(Reads(e))
         IN  /\ Scans(t) /\ Same(e, t)
             /\ t.off = IF e.off < Len(e.data) THEN Len(e.data) ELSE e.off
             /\ Fresh(e) => Fresh(t)
<1>1. Left(e) \in Nat /\ Left(e) \in 0..Left(e) /\ (Left(e) # 0 => Left(e) \in 1..Left(e))
  BY ReadsFacts
<1>2. Left(e) # 0 => Fresh(Reads(e)[Left(e)])
  BY <1>1, ReadsFollow
<1>3. Reads(e)[0] = e
  BY ReadsFacts
<1>4. Fresh(e) => Fresh(AllRead(Reads(e)))
  BY <1>2, <1>3 DEF AllRead
<1>5. AllRead(Reads(e)) = Reads(e)[Left(e)]
  BY <1>3 DEF AllRead
<1>. DEFINE t == Reads(e)[Left(e)]
<1>6. Scans(t) /\ Same(e, t) /\ t.off = IF e.off < Len(e.data) THEN Len(e.data) ELSE e.off
  BY <1>1, ReadsFacts
<1>. HIDE DEF t
<1>. QED
  BY <1>4, <1>5, <1>6 DEF t

\* In the text or one behind it, and not only the end to come
LEMMA InTextGood ==
  ASSUME NEW e, Scans(e), Fresh(e), e.off <= Len(e.data), e.off > 0
  PROVE  Good(e)
  BY DEF Good, Scans

\* scanWhile reads a byte, or the end of the data.
LEMMA ScanWhileFacts ==
  ASSUME NEW e, Scans(e), NEW op
  PROVE  LET t == scanWhile(e, op)
         IN  Good(t) /\ Ahead(e, t) /\ (e.off <= Len(e.data) => t.off > e.off)
<1>0. e.off \in Nat /\ Len(e.data) \in Nat /\ e.off <= Len(e.data) + 1
  BY DEF Scans
<1>1. CASE Stops(Reads(e), {op}, 0)
  <2>. DEFINE t == Stopped(Reads(e), {op}, 0)
  <2>1. /\ Scans(t) /\ Same(e, t) /\ t.off > e.off /\ t.off <= Len(e.data) /\ t.off \in Nat
        /\ Fresh(t)
    BY <1>1, StoppedFacts DEF Scans
  <2>2. scanWhile(e, op) = t
    BY <1>1 DEF scanWhile, WhileIn
  <2>. HIDE DEF t
  <2>3. Good(t)
    BY <1>0, <2>1, InTextGood
  <2>. QED
    BY <1>0, <2>1, <2>2, <2>3 DEF Ahead
<1>2. CASE ~Stops(Reads(e), {op}, 0)
  <2>. DEFINE a == AllRead(Reads(e))
              t == Over(a, Eof(a.scan))
  <2>1. Scans(a) /\ Same(e, a)
    BY AllReadFacts
  <2>2. scanWhile(e, op) = t
    BY <1>2 DEF scanWhile, WhileIn
  <2>. HIDE DEF a
  <2>3. Good(t) /\ Same(a, t) /\ t.off = Len(a.data) + 1
    BY <2>1, OverGood
  <2>. HIDE DEF t
  <2>4. Good(t) /\ Same(e, t) /\ t.off = Len(e.data) + 1
    BY <2>1, <2>3
  <2>. QED
    BY <1>0, <2>2, <2>4 DEF Ahead
<1>. QED
  BY <1>1, <1>2

\* From where an opcode is known that is no end, skip stays in the text.
LEMMA SkipFacts ==
  ASSUME NEW e, Good(e), e.opcode \notin {"End", "Error"}
  PROVE  LET t == skip(e) IN Good(t) /\ Same(e, t)
<1>0. e.off \in Nat /\ Len(e.data) \in Nat /\ Len(e.data) # 0 /\ Scans(e) /\ Fresh(e)
  BY DEF Good, Scans
<1>1. CASE Stops(Reads(e), Opcode, Depth(e))
  <2>. DEFINE t == Stopped(Reads(e), Opcode, Depth(e))
  <2>1. /\ Scans(t) /\ Same(e, t) /\ t.off > e.off /\ t.off <= Len(e.data) /\ t.off \in Nat
        /\ Fresh(t)
    BY <1>0, <1>1, StoppedFacts DEF Scans
  <2>2. skip(e) = t
    BY <1>1 DEF skip, PastDepth
  <2>. HIDE DEF t
  <2>3. Good(t)
    BY <1>0, <2>1, InTextGood
  <2>. QED
    BY <2>1, <2>2, <2>3
<1>2. CASE ~Stops(Reads(e), Opcode, Depth(e))
  <2>. DEFINE a == AllRead(Reads(e))
              k == Len(e.data) - 1
              t == [a EXCEPT !.off = k]
  <2>1. Scans(a) /\ Same(e, a) /\ a.opcode \in Opcode /\ Fresh(a)
    BY <1>0, AllReadFacts DEF Scans
  <2>2. skip(e) = t
    BY <1>2, <2>1 DEF skip, PastDepth
  <2>3. k \in Nat /\ k <= Len(a.data) + 1 /\ ~(k > Len(e.data))
    BY <1>0, <2>1
  <2>. HIDE DEF a, k
  <2>4. Scans(t) /\ Same(a, t) /\ t.off = k /\ t.opcode = a.opcode /\ t.scan = a.scan
    BY <2>1, <2>3, ScansChanges
  <2>. HIDE DEF t
  <2>. QED
    BY <1>0, <2>1, <2>2, <2>3, <2>4 DEF Good, Fresh
<1>. QED
  BY <1>1, <1>2

\* Behind the space that has been read
LEMMA PastSpaceFacts ==
  ASSUME NEW e, Good(e)
  PROVE  Good(PastSpace(e)) /\ Ahead(e, PastSpace(e))
<1>1. Scans(e) /\ e.off \in Nat
  BY DEF Good, Scans
<1>2. Good(scanWhile(e, "SkipSpace")) /\ Ahead(e, scanWhile(e, "SkipSpace"))
  BY <1>1, ScanWhileFacts
<1>. QED
  BY <1>1, <1>2 DEF PastSpace, Ahead

-----------------------------------------------------------------------------
(***************************************************************************)
(* quickScan and rescanLiteral.                                            *)
(***************************************************************************)
\* Behind an anchor
LEMMA PastAnchorFacts ==
  ASSUME NEW e, Good(e)
  PROVE  /\ Good(PastAnchor(e)) /\ Ahead(e, PastAnchor(e))
         /\ PastAnchor(e) = e \/ PastAnchor(e).off > e.off
<1>1. Scans(e) /\ e.off \in Nat /\ Len(e.data) \in Nat
  BY DEF Good, Scans
<1>2. CASE PastAnchor(e) = e
  BY <1>1, <1>2 DEF Ahead
<1>3. CASE PastAnchor(e) # e
  <2>. DEFINE a == scanWhile(e, "Continue")
              t == PastSpace(a)
  <2>1. e.opcode = "BeginLiteral" /\ PastAnchor(e) = t
    BY <1>3 DEF PastAnchor, AfterAnchor
  <2>2. e.off <= Len(e.data)
    BY <1>1, <2>1 DEF Good
  <2>3. Good(a) /\ Ahead(e, a) /\ a.off > e.off
    BY <1>1, <2>2, ScanWhileFacts
  <2>. HIDE DEF a
  <2>4. Good(t) /\ Ahead(a, t)
    BY <2>3, PastSpaceFacts
  <2>. HIDE DEF t
  <2>5. a.off \in Nat /\ t.off \in Nat
    BY <2>3, <2>4 DEF Good, Scans
  <2>. QED
    BY <1>1, <2>1, <2>3, <2>4, <2>5 DEF Ahead
<1>. QED
  BY <1>2, <1>3

\* Where each value is F of the one before, all values are in the domain of F.
LEMMA IterationStays ==
  ASSUME NEW S, NEW F \in [S -> S], NEW a \in S, NEW L \in Nat, NEW g, g[0] = a,
         \A n \in 1..L : g[n - 1] \in S => g[n] = F[g[n - 1]]
  PROVE  \A n \in 0..L : g[n] \in S
<1>. DEFINE T == {n \in 0..L : g[n] \notin S}
<1>1. CASE T = {}
  BY <1>1
<1>2. CASE T # {}
  <2>1. PICK m \in T : \A n \in T : m <= n
    <3>1. T \subseteq Nat
      OBVIOUS
    <3>. HIDE DEF T
    <3>. QED
      BY <1>2, <3>1, LeastNatural
  <2>2. m \in 0..L /\ m # 0
    BY <2>1
  <2>3. m \in 1..L /\ m - 1 \in 0..L /\ ~(m <= m - 1)
    BY <2>2
  <2>4. g[m - 1] \in S
    BY <2>1, <2>3
  <2>. QED
    BY <2>1, <2>3, <2>4
<1>. QED
  BY <1>1, <1>2

\* Behind all the anchors of a value
LEMMA PastAnchorsFacts ==
  ASSUME NEW e, Good(e)
  PROVE  LET t == PastAnchors(e)
         IN  Good(t) /\ Ahead(e, t) /\ (t = e \/ t.off > e.off)
<1>. DEFINE S == {t \in [data : Seq(Byte), off : Nat, opcode : Opcode, scan : ScannerRecord,
                         anchors : {e.anchors}, savedError : {e.savedError}] :
                    Good(t) /\ Ahead(e, t) /\ (t = e \/ t.off > e.off)}
            F == [t \in S |-> PastAnchor(t)]
            L == Left(e)
            Is(f) == f = [n \in 0..L |-> IF n = 0 THEN e ELSE PastAnchor(f[n - 1])]
            g == CHOOSE f : Is(f)
<1>1. L \in Nat /\ L \in 0..L /\ e.off \in Nat /\ Scans(e)
  BY ReadsFacts DEF Good, Scans
<1>2. ASSUME NEW t \in S PROVE PastAnchor(t) \in S
  <2>. DEFINE r == PastAnchor(t)
  <2>1. Good(t) /\ Ahead(e, t) /\ (t = e \/ t.off > e.off)
    OBVIOUS
  <2>2. Good(r) /\ Ahead(t, r) /\ (r = t \/ r.off > t.off)
    BY <2>1, PastAnchorFacts
  <2>. HIDE DEF r
  <2>3. /\ r \in [data : Seq(Byte), off : Nat, opcode : Opcode, scan : ScannerRecord,
                  anchors : {e.anchors}, savedError : {e.savedError}]
        /\ r.off \in Nat /\ t.off \in Nat
    BY <2>1, <2>2 DEF Good, Scans, Ahead
  <2>4. Ahead(e, r) /\ (r = e \/ r.off > e.off)
    BY <1>1, <2>1, <2>2, <2>3 DEF Ahead
  <2>. QED
    BY <2>2, <2>3, <2>4 DEF r
<1>3. e \in S
  BY <1>1 DEF Good, Scans, Ahead
<1>. HIDE DEF S, L
<1>4. F \in [S -> S]
  BY <1>2
<1>5. \A t \in S : F[t] = PastAnchor(t)
  OBVIOUS
<1>. HIDE DEF F
<1>6. PICK f \in Walks(S, F, e, L) : TRUE
  BY <1>1, <1>3, <1>4, IterationExists
<1>7. Is(f)
  <2>1. f \in [0..L -> S] /\ f[0] = e /\ \A n \in 1..L : f[n] = F[f[n - 1]]
    BY <1>6 DEF Walks
  <2>2. ASSUME NEW n \in 0..L PROVE f[n] = IF n = 0 THEN e ELSE PastAnchor(f[n - 1])
    <3>1. n = 0 \/ (n \in 1..L /\ n - 1 \in 0..L)
      BY <1>1
    <3>. QED
      BY <1>5, <2>1, <3>1
  <2>. QED
    BY <2>1, <2>2
<1>8. Is(g)
  <2>. HIDE DEF Is
  <2>. QED
    BY <1>7
<1>9. PastAnchors(e) = g[L]
  BY DEF PastAnchors, Iterates, L
<1>. HIDE DEF g
<1>10. g[0] = e /\ \A n \in 1..L : g[n] = PastAnchor(g[n - 1])
  <2>1. 0 \in 0..L /\ \A n \in 1..L : n \in 0..L /\ n # 0
    BY <1>1
  <2>. QED
    BY <1>8, <2>1
<1>11. \A n \in 1..L : g[n - 1] \in S => g[n] = F[g[n - 1]]
  BY <1>5, <1>10
<1>. HIDE DEF Is
<1>12. \A n \in 0..L : g[n] \in S
  BY <1>1, <1>3, <1>4, <1>10, <1>11, IterationStays
<1>. QED
  BY <1>1, <1>9, <1>12 DEF S

\* quickScan goes on to the value, and settles what has begun.
LEMMA QuickScanFacts ==
  ASSUME NEW e, Good(e), e.opcode = "BeginLiteral"
  PROVE  LET t == quickScan(e)
         IN  /\ Good(t) /\ Ahead(e, t)
             /\ t.off > e.off \/ (t.off = e.off /\ t.scan = e.scan)
             /\ t.off > e.off \/ t.opcode \in {"BeginArray", "BeginObject", "BeginLiteral"}
<1>. DEFINE a == PastAnchors(e)
            op == QuickOpcode(a)
            t == [a EXCEPT !.opcode = op]
<1>1. Good(a) /\ Ahead(e, a) /\ (a = e \/ a.off > e.off)
  BY PastAnchorsFacts
<1>2. quickScan(e) = t
  BY DEF quickScan, Classified
<1>. HIDE DEF a
<1>3. Scans(a) /\ a.opcode \in Opcode /\ a.off \in Nat /\ a.off <= Len(a.data) + 1
  BY <1>1 DEF Good, Scans
<1>4. /\ op \in {a.opcode, "BeginArray", "BeginObject", "BeginLiteral"}
      /\ a.opcode # "BeginLiteral" => op = a.opcode
      /\ a.opcode = "BeginLiteral" => op \in {"BeginArray", "BeginObject", "BeginLiteral"}
  BY DEF QuickOpcode
<1>5. op \in Opcode
  BY <1>3, <1>4 DEF Opcode
<1>. HIDE DEF op
<1>6. Scans(t) /\ Same(a, t) /\ t.off = a.off /\ t.opcode = op /\ t.scan = a.scan
  BY <1>3, <1>5, ScansChanges
<1>. HIDE DEF t
<1>7. Good(t)
  BY <1>1, <1>4, <1>6 DEF Good, Fresh
<1>. QED
  BY <1>1, <1>2, <1>4, <1>6, <1>7 DEF Ahead

\* rescanLiteral reads to the end of a literal that is not a block literal.
LEMMA PastLiteralFacts ==
  ASSUME NEW e, Scans(e), Fresh(e), e.off <= Len(e.data), NEW ops
  PROVE  LET t == PastLiteral(e, ops)
         IN  Scans(t) /\ Fresh(t) /\ Ahead(e, t) /\ t.off <= Len(e.data)
<1>0. e.off \in Nat /\ Len(e.data) \in Nat
  BY DEF Scans
<1>1. CASE Stops(Reads(e), ops, 0)
  <2>. DEFINE a == Stopped(Reads(e), ops, 0)
              k == a.off - 1
              t == [a EXCEPT !.off = k]
  <2>1. /\ Scans(a) /\ Same(e, a) /\ a.off > e.off /\ a.off <= Len(e.data) /\ a.off \in Nat
        /\ a.opcode \in Opcode /\ Fresh(a)
    BY <1>1, StoppedFacts DEF Scans
  <2>2. PastLiteral(e, ops) = t
    BY <1>1 DEF PastLiteral, UpTo, Uncounted
  <2>. HIDE DEF a
  <2>3. k \in Nat /\ k <= Len(a.data) + 1 /\ k >= e.off /\ k <= Len(e.data)
    BY <1>0, <2>1
  <2>. HIDE DEF k
  <2>4. Scans(t) /\ Same(a, t) /\ t.off = k /\ t.opcode = a.opcode /\ t.scan = a.scan
    BY <2>1, <2>3, ScansChanges
  <2>. HIDE DEF t
  <2>. QED
    BY <2>1, <2>2, <2>3, <2>4 DEF Ahead, Fresh
<1>2. CASE ~Stops(Reads(e), ops, 0)
  <2>. DEFINE a == AllRead(Reads(e))
  <2>1. /\ Scans(a) /\ Same(e, a) /\ Fresh(a)
        /\ a.off = IF e.off < Len(e.data) THEN Len(e.data) ELSE e.off
    BY AllReadFacts
  <2>2. PastLiteral(e, ops) = a
    BY <1>2 DEF PastLiteral, UpTo
  <2>. HIDE DEF a
  <2>. QED
    BY <1>0, <2>1, <2>2 DEF Ahead
<1>. QED
  BY <1>1, <1>2

\* ... and to the end of a block literal.
LEMMA PastMultilineFacts ==
  ASSUME NEW e, Scans(e), Fresh(e), e.off <= Len(e.data)
  PROVE  LET t == PastMultiline(e)
         IN  /\ Scans(t) /\ Ahead(e, t) /\ t.off <= Len(e.data) /\ t.opcode = e.opcode
             /\ Fresh(t) \/ t.off = Len(e.data)
<1>0. e.off \in Nat /\ Len(e.data) \in Nat /\ e.opcode \in Opcode
  BY DEF Scans
<1>1. CASE Stops(Reads(e), Opcode, Depth(e))
  <2>. DEFINE a == Stopped(Reads(e), Opcode, Depth(e))
              k == a.off - 1
              t == [a EXCEPT !.off = k]
              r == [t EXCEPT !.opcode = e.opcode]
  <2>1. /\ Scans(a) /\ Same(e, a) /\ a.off > e.off /\ a.off <= Len(e.data) /\ a.off \in Nat
        /\ a.opcode \in Opcode /\ Fresh(a)
    BY <1>1, StoppedFacts DEF Scans
  <2>2. PastMultiline(e) = r
    BY <1>1 DEF PastMultiline, UpTo, Uncounted
  <2>a. NoColon(a.scan)
    <3>. DEFINE n == BytesRead(Reads(e), Opcode, Depth(e))
                b == Reads(e)[n - 1]
    <3>1. /\ n \in 1..Left(e) /\ a = Reads(e)[n] /\ ~GoesOn(a, Opcode, Depth(e))
          /\ \A m \in 1..(n - 1) : GoesOn(Reads(e)[m], Opcode, Depth(e))
      BY <1>1, StoppedFacts
    <3>2. Left(e) \in Nat /\ Reads(e)[0] = e
      BY ReadsFacts
    <3>. HIDE DEF n
    <3>3. a = Read(b) /\ Scans(b) /\ b.off < Len(b.data)
      BY <3>1, ReadsFollow
    <3>4. n - 1 = 0 \/ n - 1 \in 1..(n - 1)
      BY <3>1, <3>2
    <3>5. b = e \/ GoesOn(b, Opcode, Depth(e))
      BY <3>1, <3>2, <3>4
    <3>. HIDE DEF b, a
    <3>6. Depth(a) \in Nat /\ Depth(b) \in Nat /\ Depth(e) \in Nat
      BY <2>1, <3>3, LenProperties DEF Scans, ScannerRecord, Depth
    <3>7. Depth(a) < Depth(b)
      BY <2>1, <3>1, <3>5, <3>6 DEF GoesOn
    <3>. QED
      BY <3>3, <3>7, ReadFollows
  <2>. HIDE DEF a
  <2>3. k \in Nat /\ k <= Len(a.data) + 1 /\ k >= e.off /\ k <= Len(e.data)
    BY <1>0, <2>1
  <2>. HIDE DEF k
  <2>4. Scans(t) /\ Same(a, t) /\ t.off = k /\ t.scan = a.scan
    BY <2>1, <2>3, ScansChanges
  <2>. HIDE DEF t
  <2>5. Scans(r) /\ Same(t, r) /\ r.off = t.off /\ r.opcode = e.opcode /\ r.scan = t.scan
    <3>1. t.off \in Nat /\ t.off <= Len(t.data) + 1
      BY <2>4 DEF Scans
    <3>. QED
      BY <1>0, <2>4, <3>1, ScansChanges
  <2>. HIDE DEF r
  <2>. QED
    <3>1. NoColon(r.scan)
      BY <2>a, <2>4, <2>5
    <3>2. Fresh(r)
      BY <3>1 DEF Fresh
    <3>3. Scans(r) /\ Ahead(e, r) /\ r.off <= Len(e.data) /\ r.opcode = e.opcode
      BY <2>1, <2>3, <2>4, <2>5 DEF Ahead
    <3>. QED
      BY <2>2, <3>2, <3>3
<1>2. CASE ~Stops(Reads(e), Opcode, Depth(e))
  <2>. DEFINE a == AllRead(Reads(e))
              r == [a EXCEPT !.opcode = e.opcode]
  <2>1. /\ Scans(a) /\ Same(e, a)
        /\ a.off = IF e.off < Len(e.data) THEN Len(e.data) ELSE e.off
    BY AllReadFacts
  <2>2. PastMultiline(e) = r
    BY <1>2 DEF PastMultiline, UpTo
  <2>. HIDE DEF a
  <2>3. Scans(r) /\ Same(a, r) /\ r.off = a.off /\ r.opcode = e.opcode
    <3>1. a.off \in Nat /\ a.off <= Len(a.data) + 1
      BY <2>1 DEF Scans
    <3>. QED
      BY <1>0, <2>1, <3>1, ScansChanges
  <2>. HIDE DEF r
  <2>. QED
    BY <1>0, <2>1, <2>2, <2>3 DEF Ahead
<1>. QED
  BY <1>1, <1>2

\* Behind an explicit type
LEMMA PastTypeFacts ==
  ASSUME NEW e, Scans(e), Fresh(e), e.off <= Len(e.data)
  PROVE  LET t == PastType(e)
         IN  /\ Scans(t) /\ Fresh(t) /\ Ahead(e, t) /\ t.off <= Len(e.data)
             /\ t = e \/ (t.off > e.off /\ t.opcode = "BeginLiteral")
<1>. DEFINE a == AfterType(e)
            k == a.off + 1
            t == [a EXCEPT !.off = k]
<1>0. e.off \in Nat /\ Len(e.data) \in Nat
  BY DEF Scans
<1>1. Scans(a) /\ Fresh(a) /\ Ahead(e, a) /\ a.off <= Len(e.data)
  BY PastLiteralFacts DEF AfterType
<1>2. PastType(e) = e \/ (PastType(e) = t /\ a.off < Len(a.data) /\ a.opcode = "BeginLiteral")
  BY DEF PastType, BeginValueOf, HasValue
<1>. HIDE DEF a
<1>3. a.off \in Nat /\ a.opcode \in Opcode
  BY <1>1 DEF Scans
<1>4. CASE PastType(e) = e
  BY <1>0, <1>4 DEF Ahead
<1>5. CASE PastType(e) # e
  <2>1. a.off < Len(a.data) /\ a.opcode = "BeginLiteral" /\ PastType(e) = t
    BY <1>2, <1>5
  <2>2. k \in Nat /\ k <= Len(a.data) + 1 /\ k <= Len(e.data) /\ k > e.off
    BY <1>0, <1>1, <1>3, <2>1 DEF Ahead
  <2>. HIDE DEF k
  <2>3. Scans(t) /\ Same(a, t) /\ t.off = k /\ t.opcode = a.opcode /\ t.scan = a.scan
    BY <1>1, <1>3, <2>2, ScansChanges
  <2>. HIDE DEF t
  <2>. QED
    BY <1>0, <1>1, <2>1, <2>2, <2>3 DEF Ahead, Fresh
<1>. QED
  BY <1>4, <1>5

\* Behind all the explicit types of a value
LEMMA PastTypesFacts ==
  ASSUME NEW e, Scans(e), Fresh(e), e.off <= Len(e.data)
  PROVE  LET t == PastTypes(e)
         IN  /\ Scans(t) /\ Fresh(t) /\ Ahead(e, t) /\ t.off <= Len(e.data)
             /\ t = e \/ (t.off > e.off /\ t.opcode = "BeginLiteral")
<1>. DEFINE S == {t \in [data : Seq(Byte), off : Nat, opcode : Opcode, scan : ScannerRecord,
                         anchors : {e.anchors}, savedError : {e.savedError}] :
                    /\ Scans(t) /\ Fresh(t) /\ Ahead(e, t) /\ t.off <= Len(e.data)
                    /\ t = e \/ (t.off > e.off /\ t.opcode = "BeginLiteral")}
            F == [t \in S |-> PastType(t)]
            L == Left(e)
            Is(f) == f = [n \in 0..L |-> IF n = 0 THEN e ELSE PastType(f[n - 1])]
            g == CHOOSE f : Is(f)
<1>1. L \in Nat /\ L \in 0..L /\ e.off \in Nat
  BY ReadsFacts DEF Scans
<1>2. ASSUME NEW t \in S PROVE PastType(t) \in S
  <2>. DEFINE r == PastType(t)
  <2>1. /\ Scans(t) /\ Fresh(t) /\ Ahead(e, t) /\ t.off <= Len(e.data)
        /\ t = e \/ (t.off > e.off /\ t.opcode = "BeginLiteral")
    OBVIOUS
  <2>2. t.off <= Len(t.data)
    BY <2>1 DEF Ahead
  <2>3. /\ Scans(r) /\ Fresh(r) /\ Ahead(t, r) /\ r.off <= Len(t.data)
        /\ r = t \/ (r.off > t.off /\ r.opcode = "BeginLiteral")
    BY <2>1, <2>2, PastTypeFacts
  <2>. HIDE DEF r
  <2>4. /\ r \in [data : Seq(Byte), off : Nat, opcode : Opcode, scan : ScannerRecord,
                  anchors : {e.anchors}, savedError : {e.savedError}]
        /\ r.off \in Nat /\ t.off \in Nat
    BY <2>1, <2>3 DEF Scans, Ahead
  <2>5. /\ Ahead(e, r) /\ r.off <= Len(e.data)
        /\ r = e \/ (r.off > e.off /\ r.opcode = "BeginLiteral")
    BY <1>1, <2>1, <2>3, <2>4 DEF Ahead
  <2>. QED
    BY <2>3, <2>4, <2>5 DEF r
<1>3. e \in S
  BY <1>1 DEF Scans, Ahead
<1>. HIDE DEF S, L
<1>4. F \in [S -> S]
  BY <1>2
<1>5. \A t \in S : F[t] = PastType(t)
  OBVIOUS
<1>. HIDE DEF F
<1>6. PICK f \in Walks(S, F, e, L) : TRUE
  BY <1>1, <1>3, <1>4, IterationExists
<1>7. Is(f)
  <2>1. f \in [0..L -> S] /\ f[0] = e /\ \A n \in 1..L : f[n] = F[f[n - 1]]
    BY <1>6 DEF Walks
  <2>2. ASSUME NEW n \in 0..L PROVE f[n] = IF n = 0 THEN e ELSE PastType(f[n - 1])
    <3>1. n = 0 \/ (n \in 1..L /\ n - 1 \in 0..L)
      BY <1>1
    <3>. QED
      BY <1>5, <2>1, <3>1
  <2>. QED
    BY <2>1, <2>2
<1>8. Is(g)
  <2>. HIDE DEF Is
  <2>. QED
    BY <1>7
<1>9. PastTypes(e) = g[L]
  BY DEF PastTypes, Iterates, L
<1>. HIDE DEF g
<1>10. g[0] = e /\ \A n \in 1..L : g[n] = PastType(g[n - 1])
  <2>1. 0 \in 0..L /\ \A n \in 1..L : n \in 0..L /\ n # 0
    BY <1>1
  <2>. QED
    BY <1>8, <2>1
<1>11. \A n \in 1..L : g[n - 1] \in S => g[n] = F[g[n - 1]]
  BY <1>5, <1>10
<1>. HIDE DEF Is
<1>12. \A n \in 0..L : g[n] \in S
  BY <1>1, <1>3, <1>4, <1>10, <1>11, IterationStays
<1>. QED
  BY <1>1, <1>9, <1>12 DEF S

\* Behind the value itself
LEMMA PastValueFacts ==
  ASSUME NEW e, Scans(e), Fresh(e), e.off <= Len(e.data)
  PROVE  LET t == PastValue(e)
         IN  /\ Scans(t) /\ Ahead(e, t) /\ t.off <= Len(e.data)
             /\ Fresh(t) \/ t.off = Len(e.data)
<1>1. PastValue(e) \in {PastMultiline(e), e, AfterType(e), PastLiteral(e, {"Continue"})}
  BY DEF PastValue
<1>2. AfterType(e) = PastLiteral(e, {"Continue", "SkipSpace"})
  BY DEF AfterType
<1>3. Scans(e) /\ Ahead(e, e)
  BY DEF Scans, Ahead
<1>4. \A ops : LET t == PastLiteral(e, ops)
                IN  Scans(t) /\ Fresh(t) /\ Ahead(e, t) /\ t.off <= Len(e.data)
  BY PastLiteralFacts
<1>5. LET t == PastMultiline(e)
      IN  /\ Scans(t) /\ Ahead(e, t) /\ t.off <= Len(e.data)
          /\ Fresh(t) \/ t.off = Len(e.data)
  BY PastMultilineFacts
<1>. QED
  BY <1>1, <1>2, <1>3, <1>4, <1>5

\* The end of rescanLiteral counts one byte or none.
LEMMA RescannedFacts ==
  ASSUME NEW e, Scans(e), e.off <= Len(e.data), Fresh(e) \/ e.off = Len(e.data)
  PROVE  LET t == Rescanned(AtEnd(e))
         IN  /\ Good(t) /\ Ahead(e, t) /\ t.scan = e.scan
             /\ t.off = IF BackToColon(AtEnd(e)) THEN e.off ELSE e.off + 1
             /\ t.opcode = IF e.off = Len(e.data) THEN "End" ELSE e.opcode
<1>. DEFINE op == IF e.off = Len(e.data) THEN "End" ELSE e.opcode
            u == [e EXCEPT !.opcode = op]
            a == AtEnd(e)
            k == IF BackToColon(a) THEN a.off ELSE a.off + 1
            t == [a EXCEPT !.off = k]
<1>0. /\ e.off \in Nat /\ Len(e.data) \in Nat /\ e.opcode \in Opcode /\ e.off <= Len(e.data) + 1
      /\ "End" \in Opcode
  BY DEF Scans, Opcode
<1>1. op \in Opcode
  BY <1>0
<1>2. a = e \/ a = [e EXCEPT !.opcode = "End"]
  BY DEF AtEnd
<1>3. Scans(a) /\ Same(e, a) /\ a.off = e.off /\ a.scan = e.scan /\ a.opcode = op
  <2>1. CASE e.off = Len(e.data)
    <3>1. a = [e EXCEPT !.opcode = "End"] /\ op = "End"
      BY <2>1 DEF AtEnd
    <3>. HIDE DEF a, op
    <3>. QED
      BY <1>0, <3>1, ScansChanges
  <2>2. CASE e.off # Len(e.data)
    BY <2>2 DEF AtEnd
  <2>. QED
    BY <2>1, <2>2
<1>4. Rescanned(a) = t
  BY <1>3 DEF Rescanned
<1>. HIDE DEF a
<1>5. k \in Nat /\ k <= Len(a.data) + 1 /\ k >= e.off /\ (k > Len(e.data) => e.off = Len(e.data))
  BY <1>0, <1>3
<1>6. k = IF BackToColon(a) THEN e.off ELSE e.off + 1
  BY <1>3
<1>. HIDE DEF k
<1>7. Scans(t) /\ Same(a, t) /\ t.off = k /\ t.opcode = a.opcode /\ t.scan = a.scan
  BY <1>1, <1>3, <1>5, ScansChanges
<1>. HIDE DEF t
<1>8. Good(t)
  BY <1>0, <1>3, <1>5, <1>7 DEF Good, Fresh
<1>. QED
  BY <1>0, <1>3, <1>4, <1>5, <1>6, <1>7, <1>8 DEF Ahead, a

\* rescanLiteral
LEMMA RescanFacts ==
  ASSUME NEW e, Scans(e), Fresh(e), e.off <= Len(e.data)
  PROVE  Good(rescanLiteral(e)) /\ Ahead(e, rescanLiteral(e))
<1>. DEFINE a == PastTypes(e)
            b == PastValue(a)
            t == Rescanned(AtEnd(b))
<1>1. Scans(a) /\ Fresh(a) /\ Ahead(e, a) /\ a.off <= Len(e.data)
  BY PastTypesFacts
<1>2. rescanLiteral(e) = t
  BY DEF rescanLiteral
<1>. HIDE DEF a
<1>3. a.off <= Len(a.data)
  BY <1>1 DEF Ahead
<1>4. /\ Scans(b) /\ Ahead(a, b) /\ b.off <= Len(a.data)
      /\ Fresh(b) \/ b.off = Len(a.data)
  BY <1>1, <1>3, PastValueFacts
<1>. HIDE DEF b
<1>5. b.off <= Len(b.data) /\ (Fresh(b) \/ b.off = Len(b.data))
  BY <1>4 DEF Ahead
<1>6. Good(t) /\ Ahead(b, t)
  BY <1>4, <1>5, RescannedFacts
<1>. HIDE DEF t
<1>7. a.off \in Nat /\ b.off \in Nat /\ t.off \in Nat /\ e.off \in Nat
  BY <1>1, <1>4, <1>6 DEF Good, Scans
<1>. QED
  BY <1>1, <1>2, <1>4, <1>6, <1>7 DEF Ahead

\* The byte after a collection, or the end of the data
LEMMA PastBracketFacts ==
  ASSUME NEW e, Good(e), NEW fn
  PROVE  Good(PastBracket(e, fn)) /\ Ahead(e, PastBracket(e, fn))
<1>0. Scans(e) /\ e.off \in Nat /\ Len(e.data) \in Nat /\ e.off <= Len(e.data) + 1
  BY DEF Good, Scans
<1>1. CASE e.off < Len(e.data)
  <2>. DEFINE t == Read(e)
  <2>1. Scans(t) /\ Same(e, t) /\ t.off = e.off + 1 /\ Fresh(t)
    BY <1>0, <1>1, ReadScans, ReadFollows
  <2>2. scanNext(e) = t
    BY <1>1 DEF scanNext
  <2>. HIDE DEF t
  <2>3. Good(t)
    BY <1>0, <1>1, <2>1, InTextGood
  <2>. QED
    BY <1>0, <2>1, <2>2, <2>3 DEF PastBracket, Ahead
<1>2. CASE ~(e.off < Len(e.data))
  <2>. DEFINE t == Over(e, Eof(e.scan))
  <2>1. Good(t) /\ Same(e, t) /\ t.off = Len(e.data) + 1
    BY <1>0, OverGood
  <2>2. scanNext(e) = t
    BY <1>2 DEF scanNext
  <2>. HIDE DEF t
  <2>. QED
    BY <1>0, <2>1, <2>2 DEF PastBracket, Ahead
<1>. QED
  BY <1>1, <1>2

-----------------------------------------------------------------------------
(***************************************************************************)
(* What a call does to decodeState besides.                                *)
(***************************************************************************)
\* The error that is saved, and the anchors, have no part in the moves.
Alike(b, e) ==
  e.data = b.data /\ e.off = b.off /\ e.opcode = b.opcode /\ e.scan = b.scan

\* saveError, and what the deferred function of an anchor stores
LEMMA SavedFacts ==
  ASSUME NEW e, Good(e)
  PROVE  /\ Good(SaveError(e)) /\ Alike(e, SaveError(e))
         /\ \A f, val : Good(Anchored(f, e, val)) /\ Alike(e, Anchored(f, e, val))
<1>1. e \in [data : Seq(Byte), off : Nat, opcode : Opcode, scan : ScannerRecord,
             anchors : {e.anchors}, savedError : {e.savedError}]
  BY DEF Good, Scans
<1>2. ASSUME NEW x PROVE LET t == [e EXCEPT !.anchors = x] IN Good(t) /\ Alike(e, t)
  <2>. DEFINE t == [e EXCEPT !.anchors = x]
  <2>1. /\ t \in [data : Seq(Byte), off : Nat, opcode : Opcode, scan : ScannerRecord,
                  anchors : {t.anchors}, savedError : {t.savedError}]
        /\ Alike(e, t)
    BY <1>1 DEF Alike
  <2>. HIDE DEF t
  <2>. QED
    BY <2>1 DEF Good, Scans, Fresh, Alike, t
<1>3. Good(SaveError(e)) /\ Alike(e, SaveError(e))
  <2>. DEFINE t == SaveError(e)
  <2>1. /\ t \in [data : Seq(Byte), off : Nat, opcode : Opcode, scan : ScannerRecord,
                  anchors : {t.anchors}, savedError : {t.savedError}]
        /\ Alike(e, t)
    BY <1>1 DEF Alike, SaveError
  <2>. HIDE DEF t
  <2>. QED
    BY <2>1 DEF Good, Scans, Fresh, Alike, t
<1>4. ASSUME NEW f, NEW val PROVE Good(Anchored(f, e, val)) /\ Alike(e, Anchored(f, e, val))
  <2>1. \/ Anchored(f, e, val) = e \/ Anchored(f, e, val) = SaveError(e)
        \/ \E x : Anchored(f, e, val) = [e EXCEPT !.anchors = x]
    BY DEF Anchored
  <2>. QED
    BY <1>2, <1>3, <2>1 DEF Alike
<1>. QED
  BY <1>3, <1>4

\* The document is a part of the text.
LEMMA DocumentFacts ==
  ASSUME NEW b \in Seq(Byte)
  PROVE  Document(b) \in Seq(Byte)
<1>. DEFINE start == documentStartIndex(b)
            rest  == Drop(b, start)
            next  == documentStartIndex(rest)
            body  == IF start > 0 THEN UpToNext(rest, next) ELSE b
            end   == documentEndIndex(body)
<1>1. start \in 0..Len(b)
  BY StartFacts
<1>. HIDE DEF start
<1>2. rest \in Seq(Byte)
  BY <1>1, DropFacts
<1>. HIDE DEF rest
<1>3. next \in 0..Len(rest) /\ Len(rest) \in Nat
  BY <1>2, StartFacts, LenProperties
<1>. HIDE DEF next
<1>4. UpToNext(rest, next) \in Seq(Byte)
  <2>. DEFINE k == IF next > 4 THEN next - 4 ELSE 0
  <2>1. k \in 0..Len(rest)
    BY <1>3
  <2>2. UpToNext(rest, next) = IF next = 0 THEN rest ELSE Keep(rest, k)
    BY DEF UpToNext
  <2>. HIDE DEF k
  <2>3. Keep(rest, k) \in Seq(Byte)
    BY <1>2, <2>1, KeepFacts
  <2>. QED
    BY <1>2, <2>2, <2>3
<1>5. body \in Seq(Byte)
  BY <1>4
<1>6. Document(b) = IF end > -1 THEN Keep(body, end) ELSE body
  BY DEF Document, start, rest, next
<1>. HIDE DEF body
<1>7. end = -1 \/ end \in 0..Len(body)
  BY <1>5, EndFacts
<1>. HIDE DEF end
<1>8. end # -1 => Keep(body, end) \in Seq(Byte)
  BY <1>5, <1>7, KeepFacts
<1>. QED
  BY <1>5, <1>6, <1>7, <1>8

\* init
LEMMA NewStateScans ==
  ASSUME NEW b \in Seq(Byte)
  PROVE  LET t == NewState(b) IN Scans(t) /\ t.off = 0 /\ t.data = b /\ t.opcode = "Continue"
<1>. DEFINE t == NewState(b)
<1>1. Sound(Reset) /\ Reset \in ScannerRecord /\ Len(b) \in Nat /\ "Continue" \in Opcode
  BY ResetSound, LenProperties DEF Sound, Frames, Stacks, Opcode
<1>2. /\ t \in [data : Seq(Byte), off : Nat, opcode : Opcode, scan : ScannerRecord,
                anchors : {t.anchors}, savedError : {t.savedError}]
      /\ t.off = 0 /\ t.data = b /\ t.opcode = "Continue" /\ t.scan = Reset
  BY <1>1 DEF NewState
<1>. HIDE DEF t
<1>. QED
  BY <1>1, <1>2 DEF Scans, t

-----------------------------------------------------------------------------
(***************************************************************************)
(* The stack of calls.                                                     *)
(***************************************************************************)
\* A Go call on the way
IsCall(f) ==
  f \in [fn : {"value", "array", "object"}, at : {"begin", "head", "stored", "array", "object"},
         type : {f.type}, iface : {f.iface}, depth : {f.depth}, anchor : {f.anchor},
         key : {f.key}, acc : {f.acc}]

IsStack(q) == q \in Seq({q[i] : i \in DOMAIN q}) /\ \A i \in DOMAIN q : IsCall(q[i])

\* The parts of TypeOK that are about one call, and about a call and the next
Collects(f) == /\ f.fn = "array"  => f.acc[1] = "list"
               /\ f.fn = "object" => f.acc[1] = "map"

Alternates(q) ==
  \A i \in DOMAIN q :
    /\ q[i].fn = "value" <=> i % 2 = 1
    /\ Collects(q[i])
    /\ i < Len(q) => q[i].at = IF i % 2 = 1 THEN q[i + 1].fn ELSE "stored"

\* Any sequence of calls is a stack.
LEMMA StackOf ==
  ASSUME NEW S, NEW q \in Seq(S), \A i \in 1..Len(q) : IsCall(q[i])
  PROVE  IsStack(q)
<1>. DEFINE R == {q[i] : i \in DOMAIN q}
<1>1. Len(q) \in Nat /\ DOMAIN q = 1..Len(q)
  BY LenProperties
<1>2. \A i \in 1..Len(q) : q[i] \in R
  BY <1>1
<1>3. q \in Seq(R)
  <2>1. q = [i \in 1..Len(q) |-> q[i]]
    BY <1>1
  <2>. HIDE DEF R
  <2>2. q \in [1..Len(q) -> R]
    BY <1>2, <2>1
  <2>. QED
    BY <1>1, <2>2
<1>. QED
  BY <1>1, <1>3 DEF IsStack

\* The calls below the running one
LEMMA PopCall ==
  ASSUME NEW q, IsStack(q), Alternates(q), q # <<>>
  PROVE  LET b == SubSeq(q, 1, Len(q) - 1)
         IN  /\ IsStack(b) /\ Alternates(b) /\ Len(b) = Len(q) - 1 /\ Len(q) \in Nat /\ Len(b) \in Nat
             /\ \A i \in 1..Len(b) : b[i] = q[i]
             /\ IsCall(q[Len(q)]) /\ Len(q) \in 1..Len(q) /\ DOMAIN q = 1..Len(q)
<1>. DEFINE S == {q[i] : i \in DOMAIN q}
            b == SubSeq(q, 1, Len(q) - 1)
<1>1. q \in Seq(S) /\ \A i \in DOMAIN q : IsCall(q[i])
  BY DEF IsStack
<1>. HIDE DEF S
<1>2. /\ b \in Seq(S) /\ Len(b) = Len(q) - 1 /\ Len(b) \in Nat
      /\ \A i \in 1..(Len(q) - 1) : b[i] = q[i]
  BY <1>1, PopOff
<1>3. DOMAIN q = 1..Len(q) /\ Len(q) \in Nat /\ Len(q) \in 1..Len(q)
  BY <1>1
<1>4. DOMAIN b = 1..Len(b)
  BY <1>2
<1>. HIDE DEF b
<1>5. \A i \in 1..Len(b) : i \in DOMAIN q /\ b[i] = q[i] /\ i < Len(q)
                           /\ (i < Len(b) => i + 1 \in 1..Len(b))
  BY <1>2, <1>3
<1>6. IsStack(b)
  BY <1>1, <1>2, <1>5, StackOf
<1>7. Alternates(b)
  BY <1>4, <1>5 DEF Alternates
<1>. QED
  BY <1>1, <1>2, <1>3, <1>5, <1>6, <1>7 DEF b

\* The running call goes on.
LEMMA ReplaceCall ==
  ASSUME NEW q, IsStack(q), Alternates(q), q # <<>>, NEW f, IsCall(f), Collects(f),
         f.fn = q[Len(q)].fn
  PROVE  LET r == Append(SubSeq(q, 1, Len(q) - 1), f)
         IN  /\ IsStack(r) /\ Alternates(r) /\ Len(r) = Len(q) /\ r # <<>> /\ DOMAIN r = 1..Len(q)
             /\ \A i \in 1..(Len(q) - 1) : r[i] = q[i]
             /\ r[Len(q)] = f
<1>. DEFINE S == {q[i] : i \in DOMAIN q} \cup {f}
            r == Append(SubSeq(q, 1, Len(q) - 1), f)
<1>1. q \in Seq(S) /\ \A i \in DOMAIN q : IsCall(q[i])
  <2>1. q \in Seq({q[i] : i \in DOMAIN q})
    BY DEF IsStack
  <2>. QED
    BY <2>1, SeqMonotonic DEF IsStack
<1>2. f \in S
  OBVIOUS
<1>. HIDE DEF S
<1>3. /\ r \in Seq(S) /\ Len(r) = Len(q) /\ r # <<>>
      /\ \A i \in 1..(Len(q) - 1) : r[i] = q[i]
      /\ r[Len(q)] = f
  BY <1>1, <1>2, ReplaceTop
<1>4. DOMAIN q = 1..Len(q) /\ Len(q) \in Nat /\ Len(q) \in 1..Len(q)
  BY <1>1
<1>5. DOMAIN r = 1..Len(q)
  BY <1>3
<1>. HIDE DEF r
<1>. PICK n \in Nat : n = Len(q)
  BY <1>4
<1>6. \A i \in 1..n : i = n \/ (i \in 1..(n - 1) /\ i + 1 \in 1..n /\ i < n)
  OBVIOUS
<1>7. IsStack(r)
  <2>1. \A i \in 1..Len(r) : IsCall(r[i])
    BY <1>1, <1>3, <1>4, <1>6
  <2>. QED
    BY <1>3, <2>1, StackOf
<1>8. Alternates(r)
  <2>1. \A i \in 1..n : r[i].fn = q[i].fn
    BY <1>3, <1>6
  <2>2. \A i \in 1..n : Collects(r[i])
    BY <1>3, <1>4, <1>6 DEF Alternates
  <2>3. \A i \in 1..n : i < n => r[i].at = q[i].at /\ r[i + 1].fn = q[i + 1].fn
    BY <1>3, <1>6, <2>1
  <2>. QED
    BY <1>3, <1>4, <1>5, <2>1, <2>2, <2>3 DEF Alternates
<1>. QED
  BY <1>3, <1>5, <1>7, <1>8 DEF r

\* The running call f goes on and calls c.
Pushed(q, f, c) == SubSeq(q, 1, Len(q) - 1) \o <<f, c>>

\* The stack is one again.
LEMMA PushCall ==
  ASSUME NEW q, IsStack(q), Alternates(q), q # <<>>, NEW f, IsCall(f), Collects(f),
         f.fn = q[Len(q)].fn, NEW c, IsCall(c), Collects(c),
         f.fn = "value" => c.fn # "value" /\ f.at = c.fn,
         f.fn # "value" => c.fn = "value" /\ f.at = "stored"
  PROVE  LET r == Pushed(q, f, c)
         IN  /\ IsStack(r) /\ Alternates(r) /\ Len(r) = Len(q) + 1 /\ r # <<>>
             /\ DOMAIN r = 1..(Len(q) + 1)
             /\ \A i \in 1..(Len(q) - 1) : r[i] = q[i]
             /\ r[Len(q)] = f /\ r[Len(q) + 1] = c
<1>. DEFINE S == {q[i] : i \in DOMAIN q} \cup {f, c}
            b == SubSeq(q, 1, Len(q) - 1)
            r == b \o <<f, c>>
<1>1. q \in Seq(S) /\ \A i \in DOMAIN q : IsCall(q[i])
  <2>1. q \in Seq({q[i] : i \in DOMAIN q})
    BY DEF IsStack
  <2>. QED
    BY <2>1, SeqMonotonic DEF IsStack
<1>2. f \in S /\ c \in S
  OBVIOUS
<1>. HIDE DEF S
<1>3. /\ b \in Seq(S) /\ Len(b) = Len(q) - 1 /\ Len(b) \in Nat
      /\ \A i \in 1..(Len(q) - 1) : b[i] = q[i]
  BY <1>1, PopOff
<1>4. DOMAIN q = 1..Len(q) /\ Len(q) \in Nat /\ Len(q) \in 1..Len(q)
  BY <1>1
<1>. HIDE DEF b
<1>a. /\ r \in Seq(S) /\ Len(r) = Len(b) + 2 /\ r # <<>>
      /\ \A i \in 1..Len(b) : r[i] = b[i]
      /\ r[Len(b) + 1] = f /\ r[Len(b) + 2] = c
  BY <1>2, <1>3, PushTwo
<1>5. DOMAIN r = 1..Len(r)
  BY <1>a
<1>. HIDE DEF r
<1>6. /\ Len(b) + 1 = Len(q) /\ Len(b) + 2 = Len(q) + 1
  BY <1>3, <1>4
<1>7. /\ Len(r) = Len(q) + 1 /\ \A i \in 1..(Len(q) - 1) : r[i] = q[i]
      /\ r[Len(q)] = f /\ r[Len(q) + 1] = c
  BY <1>3, <1>6, <1>a
<1>. PICK n \in Nat : n = Len(q)
  BY <1>4
<1>8. \A i \in 1..(n + 1) :
        i = n + 1 \/ i = n \/ (i \in 1..(n - 1) /\ i + 1 \in 1..n /\ i < n)
  OBVIOUS
<1>9. IsStack(r)
  <2>1. \A i \in 1..(n + 1) : IsCall(r[i])
    <3>1. \A i \in 1..(n - 1) : i \in DOMAIN q
      BY <1>4
    <3>. QED
      BY <1>1, <1>7, <1>8, <3>1
  <2>. QED
    BY <1>7, <1>a, <2>1, StackOf
<1>10. Alternates(r)
  <2>1. (n % 2 = 1 <=> f.fn = "value") /\ ((n + 1) % 2 = 1 <=> ~(n % 2 = 1))
    <3>1. n \in DOMAIN q /\ f.fn = q[n].fn
      BY <1>4
    <3>2. (n + 1) % 2 = 1 <=> ~(n % 2 = 1)
      OBVIOUS
    <3>. QED
      BY <3>1, <3>2 DEF Alternates
  <2>2. ASSUME NEW i \in 1..(n + 1)
        PROVE  /\ r[i].fn = "value" <=> i % 2 = 1
               /\ Collects(r[i])
               /\ i < n + 1 => r[i].at = IF i % 2 = 1 THEN r[i + 1].fn ELSE "stored"
    <3>1. CASE i = n + 1
      BY <1>4, <1>7, <2>1, <3>1
    <3>2. CASE i = n
      BY <1>4, <1>7, <2>1, <3>2
    <3>3. CASE i \in 1..(n - 1)
      <4>1. r[i] = q[i] /\ r[i + 1].fn = q[i + 1].fn /\ i < n /\ i \in DOMAIN q
        <5>1. i + 1 = n \/ i + 1 \in 1..(n - 1)
          BY <3>3
        <5>. QED
          BY <1>4, <1>7, <3>3, <5>1
      <4>. QED
        BY <4>1 DEF Alternates
    <3>. QED
      BY <1>8, <3>1, <3>2, <3>3
  <2>. QED
    BY <1>5, <1>7, <2>2 DEF Alternates
<1>. QED
  BY <1>5, <1>7, <1>9, <1>10, <1>a DEF r, b, Pushed

-----------------------------------------------------------------------------
(***************************************************************************)
(* The invariant behind TypeOK.                                            *)
(***************************************************************************)
ParserInv ==
  /\ input \in Inputs
  /\ Scans(d) /\ (outcome = "running" => Good(d))
  /\ IsStack(calls) /\ Alternates(calls)
  /\ calls = <<>> <=> outcome # "running"

\* Between two calls
Running == ParserInv /\ outcome = "running"

\* The invariant holds what Parser says of the types.
LEMMA ParserInvImpliesTypeOK == ParserInv => TypeOK
<1>. SUFFICES ASSUME ParserInv PROVE TypeOK
  OBVIOUS
<1>1. d.off \in 0..(Len(d.data) + 1)
  BY DEF ParserInv, Scans
<1>. QED
  BY <1>1 DEF ParserInv, TypeOK, Alternates, Collects

\* Before Unmarshal has looked at the text
LEMMA ParserInit == Init => ParserInv
<1>. SUFFICES ASSUME Init PROVE ParserInv
  OBVIOUS
<1>1. Scans(d)
  BY NewStateScans, EmptySeq DEF Init
<1>2. IsStack(<<>>) /\ Alternates(<<>>)
  BY DEF IsStack, Alternates
<1>. QED
  BY <1>1, <1>2 DEF Init, ParserInv

\* The running call
LEMMA RunningCall ==
  ASSUME Running
  PROVE  /\ calls # <<>> /\ IsCall(Top) /\ Collects(Top) /\ Good(d)
         /\ Len(calls) \in 1..Len(calls)
<1>1. calls # <<>> /\ IsStack(calls) /\ Alternates(calls) /\ Good(d)
  BY DEF Running, ParserInv
<1>2. IsCall(calls[Len(calls)]) /\ Len(calls) \in 1..Len(calls) /\ DOMAIN calls = 1..Len(calls)
  BY <1>1, PopCall
<1>. QED
  BY <1>1, <1>2 DEF Top, Alternates

\* What the four ways on keep
LEMMA ContinueKeeps ==
  ASSUME Running, NEW e, Good(e), NEW f, IsCall(f), Collects(f), f.fn = Top.fn, Continue(e, f)
  PROVE  ParserInv'
<1>. DEFINE r == Append(SubSeq(calls, 1, Len(calls) - 1), f)
<1>1. calls # <<>> /\ IsStack(calls) /\ Alternates(calls) /\ f.fn = calls[Len(calls)].fn
  BY DEF Running, ParserInv, Top
<1>2. IsStack(r) /\ Alternates(r) /\ r # <<>>
  BY <1>1, ReplaceCall
<1>3. calls' = r /\ d' = e /\ outcome' = outcome /\ input' = input
  BY DEF Continue, Callers
<1>. HIDE DEF r
<1>. QED
  BY <1>2, <1>3 DEF ParserInv, Running, Good

\* ... of a call that calls another
LEMMA CallKeeps ==
  ASSUME Running, NEW e, Good(e), NEW f, IsCall(f), Collects(f), f.fn = Top.fn,
         NEW c, IsCall(c), Collects(c),
         f.fn = "value" => c.fn # "value" /\ f.at = c.fn,
         f.fn # "value" => c.fn = "value" /\ f.at = "stored",
         Call(e, f, c)
  PROVE  ParserInv'
<1>. DEFINE r == Pushed(calls, f, c)
<1>1. calls # <<>> /\ IsStack(calls) /\ Alternates(calls) /\ f.fn = calls[Len(calls)].fn
  BY DEF Running, ParserInv, Top
<1>2. IsStack(r) /\ Alternates(r) /\ r # <<>>
  BY <1>1, PushCall
<1>3. calls' = r /\ d' = e /\ outcome' = outcome /\ input' = input
  BY DEF Call, Callers, Pushed
<1>. HIDE DEF r
<1>. QED
  BY <1>2, <1>3 DEF ParserInv, Running, Good

\* ... of a call that returns
LEMMA ReturnKeeps ==
  ASSUME Running, NEW e, Good(e), NEW val, Return(e, val)
  PROVE  ParserInv'
<1>. DEFINE r == SubSeq(calls, 1, Len(calls) - 1)
<1>1. calls # <<>> /\ IsStack(calls) /\ Alternates(calls)
  BY DEF Running, ParserInv
<1>2. IsStack(r) /\ Alternates(r)
  BY <1>1, PopCall
<1>3. /\ calls' = r /\ d' = e /\ input' = input
      /\ outcome' = IF r # <<>> THEN outcome ELSE IF e.savedError THEN "error" ELSE "ok"
  BY DEF Return, Callers
<1>. HIDE DEF r
<1>. QED
  BY <1>2, <1>3 DEF ParserInv, Running, Good

\* ... of an error or a panic
LEMMA AbortKeeps ==
  ASSUME Running, NEW e, Good(e), NEW how, Abort(e, how)
  PROVE  ParserInv'
<1>1. IsStack(<<>>) /\ Alternates(<<>>)
  BY DEF IsStack, Alternates
<1>2. calls' = <<>> /\ d' = e /\ input' = input /\ outcome' # "running"
  BY DEF Abort
<1>. QED
  BY <1>1, <1>2 DEF ParserInv, Running, Good

\* The end of value: the anchor is stored first.
LEMMA ReturnAnchoredKeeps ==
  ASSUME Running, NEW f, NEW e, Good(e), NEW val, NEW how, ReturnAnchored(f, Ends(e, val, how))
  PROVE  ParserInv'
<1>. DEFINE t == Anchored(f, e, val)
<1>1. Good(t)
  BY SavedFacts
<1>2. [Ends(e, val, how) EXCEPT !.d = Anchored(f, Ends(e, val, how).d, Ends(e, val, how).val)]
      = Ends(t, val, how)
  BY DEF Ends
<1>3. ReturnOf(Ends(t, val, how))
  BY <1>2 DEF ReturnAnchored
<1>. HIDE DEF t
<1>4. Return(t, val) \/ Abort(t, how)
  BY <1>3 DEF ReturnOf, Ends
<1>. QED
  BY <1>1, <1>4, ReturnKeeps, AbortKeeps

-----------------------------------------------------------------------------
(***************************************************************************)
(* Every step keeps it.                                                    *)
(***************************************************************************)
LEMMA UnmarshalKeeps ==
  ASSUME ParserInv, Unmarshal
  PROVE  ParserInv'
<1>1. CASE ~checkValid(input.text)
  BY <1>1 DEF Unmarshal, ParserInv
<1>2. CASE checkValid(input.text)
  <2>. DEFINE b == Document(input.text)
              n == NewState(b)
              e == scanWhile(n, "SkipSpace")
              c == ValueCall(input.type, FALSE)
  <2>1. d' = e /\ calls' = <<c>> /\ outcome' = "running" /\ input' = input
    BY <1>2 DEF Unmarshal
  <2>2. b \in Seq(Byte)
    BY DocumentFacts, InputsAssumption DEF ParserInv
  <2>. HIDE DEF b
  <2>3. Scans(n)
    BY <2>2, NewStateScans
  <2>. HIDE DEF n
  <2>4. Good(e)
    BY <2>3, ScanWhileFacts
  <2>. HIDE DEF e
  <2>5. IsCall(c) /\ Collects(c) /\ c.fn = "value"
    BY DEF IsCall, Collects, ValueCall
  <2>. HIDE DEF c
  <2>. DEFINE q == <<c>>
  <2>6. q \in Seq({c}) /\ Len(q) = 1 /\ DOMAIN q = 1..1 /\ q[1] = c /\ q # <<>>
    OBVIOUS
  <2>7. \A i \in 1..1 : i = 1 /\ i % 2 = 1
    OBVIOUS
  <2>. HIDE DEF q
  <2>8. IsStack(q)
    <3>1. \A i \in 1..Len(q) : IsCall(q[i])
      BY <2>5, <2>6, <2>7
    <3>. QED
      BY <2>6, <3>1, StackOf
  <2>9. Alternates(q)
    BY <2>5, <2>6, <2>7 DEF Alternates
  <2>. QED
    BY <2>1, <2>4, <2>6, <2>8, <2>9 DEF ParserInv, Good, q
<1>. QED
  BY <1>1, <1>2

\* The state in which value looks at the opcode
LEMMA ScannedFacts ==
  ASSUME NEW e, Good(e), NEW s, s = e.scan, NEW f
  PROVE  LET t == IF e.opcode = "BeginLiteral" /\ (f.iface => InBlock(s)) THEN quickScan(e) ELSE e
         IN  Good(t) /\ Ahead(e, t)
<1>1. e.off \in Nat
  BY DEF Good, Scans
<1>2. e.opcode = "BeginLiteral" => Good(quickScan(e)) /\ Ahead(e, quickScan(e))
  BY QuickScanFacts
<1>. QED
  BY <1>1, <1>2 DEF Ahead

\* What StoreItem returns
LEMMA StoreItemFacts ==
  ASSUME NEW f, NEW r, Good(r), NEW item
  PROVE  \E t, val, how : StoreItem(f, r, item) = Ends(t, val, how) /\ Good(t) /\ Alike(r, t)
<1>1. Good(SaveError(r)) /\ Alike(r, SaveError(r)) /\ Alike(r, r)
  BY SavedFacts DEF Alike
<1>2. ASSUME NEW x
      PROVE  \/ EndsWith(r, x) = Ends(SaveError(r), x.val, "ok")
             \/ EndsWith(r, x) = Ends(r, x.val, x.how)
  BY DEF EndsWith
<1>3. \/ \E x : StoreItem(f, r, item) = EndsWith(r, x)
      \/ StoreItem(f, r, item) = Ends(r, Nil, "ok")
  BY DEF StoreItem
<1>. QED
  BY <1>1, <1>2, <1>3

\* value looks at the opcode.
LEMMA ValueBeginKeeps ==
  ASSUME Running, ValueBegin
  PROVE  ParserInv'
<1>1. Top.fn = "value" /\ IsCall(Top) /\ Collects(Top) /\ Good(d)
  BY RunningCall DEF ValueBegin, Runs
<1>. DEFINE e == Scanned(Top)
            f == [Top EXCEPT !.anchor = Anchor(Top)]
<1>2. Good(e)
  BY <1>1, ScannedFacts DEF Scanned
<1>3. IsCall(f) /\ f.fn = "value" /\ f.acc = Top.acc
  BY <1>1 DEF IsCall
<1>4. \/ \E val : ReturnAnchored(f, Ends(e, val, "ok"))
      \/ e.opcode = "BeginArray" /\ BeginCollection(f, "array", e)
      \/ e.opcode \in {"BeginObject", "ObjectKey"} /\ BeginCollection(f, "object", e)
      \/ e.opcode = "BeginLiteral" /\ BeginLiteral(f, e)
      \/ \E how : Abort(e, how)
  <2>. HIDE DEF e, f
  <2>. QED
    BY DEF ValueBegin, e, f
<1>. HIDE DEF e, f
<1>5. ASSUME NEW fn \in {"array", "object"}, e.opcode \notin {"End", "Error"},
             BeginCollection(f, fn, e)
      PROVE  ParserInv'
  <2>1. CASE Holds(fn, f.type)
    <3>. DEFINE g == [f EXCEPT !.at = fn]
                c == LoopCall(fn, f.type, f.type = AnyType, LoopDepth(fn, e), EmptyAcc(fn, f.type))
    <3>1. Call(e, g, c)
      BY <1>5, <2>1 DEF BeginCollection
    <3>2. IsCall(g) /\ Collects(g) /\ g.fn = Top.fn /\ g.fn = "value" /\ g.at = fn
      BY <1>1, <1>3 DEF IsCall, Collects
    <3>3. /\ fn = "array" => EmptyAcc(fn, f.type)[1] = "list"
          /\ fn = "object" => EmptyAcc(fn, f.type)[1] = "map"
      BY DEF EmptyAcc, List, Mapping
    <3>4. IsCall(c) /\ c.fn = fn /\ c.acc = EmptyAcc(fn, f.type)
      BY DEF IsCall, LoopCall
    <3>5. Collects(c)
      BY <3>3, <3>4 DEF Collects
    <3>. HIDE DEF g, c
    <3>. QED
      BY <1>2, <3>1, <3>2, <3>4, <3>5, CallKeeps
  <2>2. CASE ~Holds(fn, f.type)
    <3>. DEFINE a == skip(e)
                b == Skipped(f, a)
                t == PastBracket(b, fn)
                how == IF a.off = 0 THEN "panic" ELSE "ok"
    <3>1. ReturnAnchored(f, Ends(t, ZeroOf(f.type), how))
      BY <1>5, <2>2 DEF BeginCollection, PastSkipped
    <3>2. Good(a)
      BY <1>2, <1>5, SkipFacts
    <3>. HIDE DEF a, how
    <3>3. Good(b)
      BY <3>2, SavedFacts DEF Skipped
    <3>. HIDE DEF b
    <3>4. Good(t)
      BY <3>3, PastBracketFacts
    <3>. HIDE DEF t
    <3>. QED
      BY <3>1, <3>4, ReturnAnchoredKeeps
  <2>. QED
    BY <2>1, <2>2
<1>6. ASSUME e.opcode = "BeginLiteral", BeginLiteral(f, e) PROVE ParserInv'
  <2>. DEFINE r == rescanLiteral(e)
  <2>1. Scans(e) /\ Fresh(e) /\ e.off <= Len(e.data)
    <3>1. Scans(e) /\ Fresh(e) /\ e.off \in Nat /\ Len(e.data) \in Nat
      BY <1>2 DEF Good, Scans
    <3>. QED
      BY <1>2, <1>6, <3>1 DEF Good
  <2>2. Good(r)
    BY <2>1, RescanFacts
  <2>3. \E item : ReturnAnchored(f, StoreItem(f, r, item))
    BY <1>6 DEF BeginLiteral
  <2>. HIDE DEF r
  <2>4. PICK item : ReturnAnchored(f, StoreItem(f, r, item))
    BY <2>3
  <2>5. PICK t, val, how : StoreItem(f, r, item) = Ends(t, val, how) /\ Good(t)
    BY <2>2, StoreItemFacts
  <2>6. ReturnAnchored(f, Ends(t, val, how))
    BY <2>4, <2>5
  <2>. QED
    BY <2>5, <2>6, ReturnAnchoredKeeps
<1>7. ASSUME NEW val, ReturnAnchored(f, Ends(e, val, "ok")) PROVE ParserInv'
  BY <1>2, <1>7, ReturnAnchoredKeeps
<1>8. ASSUME NEW how, Abort(e, how) PROVE ParserInv'
  BY <1>2, <1>8, AbortKeeps
<1>. QED
  BY <1>4, <1>5, <1>6, <1>7, <1>8

\* value has a collection back.
LEMMA ValueEndKeeps ==
  ASSUME Running, ValueEnd
  PROVE  ParserInv'
<1>1. PICK fn \in DOMAIN Closing : ReturnAnchored(Top, Ends(PastBracket(d, fn), ret, "ok"))
  BY DEF ValueEnd
<1>2. Good(PastBracket(d, fn))
  BY RunningCall, PastBracketFacts
<1>. QED
  BY <1>1, <1>2, ReturnAnchoredKeeps

\* The state in which an array looks for its end
LEMMA ToElementFacts ==
  ASSUME NEW e, Good(e)
  PROVE  Good(ToElement(e)) /\ Ahead(e, ToElement(e))
<1>1. Scans(e) /\ e.off \in Nat
  BY DEF Good, Scans
<1>2. Good(scanWhile(e, "SkipSpace")) /\ Ahead(e, scanWhile(e, "SkipSpace"))
  BY <1>1, ScanWhileFacts
<1>. QED
  BY <1>1, <1>2 DEF ToElement, Ahead

\* ... after it has scanned a "- " again
LEMMA HyphenAgainFacts ==
  ASSUME Running, NEW f
  PROVE  Good(HyphenAgain(f)) /\ Ahead(d, HyphenAgain(f))
<1>1. Good(d) /\ d.off \in Nat
  BY RunningCall DEF Good, Scans
<1>2. HyphenAgain(f) = d \/ (d.opcode = "BeginLiteral" /\ HyphenAgain(f) = quickScan(d))
  BY DEF HyphenAgain
<1>3. d.opcode = "BeginLiteral" => Good(quickScan(d)) /\ Ahead(d, quickScan(d))
  BY <1>1, QuickScanFacts
<1>. QED
  BY <1>1, <1>2, <1>3 DEF Ahead

\* The head of the loop of an array
LEMMA ArrayNextKeeps ==
  ASSUME Running, ArrayNext
  PROVE  ParserInv'
<1>1. Top.fn = "array" /\ IsCall(Top) /\ Collects(Top)
  BY RunningCall DEF ArrayNext, Runs
<1>. DEFINE h == HyphenAgain(Top)
            e == ToElement(h)
            f == [Top EXCEPT !.at = "stored"]
            c == ValueCall(ElementType(Top), Top.iface)
<1>2. Return(e, ArrayValue(Top)) \/ Call(e, f, c)
  BY DEF ArrayNext
<1>3. Good(h)
  BY HyphenAgainFacts
<1>. HIDE DEF h
<1>4. Good(e)
  BY <1>3, ToElementFacts
<1>. HIDE DEF e
<1>5. IsCall(f) /\ Collects(f) /\ f.fn = Top.fn /\ f.at = "stored"
  BY <1>1 DEF IsCall, Collects
<1>6. IsCall(c) /\ Collects(c) /\ c.fn = "value"
  BY DEF IsCall, Collects, ValueCall
<1>. HIDE DEF f, c
<1>. QED
  BY <1>1, <1>2, <1>4, <1>5, <1>6, CallKeeps, ReturnKeeps

\* ... and what follows an element
LEMMA ArrayStoredKeeps ==
  ASSUME Running, ArrayStored
  PROVE  ParserInv'
<1>1. Top.fn = "array" /\ IsCall(Top) /\ Collects(Top) /\ Good(d)
  BY RunningCall DEF ArrayStored, Runs
<1>. DEFINE e == PastSpace(d)
            f == [Top EXCEPT !.at = "head", !.acc = List(Append(@[2], ret))]
<1>2. Return(e, ArrayValue(f)) \/ Continue(e, f)
  BY DEF ArrayStored
<1>3. Good(e)
  BY <1>1, PastSpaceFacts
<1>. HIDE DEF e
<1>4. f.fn = Top.fn /\ f.acc = List(Append(Top.acc[2], ret))
  BY <1>1 DEF IsCall
<1>5. IsCall(f)
  BY <1>1 DEF IsCall
<1>6. Collects(f)
  BY <1>1, <1>4 DEF Collects, List
<1>. HIDE DEF f
<1>. QED
  BY <1>2, <1>3, <1>4, <1>5, <1>6, ContinueKeeps, ReturnKeeps

\* A mapping stays one.
LEMMA StoredFacts ==
  ASSUME NEW f, f.acc[1] = "map", NEW e, NEW val
  PROVE  Stored(f, e, val).d = e /\ Stored(f, e, val).val[1] = "map"
<1>1. \A k : With(f.acc, k, val)[1] = "map"
  BY DEF With, Mapping
<1>2. \A k, v : With(f.acc, k, v)[1] = "map"
  BY DEF With, Mapping
<1>3. \A v, how : Ends(e, v, how).d = e /\ Ends(e, v, how).val = v
  BY DEF Ends
<1>4. \E v, how : Stored(f, e, val) = Ends(e, v, how) /\ (v = f.acc \/ \E k : v = With(f.acc, k, val))
  BY DEF Stored
<1>. QED
  BY <1>1, <1>3, <1>4

\* A mapping after a value
LEMMA AfterValueKeeps ==
  ASSUME Running, NEW f, IsCall(f), f.fn = "object", Top.fn = "object", f.acc[1] = "map",
         NEW e, Good(e), NEW val, AfterValue(f, e, val)
  PROVE  ParserInv'
<1>. DEFINE r == Stored(f, e, val)
            s == PastSpace(r.d)
            g == [f EXCEPT !.at = "head", !.acc = r.val]
<1>1. r.d = e /\ r.val[1] = "map"
  BY StoredFacts
<1>2. Abort(r.d, r.how) \/ Return(s, r.val) \/ Continue(s, g)
  BY DEF AfterValue
<1>. HIDE DEF r
<1>3. Good(r.d) /\ Good(s)
  BY <1>1, PastSpaceFacts
<1>. HIDE DEF s
<1>4. IsCall(g) /\ g.fn = "object" /\ g.acc = r.val
  BY DEF IsCall
<1>5. Collects(g)
  BY <1>1, <1>4 DEF Collects
<1>. HIDE DEF g
<1>. QED
  BY <1>2, <1>3, <1>4, <1>5, AbortKeeps, ReturnKeeps, ContinueKeeps

\* ... from a key to its value
LEMMA ReadColonKeeps ==
  ASSUME Running, NEW f, IsCall(f), f.fn = "object", Top.fn = "object", f.acc[1] = "map",
         NEW e, Good(e), ReadColon(f, e)
  PROVE  ParserInv'
<1>. DEFINE c == PastSpace(e)
            v == scanWhile(c, "SkipSpace")
            type == FieldType(f, f.key.text)
            g == [f EXCEPT !.depth = Depth(c)]
            h == [f EXCEPT !.depth = Depth(c), !.at = "stored"]
            w == ValueCall(type, f.iface)
<1>1. ReadValue(f, c, v, type) \/ \E how : Abort(c, how)
  BY DEF ReadColon
<1>2. Good(c)
  BY PastSpaceFacts
<1>3. /\ IsCall(g) /\ g.fn = "object" /\ g.acc = f.acc
      /\ IsCall(h) /\ h.fn = "object" /\ h.acc = f.acc /\ h.at = "stored"
  BY DEF IsCall
<1>. HIDE DEF c
<1>4. Good(v)
  BY <1>2, ScanWhileFacts DEF Good
<1>5. \/ \E how : Abort(v, how)
      \/ \E val : Return(v, val)
      \/ \E val : AfterValue(g, v, val)
      \/ Call(v, h, w)
      \/ \E how : Abort(c, how)
  <2>. HIDE DEF v, g, h, w, type
  <2>. QED
    BY <1>1 DEF ReadValue, g, h, w
<1>. HIDE DEF v, g, h
<1>6. IsCall(w) /\ Collects(w) /\ w.fn = "value"
  BY DEF IsCall, Collects, ValueCall
<1>. HIDE DEF w
<1>7. Collects(h)
  BY <1>3 DEF Collects
<1>8. ASSUME Call(v, h, w) PROVE ParserInv'
  BY <1>3, <1>4, <1>6, <1>7, <1>8, CallKeeps
<1>. QED
  BY <1>2, <1>3, <1>4, <1>5, <1>8, AbortKeeps, ReturnKeeps, AfterValueKeeps

\* ... at the head of the loop
LEMMA ObjectNextKeeps ==
  ASSUME Running, ObjectNext
  PROVE  ParserInv'
<1>1. Top.fn = "object" /\ IsCall(Top) /\ Collects(Top) /\ Good(d)
  BY RunningCall DEF ObjectNext, Runs
<1>. DEFINE e == IF LastByte(d) \in {",", "{", "}"} \cup White THEN scanWhile(d, "SkipSpace") ELSE d
            r == rescanLiteral(e)
<1>2. \/ \E how : Abort(d, how)
      \/ Return(e, Top.acc)
      \/ ReadKey(Top, e)
  BY DEF ObjectNext
<1>3. Good(e)
  BY <1>1, ScanWhileFacts DEF Good
<1>. HIDE DEF e
<1>4. ASSUME ReadKey(Top, e) PROVE ParserInv'
  <2>1. \/ \E how : Abort(e, how)
        \/ ByteIsIn(e) /\ \E item : ReadItem(Top, r, item)
    BY <1>4 DEF ReadKey
  <2>2. ByteIsIn(e) => Good(r)
    <3>1. ByteIsIn(e) => Scans(e) /\ Fresh(e) /\ e.off <= Len(e.data)
      BY <1>3 DEF Good, Scans, ByteIsIn
    <3>. QED
      BY <3>1, RescanFacts
  <2>. HIDE DEF r
  <2>3. ASSUME ByteIsIn(e), NEW item, ReadItem(Top, r, item) PROVE ParserInv'
    <3>1. \/ \E how : Abort(r, how)
          \/ \E key : ReadColon([Top EXCEPT !.key = key], r)
      BY <2>3 DEF ReadItem
    <3>2. ASSUME NEW key, ReadColon([Top EXCEPT !.key = key], r) PROVE ParserInv'
      <4>. DEFINE f == [Top EXCEPT !.key = key]
      <4>1. IsCall(f) /\ f.fn = "object" /\ f.acc = Top.acc
        BY <1>1 DEF IsCall
      <4>2. f.acc[1] = "map"
        BY <1>1, <4>1 DEF Collects
      <4>. HIDE DEF f
      <4>. QED
        BY <1>1, <2>2, <2>3, <3>2, <4>1, <4>2, ReadColonKeeps DEF f
    <3>. QED
      BY <2>2, <2>3, <3>1, <3>2, AbortKeeps
  <2>. QED
    BY <1>3, <2>1, <2>3, AbortKeeps
<1>. QED
  BY <1>1, <1>2, <1>3, <1>4, AbortKeeps, ReturnKeeps

\* ... and when a value has been stored
LEMMA ObjectStoredKeeps ==
  ASSUME Running, ObjectStored
  PROVE  ParserInv'
<1>1. Top.fn = "object" /\ IsCall(Top) /\ Top.acc[1] = "map" /\ Good(d)
  BY RunningCall DEF ObjectStored, Runs, Collects
<1>2. AfterValue(Top, d, ret)
  BY DEF ObjectStored
<1>. QED
  BY <1>1, <1>2, AfterValueKeeps

\* All steps together
LEMMA ParserStep == ParserInv /\ [Next]_vars => ParserInv'
<1>. SUFFICES ASSUME ParserInv, [Next]_vars PROVE ParserInv'
  OBVIOUS
<1>1. CASE UNCHANGED vars
  BY <1>1 DEF vars, ParserInv
<1>2. CASE Unmarshal
  BY <1>2, UnmarshalKeeps
<1>3. CASE ValueBegin \/ ValueEnd \/ ArrayNext \/ ArrayStored \/ ObjectNext \/ ObjectStored
  <2>1. Running
    BY <1>3 DEF Running, ValueBegin, ValueEnd, ArrayNext, ArrayStored, ObjectNext, ObjectStored, Runs
  <2>. QED
    BY <1>3, <2>1, ValueBeginKeeps, ValueEndKeeps, ArrayNextKeeps, ArrayStoredKeeps,
       ObjectNextKeeps, ObjectStoredKeeps
<1>. QED
  BY <1>1, <1>2, <1>3 DEF Next

\* The calls of decodeState alternate between value and a loop, and its read index
\* stays in the text: for all texts, all types, and whatever becomes of the literals.
THEOREM ParserTypeOK == Spec => []TypeOK
<1>1. ParserInv /\ [Next]_vars => ParserInv'
  BY ParserStep
<1>. QED
  BY <1>1, ParserInit, ParserInvImpliesTypeOK, PTL DEF Spec

-----------------------------------------------------------------------------
(***************************************************************************)
(* Progress.  rescanLiteral reads at least one byte, or is at the end.     *)
(***************************************************************************)
\* A literal that has no more bytes has been ended by the next one.
LEMMA PastLiteralStays ==
  ASSUME NEW e, Scans(e), NEW ops, PastLiteral(e, ops).off = e.off, e.off < Len(e.data)
  PROVE  PastLiteral(e, ops).scan = Read(e).scan /\ PastLiteral(e, ops).opcode = Read(e).opcode
<1>0. e.off \in Nat /\ Len(e.data) \in Nat
  BY DEF Scans
<1>1. Stops(Reads(e), ops, 0)
  <2>1. AllRead(Reads(e)).off = Len(e.data)
    BY AllReadFacts
  <2>. QED
    BY <1>0, <2>1 DEF PastLiteral, UpTo
<1>. DEFINE n == BytesRead(Reads(e), ops, 0)
            a == Stopped(Reads(e), ops, 0)
            k == a.off - 1
            t == [a EXCEPT !.off = k]
<1>2. n \in 1..Left(e) /\ a = Reads(e)[n] /\ Scans(a) /\ a.off = e.off + n /\ a.off \in Nat
  BY <1>1, StoppedFacts DEF Scans
<1>3. PastLiteral(e, ops) = t
  BY <1>1 DEF PastLiteral, UpTo, Uncounted
<1>. HIDE DEF n, a
<1>4. Left(e) \in Nat /\ Reads(e)[0] = e
  BY ReadsFacts
<1>5. k = e.off + (n - 1) /\ k \in Nat /\ k <= Len(a.data) + 1
  BY <1>0, <1>2, <1>4 DEF Scans
<1>. HIDE DEF k
<1>6. t.off = k /\ t.scan = a.scan /\ t.opcode = a.opcode
  BY <1>2, <1>5, ScansChanges
<1>. HIDE DEF t
<1>7. n = 1
  BY <1>0, <1>2, <1>3, <1>4, <1>5, <1>6
<1>8. a = Read(e)
  <2>1. Reads(e)[n] = Read(Reads(e)[n - 1]) /\ n - 1 = 0
    BY <1>2, <1>7, ReadsFollow
  <2>. QED
    BY <1>2, <1>4, <2>1
<1>. QED
  BY <1>3, <1>6, <1>8

\* The ':' a literal is set back to is behind its first byte.
LEMMA RescanProgress ==
  ASSUME NEW e, Good(e), e.opcode = "BeginLiteral"
  PROVE  LET t == rescanLiteral(e)
         IN  t.off > e.off \/ (t.opcode = "End" /\ t.off = Len(t.data))
<1>0. Scans(e) /\ Fresh(e) /\ e.off \in Nat /\ Len(e.data) \in Nat /\ e.off <= Len(e.data)
  <2>1. Scans(e) /\ Fresh(e) /\ e.off \in Nat /\ Len(e.data) \in Nat
    BY DEF Good, Scans
  <2>. QED
    BY <2>1 DEF Good
<1>. DEFINE a == PastTypes(e)
            b == PastValue(a)
            t == Rescanned(AtEnd(b))
<1>1. /\ Scans(a) /\ Fresh(a) /\ Ahead(e, a) /\ a.off <= Len(e.data)
      /\ a = e \/ a.off > e.off
  BY <1>0, PastTypesFacts
<1>2. rescanLiteral(e) = t
  BY DEF rescanLiteral
<1>. HIDE DEF a
<1>3. a.off <= Len(a.data)
  BY <1>1 DEF Ahead
<1>4. /\ Scans(b) /\ Ahead(a, b) /\ b.off <= Len(a.data)
      /\ Fresh(b) \/ b.off = Len(a.data)
  BY <1>1, <1>3, PastValueFacts
<1>. DEFINE back == BackToColon(AtEnd(b))
<1>5. /\ t.off = IF back THEN b.off ELSE b.off + 1
      /\ t.opcode = IF b.off = Len(b.data) THEN "End" ELSE b.opcode
      /\ Same(b, t)
  <2>. HIDE DEF b
  <2>1. b.off <= Len(b.data) /\ (Fresh(b) \/ b.off = Len(b.data))
    BY <1>4 DEF Ahead
  <2>. QED
    BY <1>4, <2>1, RescannedFacts DEF Ahead
<1>6. a.off \in Nat /\ b.off \in Nat /\ a.off >= e.off /\ b.off >= a.off /\ b.data = e.data
  BY <1>1, <1>4 DEF Scans, Ahead
<1>7. CASE b.off > e.off \/ ~back
  <2>. HIDE DEF a, b, t, back
  <2>. QED
    BY <1>0, <1>2, <1>5, <1>6, <1>7
<1>8. CASE b.off = Len(b.data) /\ back
  <2>. HIDE DEF a, b, t, back
  <2>. QED
    BY <1>0, <1>2, <1>5, <1>6, <1>8
<1>9. CASE b.off <= e.off /\ b.off # Len(b.data) /\ back
  <2>1. a = e /\ b.off = e.off /\ e.off < Len(e.data) /\ AtEnd(b) = b
    <3>1. AtEnd(b) = b
      BY <1>9 DEF AtEnd
    <3>. HIDE DEF b, back
    <3>. QED
      BY <1>0, <1>1, <1>6, <1>9, <3>1
  <2>2. b.scan.lastc = ":" /\ b.opcode \in {"ObjectKey", "End"} /\ NextByte(e) # ":"
    <3>1. BackToColon(b)
      BY <1>9, <2>1
    <3>. HIDE DEF b
    <3>. QED
      BY <1>6, <2>1, <3>1 DEF BackToColon, NextByte
  <2>3. \E ops : b = PastLiteral(e, ops)
    <3>1. b \in {PastMultiline(e), e} \/ \E ops : b = PastLiteral(e, ops)
      BY <2>1 DEF PastValue, AfterType
    <3>2. PastMultiline(e).opcode = e.opcode
      BY <1>0, PastMultilineFacts
    <3>. HIDE DEF b
    <3>. QED
      BY <2>2, <3>1, <3>2
  <2>. HIDE DEF b
  <2>4. b.scan = Read(e).scan /\ b.opcode = Read(e).opcode
    BY <1>0, <2>1, <2>3, PastLiteralStays
  <2>5. e.scan.step \in Stuck
    BY <1>0, <2>1, <2>2, <2>4, ReadFollows DEF Fresh, NoColon
  <2>. QED
    BY <1>0, <2>1, <2>2, <2>4, <2>5, ReadFollows
<1>. QED
  BY <1>0, <1>6, <1>7, <1>8, <1>9


-----------------------------------------------------------------------------
(***************************************************************************)
(* Who pays for the calls, when the target is an empty interface: nothing  *)
(* is skipped then, and all calls have the type AnyType.  Two calls, the   *)
(* one of a collection and the one of its element, take a byte of the      *)
(* text, and each element of an array takes another.                       *)
(***************************************************************************)
Loops(q) == {i \in DOMAIN q : i % 2 = 0}

IsSequence(q) == \E S : q \in Seq(S)

\* off bytes pay for the call f at place i, and for what it has collected.
Begun(f, i, off) ==
  /\ i <= 2 * off
  /\ f.fn = "array" => IsSequence(f.acc[2]) /\ i + 2 * Len(f.acc[2]) <= 2 * off

\* The running call f is still to read the first byte of its own.
Awaits(f, e) ==
  \/ f.fn = "value" /\ f.at = "begin"
  \/ f.fn = "array" /\ f.at = "head" /\ e.opcode = "BeginArray"
  \/ f.fn = "object" /\ f.at = "head" /\ e.opcode \in {"BeginObject", "ObjectKey"}

\* A collection that waits for its element has a byte to spare for it, unless the
\* running call is still to read that byte.
Covered(q, e, i) ==
  /\ Begun(q[i], i, e.off)
  /\ i < Len(q) =>
       /\ i + 2 <= 2 * e.off
       /\ Begun(q[i], i, e.off - 1) \/ (i >= Len(q) - 2 /\ Awaits(q[Len(q)], e))
  /\ i = Len(q) /\ q[i].fn = "array" =>
       /\ i + 2 <= 2 * e.off \/ e.opcode = "BeginArray"
       /\ q[i].at = "stored" => Begun(q[i], i, e.off - 1) \/ e.opcode = "End"

Paid(q, e) == e.off >= 1 /\ \A i \in Loops(q) : Covered(q, e, i)

\* All but Unmarshal call the functions for an empty interface.
Uniform(q) == \A i \in DOMAIN q : q[i].type = AnyType /\ q[i].iface = (i # 1)

Paying == outcome = "running" => Uniform(calls) /\ Paid(calls, d)

\* More bytes pay for the same.
LEMMA BegunMore ==
  ASSUME NEW f, NEW i \in Nat, NEW a \in Int, NEW b \in Int, a <= b, Begun(f, i, a)
  PROVE  Begun(f, i, b)
<1>1. CASE f.fn = "array"
  <2>1. PICK S : f.acc[2] \in Seq(S)
    BY <1>1 DEF Begun, IsSequence
  <2>. PICK n \in Nat : n = Len(f.acc[2])
    BY <2>1, LenProperties
  <2>. QED
    BY <1>1 DEF Begun
<1>2. CASE f.fn # "array"
  BY <1>2 DEF Begun
<1>. QED
  BY <1>1, <1>2

\* What is known below the running call, b before the move and e after it
LEMMA BelowPaid ==
  ASSUME NEW q, DOMAIN q = 1..Len(q), Len(q) \in Nat, NEW b, Paid(q, b), b.off \in Nat,
         NEW e, e.off \in Nat, e.off >= b.off, NEW i \in Loops(q), i < Len(q),
         Awaits(q[Len(q)], b) => i < Len(q) - 2 \/ e.off > b.off
  PROVE  /\ i \in Nat /\ Begun(q[i], i, e.off) /\ i + 2 <= 2 * e.off
         /\ Begun(q[i], i, e.off - 1)
<1>1. i \in Nat /\ Covered(q, b, i)
  BY DEF Paid, Loops
<1>2. /\ Begun(q[i], i, b.off) /\ i + 2 <= 2 * b.off
      /\ Begun(q[i], i, b.off - 1) \/ (i >= Len(q) - 2 /\ Awaits(q[Len(q)], b))
  BY <1>1 DEF Covered
<1>3. Begun(q[i], i, e.off) /\ i + 2 <= 2 * e.off
  BY <1>1, <1>2, BegunMore
<1>4. CASE Begun(q[i], i, b.off - 1)
  <2>. DEFINE m == b.off - 1
              n == e.off - 1
  <2>1. m \in Int /\ n \in Int /\ m <= n /\ Begun(q[i], i, m)
    BY <1>4
  <2>. HIDE DEF m, n
  <2>2. Begun(q[i], i, n)
    BY <1>1, <2>1, BegunMore
  <2>. QED
    BY <1>1, <1>3, <2>2 DEF n
<1>5. CASE i >= Len(q) - 2 /\ Awaits(q[Len(q)], b)
  <2>. DEFINE n == e.off - 1
  <2>1. e.off > b.off
    BY <1>1, <1>5
  <2>2. n \in Int /\ b.off <= n /\ b.off \in Int
    BY <2>1
  <2>. HIDE DEF n
  <2>3. Begun(q[i], i, n)
    BY <1>1, <1>2, <2>2, BegunMore
  <2>. QED
    BY <1>1, <1>3, <2>3 DEF n
<1>. QED
  BY <1>2, <1>4, <1>5

\* The running call returns: it has read what it awaited, or met the end.
LEMMA PopPays ==
  ASSUME NEW q, IsStack(q), Alternates(q), q # <<>>, Uniform(q), NEW b, b.off \in Nat, Paid(q, b),
         NEW e, e.off \in Nat, e.off >= b.off,
         Awaits(q[Len(q)], b) =>
           e.off > b.off \/ (q[Len(q)].fn = "value" /\ e.opcode = "End")
  PROVE  LET r == SubSeq(q, 1, Len(q) - 1) IN Uniform(r) /\ Paid(r, e)
<1>. DEFINE r == SubSeq(q, 1, Len(q) - 1)
<1>1. /\ IsStack(r) /\ Alternates(r) /\ Len(r) = Len(q) - 1 /\ Len(q) \in Nat /\ Len(r) \in Nat
      /\ \A i \in 1..Len(r) : r[i] = q[i]
      /\ Len(q) \in 1..Len(q) /\ DOMAIN q = 1..Len(q)
  BY PopCall
<1>2. DOMAIN r = 1..Len(r)
  BY <1>1 DEF IsStack
<1>. HIDE DEF r
<1>. PICK n \in Nat : n = Len(r)
  BY <1>1
<1>3. Len(q) = n + 1 /\ \A i \in 1..n : i \in 1..(n + 1) /\ i < n + 1
  BY <1>1
<1>4. Uniform(r)
  BY <1>1, <1>2, <1>3 DEF Uniform
<1>5. ASSUME NEW i \in Loops(r) PROVE Covered(r, e, i)
  <2>1. i \in 1..n /\ i \in Loops(q) /\ r[i] = q[i] /\ i % 2 = 0 /\ i < n + 1
    BY <1>1, <1>2, <1>3 DEF Loops
  <2>2. CASE Awaits(q[Len(q)], b) => i < Len(q) - 2 \/ e.off > b.off
    <3>1. Begun(q[i], i, e.off) /\ i + 2 <= 2 * e.off /\ Begun(q[i], i, e.off - 1)
      BY <1>1, <1>3, <2>1, <2>2, BelowPaid
    <3>. QED
      BY <2>1, <3>1 DEF Covered
  <2>3. CASE Awaits(q[Len(q)], b) /\ ~(i < Len(q) - 2 \/ e.off > b.off)
    <3>1. q[n + 1].fn = "value" /\ e.opcode = "End"
      BY <1>3, <2>3
    <3>2. (n + 1) % 2 = 1
      BY <1>1, <1>3, <3>1 DEF Alternates
    <3>3. i = n
      BY <1>3, <2>1, <2>3, <3>2
    <3>4. Covered(q, b, i)
      BY <2>1 DEF Paid
    <3>5. Begun(q[i], i, b.off) /\ i + 2 <= 2 * b.off
      BY <1>3, <2>1, <3>4 DEF Covered
    <3>6. Begun(q[i], i, e.off) /\ i + 2 <= 2 * e.off
      BY <2>1, <3>5, BegunMore
    <3>7. ~(i < Len(r))
      BY <3>3
    <3>. QED
      BY <2>1, <3>1, <3>6, <3>7 DEF Covered
  <2>. QED
    BY <2>2, <2>3
<1>6. e.off >= 1
  BY DEF Paid
<1>. QED
  BY <1>4, <1>5, <1>6 DEF Paid, r


\* The running call goes on as f, and calls c.
LEMMA PushPays ==
  ASSUME NEW q, IsStack(q), Alternates(q), q # <<>>, Uniform(q), NEW b, b.off \in Nat, Paid(q, b),
         NEW e, e.off \in Nat, e.off >= b.off,
         NEW f, IsCall(f), Collects(f), f.fn = q[Len(q)].fn, f.acc = q[Len(q)].acc,
         NEW c, IsCall(c), Collects(c),
         f.type = AnyType, f.iface = (Len(q) # 1), c.type = AnyType, c.iface = TRUE,
         f.fn = "value" => /\ c.fn # "value" /\ f.at = c.fn /\ c.at = "head" /\ Awaits(c, e)
                           /\ c.fn = "array" => c.acc[2] = <<>>,
         f.fn # "value" => /\ c.fn = "value" /\ f.at = "stored" /\ c.at = "begin"
                           /\ Len(q) + 2 <= 2 * e.off
                           /\ Awaits(q[Len(q)], b) => e.off > b.off
  PROVE  Uniform(Pushed(q, f, c)) /\ Paid(Pushed(q, f, c), e)
<1>. DEFINE r == Pushed(q, f, c)
<1>1. /\ Alternates(r) /\ Len(r) = Len(q) + 1 /\ DOMAIN r = 1..(Len(q) + 1)
      /\ \A i \in 1..(Len(q) - 1) : r[i] = q[i]
      /\ r[Len(q)] = f /\ r[Len(q) + 1] = c
  BY PushCall
<1>2. Len(q) \in Nat /\ Len(q) \in 1..Len(q) /\ DOMAIN q = 1..Len(q)
  BY PopCall
<1>. HIDE DEF r
<1>. PICK n \in Nat : n = Len(q)
  BY <1>2
<1>3. /\ n >= 1 /\ \A i \in 1..(n + 1) : i = n + 1 \/ i = n \/ (i \in 1..(n - 1) /\ i \in 1..n /\ i < n)
  BY <1>2
<1>4. e.off >= 1
  BY DEF Paid
<1>5. Uniform(r)
  <2>1. n + 1 # 1
    BY <1>3
  <2>2. ASSUME NEW i \in 1..(n + 1) PROVE r[i].type = AnyType /\ r[i].iface = (i # 1)
    <3>1. i \in 1..(n - 1) => q[i].type = AnyType /\ q[i].iface = (i # 1)
      BY <1>2, <1>3 DEF Uniform
    <3>. QED
      BY <1>1, <1>3, <2>1, <3>1
  <2>. QED
    BY <1>1, <2>2 DEF Uniform
<1>6. n % 2 = 1 <=> f.fn = "value"
  BY <1>2 DEF Alternates
<1>7. ASSUME NEW i \in Loops(r), i < n PROVE Covered(r, e, i)
  <2>1. i \in 1..(n - 1) /\ i \in Loops(q) /\ r[i] = q[i] /\ i % 2 = 0 /\ i < n + 1
    BY <1>1, <1>2, <1>3, <1>7 DEF Loops
  <2>2. CASE f.fn = "value" /\ i = n - 1
    <3>1. Covered(q, b, i)
      BY <2>1 DEF Paid
    <3>2. Begun(q[i], i, b.off) /\ i + 2 <= 2 * b.off
      BY <1>7, <3>1 DEF Covered
    <3>3. Begun(q[i], i, e.off) /\ i + 2 <= 2 * e.off
      BY <2>1, <3>2, BegunMore
    <3>4. i >= Len(r) - 2 /\ ~(i = Len(r))
      BY <1>1, <2>2
    <3>. QED
      BY <1>1, <2>1, <2>2, <3>3, <3>4 DEF Covered
  <2>3. CASE ~(f.fn = "value" /\ i = n - 1)
    <3>1. Awaits(q[n], b) => i < n - 2 \/ e.off > b.off
      <4>1. f.fn = "value" => i < n - 2
        BY <1>6, <2>1, <2>3
      <4>. QED
        BY <4>1
    <3>2. Begun(q[i], i, e.off) /\ i + 2 <= 2 * e.off /\ Begun(q[i], i, e.off - 1)
      BY <1>2, <1>7, <2>1, <3>1, BelowPaid
    <3>3. ~(i = Len(r))
      BY <1>1, <2>1
    <3>. QED
      BY <2>1, <3>2, <3>3 DEF Covered
  <2>. QED
    BY <2>2, <2>3
<1>8. ASSUME n \in Loops(r) PROVE Covered(r, e, n)
  <2>1. n % 2 = 0 /\ f.fn # "value" /\ n \in Loops(q)
    BY <1>2, <1>6, <1>8 DEF Loops
  <2>2. Begun(q[n], n, b.off)
    BY <2>1 DEF Paid, Covered
  <2>3. Begun(f, n, b.off)
    BY <2>2 DEF Begun
  <2>4. Begun(f, n, e.off)
    BY <2>3, BegunMore
  <2>5. n >= Len(r) - 2 /\ ~(n = Len(r)) /\ Awaits(c, e)
    BY <1>1, <2>1 DEF Awaits
  <2>. QED
    BY <1>1, <2>1, <2>4, <2>5 DEF Covered
<1>9. ASSUME n + 1 \in Loops(r) PROVE Covered(r, e, n + 1)
  <2>1. (n + 1) % 2 = 0
    BY <1>9 DEF Loops
  <2>2. f.fn = "value" /\ c.fn # "value" /\ c.at = "head" /\ Awaits(c, e)
    BY <1>6, <2>1
  <2>3. n + 1 <= 2 * e.off
    <3>1. CASE n = 1
      BY <1>4, <3>1
    <3>2. CASE n # 1
      <4>. DEFINE i == n - 1
      <4>1. i \in 1..n /\ i \in Nat /\ i % 2 = 0 /\ i < n
        BY <1>3, <2>1, <3>2
      <4>2. i \in Loops(q)
        BY <1>2, <4>1 DEF Loops
      <4>. HIDE DEF i
      <4>3. i + 2 <= 2 * b.off
        BY <4>1, <4>2 DEF Paid, Covered
      <4>. QED
        BY <4>3 DEF i
    <3>. QED
      BY <3>1, <3>2
  <2>4. Begun(c, n + 1, e.off)
    <3>1. IsSequence(<<>>) /\ Len(<<>>) = 0
      BY EmptySeq DEF IsSequence
    <3>2. c.fn = "array" => IsSequence(c.acc[2]) /\ Len(c.acc[2]) = 0
      BY <2>2, <3>1
    <3>. PICK k \in Nat : k = n + 1
      OBVIOUS
    <3>3. \A x : x = 0 => k + 2 * x = k
      OBVIOUS
    <3>4. c.fn = "array" => k + 2 * Len(c.acc[2]) <= 2 * e.off
      BY <2>3, <3>2, <3>3
    <3>5. Begun(c, k, e.off)
      BY <2>3, <3>2, <3>4 DEF Begun
    <3>. QED
      BY <3>5
  <2>5. c.fn = "array" => e.opcode = "BeginArray"
    BY <2>2 DEF Awaits
  <2>6. ~(n + 1 < Len(r))
    BY <1>1
  <2>. QED
    BY <1>1, <2>2, <2>4, <2>5, <2>6 DEF Covered
<1>10. ASSUME NEW i \in Loops(r) PROVE Covered(r, e, i)
  <2>1. i \in 1..(n + 1)
    BY <1>1 DEF Loops
  <2>. QED
    BY <1>3, <1>7, <1>8, <1>9, <2>1
<1>. QED
  BY <1>4, <1>5, <1>10 DEF Paid, r

\* The running call of a loop goes on as f.
LEMMA ReplacePays ==
  ASSUME NEW q, IsStack(q), Alternates(q), q # <<>>, Uniform(q), NEW b, b.off \in Nat, Paid(q, b),
         NEW e, e.off \in Nat, e.off >= b.off, ~Awaits(q[Len(q)], b),
         NEW f, IsCall(f), Collects(f), f.fn = q[Len(q)].fn, f.fn # "value",
         f.type = AnyType, f.iface = (Len(q) # 1), f.at = "head", Begun(f, Len(q), e.off),
         f.fn = "array" => Len(q) + 2 <= 2 * e.off \/ e.opcode = "BeginArray"
  PROVE  LET r == Append(SubSeq(q, 1, Len(q) - 1), f) IN Uniform(r) /\ Paid(r, e)
<1>. DEFINE r == Append(SubSeq(q, 1, Len(q) - 1), f)
<1>1. /\ Len(r) = Len(q) /\ DOMAIN r = 1..Len(q)
      /\ \A i \in 1..(Len(q) - 1) : r[i] = q[i]
      /\ r[Len(q)] = f
  BY ReplaceCall
<1>2. Len(q) \in Nat /\ Len(q) \in 1..Len(q) /\ DOMAIN q = 1..Len(q)
  BY PopCall
<1>. HIDE DEF r
<1>. PICK n \in Nat : n = Len(q)
  BY <1>2
<1>3. /\ n >= 1 /\ \A i \in 1..n : i = n \/ (i \in 1..(n - 1) /\ i < n)
  BY <1>2
<1>4. e.off >= 1
  BY DEF Paid
<1>5. Uniform(r)
  BY <1>1, <1>2, <1>3 DEF Uniform
<1>6. ASSUME NEW i \in Loops(r), i < n PROVE Covered(r, e, i)
  <2>1. i \in 1..(n - 1) /\ i \in Loops(q) /\ r[i] = q[i]
    BY <1>1, <1>2, <1>3, <1>6 DEF Loops
  <2>2. Begun(q[i], i, e.off) /\ i + 2 <= 2 * e.off /\ Begun(q[i], i, e.off - 1)
    BY <1>2, <1>6, <2>1, BelowPaid
  <2>. QED
    BY <1>1, <1>6, <2>1, <2>2 DEF Covered
<1>7. Covered(r, e, n)
  BY <1>1 DEF Covered
<1>8. ASSUME NEW i \in Loops(r) PROVE Covered(r, e, i)
  <2>1. i \in 1..n
    BY <1>1 DEF Loops
  <2>. QED
    BY <1>3, <1>6, <1>7, <2>1
<1>. QED
  BY <1>4, <1>5, <1>8 DEF Paid, r


-----------------------------------------------------------------------------
(***************************************************************************)
(* Every step pays for its calls.                                          *)
(***************************************************************************)
Pays == Running /\ Uniform(calls) /\ Paid(calls, d)

\* The running call, and what is known of it
LEMMA TopPays ==
  ASSUME Pays
  PROVE  /\ calls # <<>> /\ IsStack(calls) /\ Alternates(calls) /\ Top = calls[Len(calls)]
         /\ IsCall(Top) /\ Collects(Top) /\ Good(d) /\ d.off \in Nat /\ d.off >= 1
         /\ Top.type = AnyType /\ Top.iface = (Len(calls) # 1)
         /\ Top.fn # "value" => Top.iface = TRUE /\ Len(calls) \in Loops(calls)
         /\ Len(calls) \in Nat
<1>1. /\ calls # <<>> /\ IsStack(calls) /\ Alternates(calls) /\ Good(d)
      /\ IsCall(Top) /\ Collects(Top)
  BY RunningCall DEF Pays, Running, ParserInv
<1>2. /\ Len(calls) \in Nat /\ Len(calls) \in 1..Len(calls) /\ DOMAIN calls = 1..Len(calls)
  BY <1>1, PopCall
<1>. PICK n \in Nat : n = Len(calls)
  BY <1>2
<1>3. Top = calls[n] /\ n \in DOMAIN calls
  BY <1>2 DEF Top
<1>4. Top.type = AnyType /\ Top.iface = (n # 1)
  BY <1>3 DEF Pays, Uniform
<1>5. Top.fn # "value" => n % 2 = 0 /\ n # 1
  BY <1>1, <1>3 DEF Alternates
<1>6. d.off \in Nat /\ d.off >= 1
  BY <1>1 DEF Pays, Paid, Good, Scans
<1>. QED
  BY <1>1, <1>2, <1>3, <1>4, <1>5, <1>6 DEF Loops

\* The running call returns, with an anchor or without.
LEMMA ReturnPays ==
  ASSUME Pays, NEW e, Good(e), e.off >= d.off, NEW val, Return(e, val),
         Awaits(Top, d) => e.off > d.off \/ (Top.fn = "value" /\ e.opcode = "End")
  PROVE  Paying'
<1>. DEFINE r == SubSeq(calls, 1, Len(calls) - 1)
<1>1. e.off \in Nat
  BY DEF Good, Scans
<1>2. Uniform(r) /\ Paid(r, e)
  BY <1>1, TopPays, PopPays DEF Pays
<1>3. calls' = r /\ d' = e
  BY DEF Return, Callers
<1>. HIDE DEF r
<1>. QED
  BY <1>2, <1>3 DEF Paying

\* Nothing is to be paid when Unmarshal is over.
LEMMA AbortPays ==
  ASSUME NEW e, NEW how, Abort(e, how)
  PROVE  Paying'
BY DEF Abort, Paying

\* The end of value
LEMMA ReturnAnchoredPays ==
  ASSUME Pays, NEW f, NEW e, Good(e), e.off >= d.off, NEW val, NEW how,
         ReturnAnchored(f, Ends(e, val, how)),
         Awaits(Top, d) => e.off > d.off \/ (Top.fn = "value" /\ e.opcode = "End")
  PROVE  Paying'
<1>. DEFINE t == Anchored(f, e, val)
<1>1. Good(t) /\ Alike(e, t)
  BY SavedFacts
<1>2. [Ends(e, val, how) EXCEPT !.d = Anchored(f, Ends(e, val, how).d, Ends(e, val, how).val)]
      = Ends(t, val, how)
  BY DEF Ends
<1>3. ReturnOf(Ends(t, val, how))
  BY <1>2 DEF ReturnAnchored
<1>. HIDE DEF t
<1>4. Return(t, val) \/ Abort(t, how)
  BY <1>3 DEF ReturnOf, Ends
<1>. QED
  BY <1>1, <1>4, ReturnPays, AbortPays DEF Alike

\* A value begins: what it awaits is its first byte.
LEMMA ValueBeginPays ==
  ASSUME Pays, ValueBegin
  PROVE  Paying'
<1>1. /\ calls # <<>> /\ IsStack(calls) /\ Alternates(calls) /\ Top = calls[Len(calls)]
      /\ IsCall(Top) /\ Collects(Top) /\ Good(d) /\ d.off \in Nat
      /\ Top.type = AnyType /\ Top.iface = (Len(calls) # 1) /\ Len(calls) \in Nat
      /\ Top.fn = "value" /\ Top.at = "begin"
  BY TopPays DEF ValueBegin, Runs
<1>. DEFINE e == Scanned(Top)
            f == [Top EXCEPT !.anchor = Anchor(Top)]
<1>2. Good(e) /\ Ahead(d, e)
  BY <1>1, ScannedFacts DEF Scanned
<1>3. /\ IsCall(f) /\ f.fn = "value" /\ f.acc = Top.acc /\ f.type = AnyType
      /\ f.iface = Top.iface
  BY <1>1 DEF IsCall
<1>4. \/ e.opcode = "End" /\ \E val : ReturnAnchored(f, Ends(e, val, "ok"))
      \/ e.opcode = "BeginArray" /\ BeginCollection(f, "array", e)
      \/ e.opcode \in {"BeginObject", "ObjectKey"} /\ BeginCollection(f, "object", e)
      \/ e.opcode = "BeginLiteral" /\ BeginLiteral(f, e)
      \/ ~f.iface /\ \E val : ReturnAnchored(f, Ends(e, val, "ok"))
      \/ \E how : Abort(e, how)
  <2>. HIDE DEF e, f
  <2>. QED
    BY DEF ValueBegin, e, f
<1>. HIDE DEF e, f
<1>5. e.off \in Nat /\ e.off >= d.off
  BY <1>2 DEF Good, Scans, Ahead
<1>6. ASSUME e.opcode = "End", NEW val, ReturnAnchored(f, Ends(e, val, "ok")) PROVE Paying'
  BY <1>1, <1>2, <1>5, <1>6, ReturnAnchoredPays
<1>7. ASSUME NEW fn \in {"array", "object"}, BeginCollection(f, fn, e),
             fn = "array" => e.opcode = "BeginArray",
             fn = "object" => e.opcode \in {"BeginObject", "ObjectKey"}
      PROVE  Paying'
  <2>1. Holds(fn, f.type)
    BY <1>3 DEF Holds, Kind, AnyType
  <2>. DEFINE g == [f EXCEPT !.at = fn]
              c == LoopCall(fn, f.type, f.type = AnyType, LoopDepth(fn, e), EmptyAcc(fn, f.type))
  <2>2. Call(e, g, c)
    BY <1>7, <2>1 DEF BeginCollection
  <2>3. /\ IsCall(g) /\ Collects(g) /\ g.fn = "value" /\ g.at = fn /\ g.acc = Top.acc
        /\ g.type = AnyType /\ g.iface = (Len(calls) # 1)
    BY <1>1, <1>3 DEF IsCall, Collects
  <2>4. /\ fn = "array" => EmptyAcc(fn, f.type)[1] = "list" /\ EmptyAcc(fn, f.type)[2] = <<>>
        /\ fn = "object" => EmptyAcc(fn, f.type)[1] = "map"
    BY DEF EmptyAcc, List, Mapping
  <2>5. /\ IsCall(c) /\ c.fn = fn /\ c.acc = EmptyAcc(fn, f.type) /\ c.at = "head"
        /\ c.type = AnyType /\ c.iface = TRUE
    BY <1>3 DEF IsCall, LoopCall
  <2>6. Collects(c) /\ Awaits(c, e) /\ (c.fn = "array" => c.acc[2] = <<>>)
    BY <1>7, <2>4, <2>5 DEF Collects, Awaits
  <2>. HIDE DEF g, c
  <2>. DEFINE r == Pushed(calls, g, c)
  <2>7. Uniform(r) /\ Paid(r, e)
    BY <1>1, <1>5, <2>3, <2>5, <2>6, PushPays DEF Pays
  <2>8. calls' = r /\ d' = e
    BY <2>2 DEF Call, Callers, Pushed
  <2>. HIDE DEF r
  <2>. QED
    BY <2>7, <2>8 DEF Paying
<1>8. ASSUME e.opcode = "BeginLiteral", BeginLiteral(f, e) PROVE Paying'
  <2>. DEFINE r == rescanLiteral(e)
  <2>1. Scans(e) /\ Fresh(e) /\ e.off <= Len(e.data)
    <3>1. Scans(e) /\ Fresh(e) /\ e.off \in Nat /\ Len(e.data) \in Nat
      BY <1>2 DEF Good, Scans
    <3>. QED
      BY <1>2, <1>8, <3>1 DEF Good
  <2>2. Good(r) /\ Ahead(e, r) /\ (r.off > e.off \/ r.opcode = "End")
    BY <1>2, <1>8, <2>1, RescanFacts, RescanProgress
  <2>3. \E item : ReturnAnchored(f, StoreItem(f, r, item))
    BY <1>8 DEF BeginLiteral
  <2>. HIDE DEF r
  <2>4. PICK item : ReturnAnchored(f, StoreItem(f, r, item))
    BY <2>3
  <2>5. PICK t, val, how : StoreItem(f, r, item) = Ends(t, val, how) /\ Good(t) /\ Alike(r, t)
    BY <2>2, StoreItemFacts
  <2>6. ReturnAnchored(f, Ends(t, val, how))
    BY <2>4, <2>5
  <2>7. /\ t.off \in Nat /\ t.off >= d.off
        /\ t.off > d.off \/ t.opcode = "End"
    BY <1>1, <1>5, <2>2, <2>5 DEF Alike, Ahead, Good, Scans
  <2>. QED
    BY <1>1, <2>5, <2>6, <2>7, ReturnAnchoredPays
<1>9. ASSUME ~f.iface, NEW val, ReturnAnchored(f, Ends(e, val, "ok")) PROVE Paying'
  <2>1. Len(calls) = 1
    BY <1>1, <1>3, <1>9
  <2>. DEFINE t == Anchored(f, e, val)
              r == SubSeq(calls, 1, Len(calls) - 1)
  <2>2. [Ends(e, val, "ok") EXCEPT !.d = Anchored(f, Ends(e, val, "ok").d, Ends(e, val, "ok").val)]
        = Ends(t, val, "ok")
    BY DEF Ends
  <2>3. ReturnOf(Ends(t, val, "ok"))
    BY <1>9, <2>2 DEF ReturnAnchored
  <2>. HIDE DEF t
  <2>4. Return(t, val)
    BY <2>3 DEF ReturnOf, Ends
  <2>5. r = <<>>
    <3>1. Len(r) = 0 /\ IsStack(r)
      BY <1>1, <2>1, PopCall
    <3>. HIDE DEF r
    <3>. QED
      BY <3>1 DEF IsStack
  <2>. QED
    BY <2>4, <2>5 DEF Return, Callers, Paying
<1>10. ASSUME NEW how, Abort(e, how) PROVE Paying'
  BY <1>10, AbortPays
<1>. QED
  BY <1>4, <1>6, <1>7, <1>8, <1>9, <1>10

\* ... and ends.
LEMMA ValueEndPays ==
  ASSUME Pays, ValueEnd
  PROVE  Paying'
<1>1. PICK fn \in DOMAIN Closing :
        Runs("value", fn) /\ ReturnAnchored(Top, Ends(PastBracket(d, fn), ret, "ok"))
  BY DEF ValueEnd
<1>2. Good(PastBracket(d, fn)) /\ PastBracket(d, fn).off >= d.off
  BY TopPays, PastBracketFacts DEF Ahead
<1>3. fn \in {"array", "object"}
  BY DEF Closing
<1>4. ~Awaits(Top, d)
  BY <1>1, <1>3 DEF Runs, Awaits
<1>. QED
  BY <1>1, <1>2, <1>4, ReturnAnchoredPays


\* The end of the data is behind the text, all else is in it.
LEMMA InTextUnlessOver ==
  ASSUME NEW e, Good(e), e.opcode \notin {"End", "Error"}
  PROVE  Scans(e) /\ e.off \in Nat /\ e.off <= Len(e.data)
<1>1. Scans(e) /\ e.off \in Nat /\ Len(e.data) \in Nat
  BY DEF Good, Scans
<1>. QED
  BY <1>1 DEF Good

\* An array reads what it begins with, and waits for an element.
LEMMA ArrayNextPays ==
  ASSUME Pays, ArrayNext
  PROVE  Paying'
<1>1. /\ calls # <<>> /\ IsStack(calls) /\ Alternates(calls) /\ Top = calls[Len(calls)]
      /\ IsCall(Top) /\ Collects(Top) /\ Good(d) /\ d.off \in Nat
      /\ Top.type = AnyType /\ Top.iface = TRUE /\ Top.iface = (Len(calls) # 1)
      /\ Len(calls) \in Nat /\ Top.fn = "array" /\ Top.at = "head"
      /\ Len(calls) \in Loops(calls)
  BY TopPays DEF ArrayNext, Runs
<1>2. HyphenAgain(Top) = d
  BY <1>1 DEF HyphenAgain
<1>. DEFINE e == ToElement(d)
            f == [Top EXCEPT !.at = "stored"]
            c == ValueCall(ElementType(Top), Top.iface)
<1>3. Return(e, ArrayValue(Top)) \/ Call(e, f, c)
  BY <1>2 DEF ArrayNext
<1>4. Good(e) /\ Ahead(d, e)
  BY <1>1, ToElementFacts
<1>5. d.opcode = "BeginArray" => e.off > d.off
  <2>1. d.opcode = "BeginArray" => e = scanWhile(d, "SkipSpace")
    BY DEF ToElement
  <2>2. d.opcode = "BeginArray" => Scans(d) /\ d.off <= Len(d.data)
    BY <1>1, InTextUnlessOver
  <2>. HIDE DEF e
  <2>. QED
    BY <2>1, <2>2, ScanWhileFacts
<1>. HIDE DEF e
<1>6. e.off \in Nat /\ e.off >= d.off
  BY <1>4 DEF Good, Scans, Ahead
<1>7. Awaits(Top, d) => e.off > d.off
  BY <1>1, <1>5 DEF Awaits
<1>8. ASSUME Return(e, ArrayValue(Top)) PROVE Paying'
  BY <1>4, <1>6, <1>7, <1>8, ReturnPays
<1>9. ASSUME Call(e, f, c) PROVE Paying'
  <2>1. /\ IsCall(f) /\ f.fn = "array" /\ f.at = "stored" /\ f.acc = Top.acc
        /\ f.type = AnyType /\ f.iface = (Len(calls) # 1)
    BY <1>1 DEF IsCall
  <2>2. Collects(f)
    BY <1>1, <2>1 DEF Collects
  <2>3. /\ IsCall(c) /\ Collects(c) /\ c.fn = "value" /\ c.at = "begin"
        /\ c.type = ElementType(Top) /\ c.iface = TRUE
    BY <1>1 DEF IsCall, Collects, ValueCall
  <2>4. c.type = AnyType
    BY <1>1, <2>3 DEF ElementType
  <2>. HIDE DEF f, c
  <2>5. Len(calls) + 2 <= 2 * e.off
    <3>. PICK n \in Nat : n = Len(calls)
      BY <1>1
    <3>1. Covered(calls, d, n)
      BY <1>1 DEF Pays, Paid
    <3>2. n <= 2 * d.off /\ (n + 2 <= 2 * d.off \/ d.opcode = "BeginArray")
      BY <1>1, <3>1 DEF Covered, Begun
    <3>. QED
      BY <1>1, <1>5, <1>6, <3>2
  <2>. DEFINE r == Pushed(calls, f, c)
  <2>6. Uniform(r) /\ Paid(r, e)
    BY <1>1, <1>6, <1>7, <2>1, <2>2, <2>3, <2>4, <2>5, PushPays DEF Pays
  <2>7. calls' = r /\ d' = e
    BY <1>9 DEF Call, Callers, Pushed
  <2>. HIDE DEF r
  <2>. QED
    BY <2>6, <2>7 DEF Paying
<1>. QED
  BY <1>3, <1>8, <1>9

\* The bytes of an element that is stored are its own.
LEMMA ArrayStoredPays ==
  ASSUME Pays, ArrayStored
  PROVE  Paying'
<1>1. /\ calls # <<>> /\ IsStack(calls) /\ Alternates(calls) /\ Top = calls[Len(calls)]
      /\ IsCall(Top) /\ Collects(Top) /\ Good(d) /\ d.off \in Nat
      /\ Top.type = AnyType /\ Top.iface = (Len(calls) # 1)
      /\ Len(calls) \in Nat /\ Top.fn = "array" /\ Top.at = "stored"
      /\ Len(calls) \in Loops(calls)
  BY TopPays DEF ArrayStored, Runs
<1>. DEFINE e == PastSpace(d)
            f == [Top EXCEPT !.at = "head", !.acc = List(Append(@[2], ret))]
<1>2. Return(e, ArrayValue(f)) \/ (~LastElement(e, f) /\ Continue(e, f))
  BY DEF ArrayStored
<1>3. Good(e) /\ Ahead(d, e) /\ (d.opcode = "SkipSpace" \/ e = d)
  BY <1>1, PastSpaceFacts DEF PastSpace
<1>. HIDE DEF e
<1>4. e.off \in Nat /\ e.off >= d.off
  BY <1>3 DEF Good, Scans, Ahead
<1>5. ~Awaits(Top, d)
  BY <1>1 DEF Awaits
<1>6. ASSUME NEW val, Return(e, val) PROVE Paying'
  BY <1>3, <1>4, <1>5, <1>6, ReturnPays
<1>7. ASSUME ~LastElement(e, f), Continue(e, f) PROVE Paying'
  <2>1. /\ IsCall(f) /\ f.fn = "array" /\ f.at = "head" /\ f.acc = List(Append(Top.acc[2], ret))
        /\ f.type = AnyType /\ f.iface = (Len(calls) # 1)
    BY <1>1 DEF IsCall
  <2>2. Collects(f) /\ f.acc[2] = Append(Top.acc[2], ret)
    BY <2>1 DEF Collects, List
  <2>. HIDE DEF f
  <2>3. e.opcode # "End"
    BY <1>7 DEF LastElement, Ended
  <2>4. d.opcode # "End"
    BY <1>3, <2>3
  <2>. PICK n \in Nat : n = Len(calls)
    BY <1>1
  <2>. DEFINE m == d.off - 1
  <2>5. Covered(calls, d, n)
    BY <1>1 DEF Pays, Paid
  <2>6. /\ n + 2 <= 2 * d.off \/ d.opcode = "BeginArray"
        /\ Begun(Top, n, m)
    BY <1>1, <2>4, <2>5 DEF Covered
  <2>7. m \in Int /\ m + 1 <= e.off
    BY <1>1, <1>4
  <2>. HIDE DEF m
  <2>8. PICK S : Top.acc[2] \in Seq(S)
    BY <1>1, <2>6 DEF Begun, IsSequence
  <2>. DEFINE R == S \cup {ret}
              q == Top.acc[2]
              p == Append(q, ret)
  <2>9. q \in Seq(R)
    BY <2>8, SeqMonotonic
  <2>10. ret \in R
    OBVIOUS
  <2>. HIDE DEF R
  <2>11. n <= 2 * m /\ n + 2 * Len(q) <= 2 * m
    BY <1>1, <2>6 DEF Begun
  <2>. HIDE DEF q
  <2>12. p \in Seq(R) /\ Len(p) = Len(q) + 1 /\ Len(q) \in Nat
    BY <2>9, <2>10, AppendProperties, LenProperties
  <2>. HIDE DEF p
  <2>13. f.acc[2] = p
    BY <2>2 DEF p, q
  <2>14. n <= 2 * e.off /\ n + 2 * Len(p) <= 2 * e.off
    BY <1>4, <2>7, <2>11, <2>12
  <2>15. Begun(f, n, e.off)
    BY <2>12, <2>13, <2>14 DEF Begun, IsSequence
  <2>16. n + 2 <= 2 * e.off
    BY <1>4, <2>7, <2>11
  <2>. DEFINE r == Append(SubSeq(calls, 1, Len(calls) - 1), f)
  <2>17. Uniform(r) /\ Paid(r, e)
    BY <1>1, <1>4, <1>5, <2>1, <2>2, <2>15, <2>16, ReplacePays DEF Pays
  <2>18. calls' = r /\ d' = e
    BY <1>7 DEF Continue, Callers
  <2>. HIDE DEF r
  <2>. QED
    BY <2>17, <2>18 DEF Paying
<1>. QED
  BY <1>2, <1>6, <1>7


\* A mapping goes on, or ends, after a value.
LEMMA ObjectStoredPays ==
  ASSUME Pays, ObjectStored
  PROVE  Paying'
<1>1. /\ calls # <<>> /\ IsStack(calls) /\ Alternates(calls) /\ Top = calls[Len(calls)]
      /\ IsCall(Top) /\ Collects(Top) /\ Good(d) /\ d.off \in Nat
      /\ Top.type = AnyType /\ Top.iface = (Len(calls) # 1)
      /\ Len(calls) \in Nat /\ Top.fn = "object" /\ Top.at = "stored"
      /\ Len(calls) \in Loops(calls)
  BY TopPays DEF ObjectStored, Runs
<1>. DEFINE r == Stored(Top, d, ret)
            s == PastSpace(r.d)
            g == [Top EXCEPT !.at = "head", !.acc = r.val]
<1>2. r.d = d /\ r.val[1] = "map"
  BY <1>1, StoredFacts DEF Collects
<1>3. Abort(r.d, r.how) \/ Return(s, r.val) \/ Continue(s, g)
  BY DEF ObjectStored, AfterValue
<1>. HIDE DEF r
<1>4. Good(s) /\ Ahead(d, s)
  BY <1>1, <1>2, PastSpaceFacts
<1>. HIDE DEF s
<1>5. s.off \in Nat /\ s.off >= d.off
  BY <1>4 DEF Good, Scans, Ahead
<1>6. ~Awaits(Top, d)
  BY <1>1 DEF Awaits
<1>7. ASSUME Continue(s, g) PROVE Paying'
  <2>1. /\ IsCall(g) /\ g.fn = "object" /\ g.at = "head" /\ g.acc = r.val
        /\ g.type = AnyType /\ g.iface = (Len(calls) # 1)
    BY <1>1 DEF IsCall
  <2>2. Collects(g)
    BY <1>2, <2>1 DEF Collects
  <2>. HIDE DEF g
  <2>. PICK n \in Nat : n = Len(calls)
    BY <1>1
  <2>3. n <= 2 * d.off
    BY <1>1 DEF Pays, Paid, Covered, Begun
  <2>4. Begun(g, n, s.off)
    BY <1>1, <1>5, <2>1, <2>3 DEF Begun
  <2>. DEFINE q == Append(SubSeq(calls, 1, Len(calls) - 1), g)
  <2>5. Uniform(q) /\ Paid(q, s)
    BY <1>1, <1>5, <1>6, <2>1, <2>2, <2>4, ReplacePays DEF Pays
  <2>6. calls' = q /\ d' = s
    BY <1>7 DEF Continue, Callers
  <2>. HIDE DEF q
  <2>. QED
    BY <2>5, <2>6 DEF Paying
<1>. QED
  BY <1>3, <1>4, <1>5, <1>6, <1>7, ReturnPays, AbortPays

\* The ':' is read before the value.
LEMMA ReadColonPays ==
  ASSUME Pays, Top.fn = "object",
         NEW f, IsCall(f), f.fn = "object", f.type = AnyType, f.iface = TRUE, f.acc = Top.acc,
         NEW e, Good(e), e.off >= d.off, ReadColon(f, e)
  PROVE  Paying'
<1>1. /\ calls # <<>> /\ IsStack(calls) /\ Alternates(calls) /\ Top = calls[Len(calls)]
      /\ IsCall(Top) /\ Collects(Top) /\ Good(d) /\ d.off \in Nat
      /\ Top.type = AnyType /\ Top.iface = TRUE /\ Top.iface = (Len(calls) # 1)
      /\ Len(calls) \in Nat /\ Len(calls) \in Loops(calls)
  BY TopPays
<1>. DEFINE c == PastSpace(e)
            v == scanWhile(c, "SkipSpace")
            type == FieldType(f, f.key.text)
            h == [f EXCEPT !.depth = Depth(c), !.at = "stored"]
            w == ValueCall(type, f.iface)
<1>2. (c.opcode = "ObjectKey" /\ ReadValue(f, c, v, type)) \/ \E how : Abort(c, how)
  BY DEF ReadColon
<1>3. Good(c) /\ Ahead(e, c)
  BY PastSpaceFacts
<1>4. /\ IsCall(h) /\ h.fn = "object" /\ h.acc = Top.acc /\ h.at = "stored"
      /\ h.type = AnyType /\ h.iface = TRUE
  BY DEF IsCall
<1>5. type = AnyType
  BY DEF FieldType, Kind, AnyType
<1>6. ASSUME \E how : Abort(c, how) PROVE Paying'
  BY <1>6, AbortPays
<1>7. ASSUME c.opcode = "ObjectKey", ReadValue(f, c, v, type) PROVE Paying'
  <2>. HIDE DEF c
  <2>1. Scans(c) /\ c.off \in Nat /\ c.off <= Len(c.data)
    BY <1>3, <1>7, InTextUnlessOver
  <2>2. Good(v) /\ v.off > c.off
    BY <2>1, ScanWhileFacts
  <2>3. \/ \E how : Abort(v, how)
        \/ \E val : Return(v, val)
        \/ Call(v, h, w)
    <3>. HIDE DEF v, h, w, type
    <3>. QED
      BY <1>7 DEF ReadValue, h, w
  <2>. HIDE DEF v
  <2>4. v.off \in Nat /\ e.off \in Nat /\ v.off > d.off
    BY <1>1, <1>3, <2>1, <2>2 DEF Good, Scans, Ahead
  <2>5. /\ IsCall(w) /\ Collects(w) /\ w.fn = "value" /\ w.at = "begin"
        /\ w.type = AnyType /\ w.iface = TRUE
    BY <1>5 DEF IsCall, Collects, ValueCall
  <2>6. Collects(h)
    BY <1>1, <1>4 DEF Collects
  <2>. HIDE DEF h, w
  <2>7. ASSUME Call(v, h, w) PROVE Paying'
    <3>1. Len(calls) + 2 <= 2 * v.off
      <4>. PICK n \in Nat : n = Len(calls)
        BY <1>1
      <4>1. n <= 2 * d.off
        BY <1>1 DEF Pays, Paid, Covered, Begun
      <4>. QED
        BY <1>1, <2>4, <4>1
    <3>2. h.iface = (Len(calls) # 1)
      BY <1>1, <1>4
    <3>. DEFINE r == Pushed(calls, h, w)
    <3>3. /\ v.off >= d.off /\ (Awaits(calls[Len(calls)], d) => v.off > d.off)
          /\ h.fn = calls[Len(calls)].fn /\ h.acc = calls[Len(calls)].acc /\ h.fn # "value"
      BY <1>1, <1>4, <2>4
    <3>4. Uniform(calls) /\ Paid(calls, d)
      BY DEF Pays
    <3>5. Uniform(r) /\ Paid(r, v)
      BY <1>1, <1>4, <2>4, <2>5, <2>6, <3>1, <3>2, <3>3, <3>4, PushPays
    <3>6. calls' = r /\ d' = v
      BY <2>7 DEF Call, Callers, Pushed
    <3>. HIDE DEF r
    <3>. QED
      BY <3>5, <3>6 DEF Paying
  <2>. QED
    BY <1>1, <2>2, <2>3, <2>4, <2>7, ReturnPays, AbortPays
<1>. QED
  BY <1>2, <1>6, <1>7

\* A mapping reads a key and its ':'; where it ends at once it has read a byte.
LEMMA ObjectNextPays ==
  ASSUME Pays, ObjectNext
  PROVE  Paying'
<1>1. /\ Top = calls[Len(calls)] /\ IsCall(Top) /\ Collects(Top) /\ Good(d) /\ d.off \in Nat
      /\ Top.type = AnyType /\ Top.iface = TRUE /\ Top.fn = "object" /\ Top.at = "head"
  BY TopPays DEF ObjectNext, Runs
<1>. DEFINE e == IF LastByte(d) \in {",", "{", "}"} \cup White THEN scanWhile(d, "SkipSpace") ELSE d
            r == rescanLiteral(e)
<1>2. \/ \E how : Abort(d, how)
      \/ EndsObject(e, Depth(d)) /\ Return(e, Top.acc) /\ ByteIsIn(d)
      \/ ReadKey(Top, e) /\ ByteIsIn(d)
  BY DEF ObjectNext
<1>3. Scans(d) /\ Len(d.data) \in Nat /\ Depth(d) \in Nat
  BY <1>1, LenProperties DEF Good, Scans, ScannerRecord, Depth
<1>4. /\ Good(e) /\ e.off \in Nat /\ e.off >= d.off
      /\ ByteIsIn(d) => e = d \/ e.off > d.off
  <2>. DEFINE s == scanWhile(d, "SkipSpace")
  <2>1. Good(s) /\ s.off \in Nat /\ s.off >= d.off /\ (d.off <= Len(d.data) => s.off > d.off)
    BY <1>3, ScanWhileFacts DEF Good, Scans, Ahead
  <2>. HIDE DEF s
  <2>2. e = s \/ e = d
    BY DEF s
  <2>. HIDE DEF e
  <2>. QED
    BY <1>1, <2>1, <2>2 DEF ByteIsIn
<1>. HIDE DEF e
<1>5. ASSUME EndsObject(e, Depth(d)), Return(e, Top.acc), ByteIsIn(d) PROVE Paying'
  <2>1. Awaits(Top, d) => e # d
    <3>1. ASSUME Awaits(Top, d), e = d PROVE FALSE
      <4>1. d.opcode \in {"BeginObject", "ObjectKey"}
        BY <1>1, <3>1 DEF Awaits
      <4>2. ~(Depth(d) < Depth(d))
        BY <1>3
      <4>. QED
        BY <1>5, <3>1, <4>1, <4>2 DEF EndsObject, Ended
    <3>. QED
      BY <3>1
  <2>. QED
    BY <1>4, <1>5, <2>1, ReturnPays
<1>6. ASSUME ReadKey(Top, e) PROVE Paying'
  <2>1. \/ \E how : Abort(e, how)
        \/ ByteIsIn(e) /\ \E item : ReadItem(Top, r, item)
    BY <1>6 DEF ReadKey
  <2>2. ByteIsIn(e) => Good(r) /\ r.off >= d.off
    <3>1. ByteIsIn(e) => Scans(e) /\ Fresh(e) /\ e.off <= Len(e.data)
      BY <1>4 DEF Good, Scans, ByteIsIn
    <3>2. ByteIsIn(e) => Good(r) /\ Ahead(e, r)
      BY <3>1, RescanFacts
    <3>. HIDE DEF r
    <3>. QED
      BY <1>1, <1>4, <3>2 DEF Ahead, Good, Scans
  <2>. HIDE DEF r
  <2>3. ASSUME ByteIsIn(e), NEW item, ReadItem(Top, r, item) PROVE Paying'
    <3>1. \/ \E how : Abort(r, how)
          \/ \E key : ReadColon([Top EXCEPT !.key = key], r)
      BY <2>3 DEF ReadItem
    <3>2. ASSUME NEW key, ReadColon([Top EXCEPT !.key = key], r) PROVE Paying'
      <4>. DEFINE f == [Top EXCEPT !.key = key]
      <4>1. /\ IsCall(f) /\ f.fn = "object" /\ f.acc = Top.acc /\ f.type = AnyType
            /\ f.iface = TRUE
        BY <1>1 DEF IsCall
      <4>. HIDE DEF f
      <4>. QED
        BY <1>1, <2>2, <2>3, <3>2, <4>1, ReadColonPays DEF f
    <3>. QED
      BY <3>1, <3>2, AbortPays
  <2>. QED
    BY <2>1, <2>3, AbortPays
<1>. QED
  BY <1>2, <1>5, <1>6, AbortPays

\* Unmarshal has read a byte when it calls value.
LEMMA UnmarshalPays ==
  ASSUME ParserInv, Unmarshal, input.type = AnyType
  PROVE  Paying'
<1>1. CASE ~checkValid(input.text)
  BY <1>1 DEF Unmarshal, Paying
<1>2. CASE checkValid(input.text)
  <2>. DEFINE b == Document(input.text)
              n == NewState(b)
              e == scanWhile(n, "SkipSpace")
              c == ValueCall(input.type, FALSE)
  <2>1. d' = e /\ calls' = <<c>>
    BY <1>2 DEF Unmarshal
  <2>2. b \in Seq(Byte)
    BY DocumentFacts, InputsAssumption DEF ParserInv
  <2>. HIDE DEF b
  <2>3. Scans(n) /\ n.off = 0 /\ Len(n.data) \in Nat
    BY <2>2, NewStateScans, LenProperties
  <2>. HIDE DEF n
  <2>4. e.off \in Nat /\ e.off > 0
    BY <2>3, ScanWhileFacts DEF Good, Scans
  <2>. HIDE DEF e
  <2>5. c.type = AnyType /\ c.iface = FALSE
    BY DEF ValueCall
  <2>. HIDE DEF c
  <2>. DEFINE q == <<c>>
  <2>6. DOMAIN q = 1..1 /\ q[1] = c
    OBVIOUS
  <2>7. \A i \in 1..1 : i = 1 /\ i % 2 # 0
    OBVIOUS
  <2>. HIDE DEF q
  <2>8. Uniform(q)
    BY <2>5, <2>6, <2>7 DEF Uniform
  <2>9. Loops(q) = {}
    BY <2>6, <2>7 DEF Loops
  <2>10. Paid(q, e)
    BY <2>4, <2>9 DEF Paid
  <2>. QED
    BY <2>1, <2>8, <2>10 DEF Paying, q
<1>. QED
  BY <1>1, <1>2


\* What the run checks for the texts and the types of MCParser, and what the theorems
\* say of every text, for a target that is an empty interface
AnyInv == input.type = AnyType => Paying

\* The arguments of Unmarshal stay.
LEMMA InputStays ==
  ASSUME Next
  PROVE  input' = input
<1>1. ASSUME NEW f, NEW r, ReturnAnchored(f, r) PROVE input' = input
  BY <1>1 DEF ReturnAnchored, ReturnOf, Return, Abort
<1>2. ASSUME NEW f, NEW fn, NEW e, BeginCollection(f, fn, e) PROVE input' = input
  BY <1>1, <1>2 DEF BeginCollection, Call
<1>3. ASSUME NEW f, NEW e, BeginLiteral(f, e) PROVE input' = input
  BY <1>1, <1>3 DEF BeginLiteral
<1>4. ASSUME NEW e, NEW how, Abort(e, how) PROVE input' = input
  BY <1>4 DEF Abort
<1>5. ASSUME ValueBegin PROVE input' = input
  <2>. PICK e, f : \/ \E r : ReturnAnchored(f, r)
                  \/ \E fn : BeginCollection(f, fn, e)
                  \/ BeginLiteral(f, e)
                  \/ \E how : Abort(e, how)
    BY <1>5 DEF ValueBegin
  <2>. QED
    BY <1>1, <1>2, <1>3, <1>4
<1>6. ASSUME NEW f, NEW e, NEW val, AfterValue(f, e, val) PROVE input' = input
  BY <1>6 DEF AfterValue, Return, Continue, Abort
<1>7. ASSUME NEW f, NEW c, NEW v, NEW type, ReadValue(f, c, v, type) PROVE input' = input
  BY <1>6, <1>7 DEF ReadValue, Return, Call, Abort
<1>8. ASSUME NEW f, NEW e, ReadColon(f, e) PROVE input' = input
  BY <1>4, <1>7, <1>8 DEF ReadColon
<1>9. ASSUME NEW f, NEW e, ReadKey(f, e) PROVE input' = input
  BY <1>4, <1>8, <1>9 DEF ReadKey, ReadItem
<1>10. ASSUME ObjectNext PROVE input' = input
  BY <1>4, <1>9, <1>10 DEF ObjectNext, Return
<1>11. ASSUME ValueEnd \/ ObjectStored PROVE input' = input
  BY <1>1, <1>6, <1>11 DEF ValueEnd, ObjectStored
<1>12. ASSUME ArrayNext \/ ArrayStored PROVE input' = input
  BY <1>12 DEF ArrayNext, ArrayStored, Return, Call, Continue
<1>13. ASSUME Unmarshal PROVE input' = input
  BY <1>13 DEF Unmarshal
<1>. QED
  BY <1>5, <1>10, <1>11, <1>12, <1>13 DEF Next

\* All steps together
LEMMA AnyStep == ParserInv /\ AnyInv /\ [Next]_vars => AnyInv'
<1>. SUFFICES ASSUME ParserInv, AnyInv, [Next]_vars, input'.type = AnyType PROVE Paying'
  BY DEF AnyInv
<1>1. CASE UNCHANGED vars
  BY <1>1 DEF vars, AnyInv, Paying
<1>2. CASE Next
  <2>1. input' = input
    BY <1>2, InputStays
  <2>2. CASE Unmarshal
    BY <2>1, <2>2, UnmarshalPays
  <2>3. CASE ValueBegin \/ ValueEnd \/ ArrayNext \/ ArrayStored \/ ObjectNext \/ ObjectStored
    <3>1. Pays
      BY <2>1, <2>3 DEF Pays, Running, AnyInv, Paying, ValueBegin, ValueEnd, ArrayNext,
         ArrayStored, ObjectNext, ObjectStored, Runs
    <3>. QED
      BY <2>3, <3>1, ValueBeginPays, ValueEndPays, ArrayNextPays, ArrayStoredPays,
         ObjectNextPays, ObjectStoredPays
  <2>. QED
    BY <1>2, <2>2, <2>3 DEF Next
<1>. QED
  BY <1>1, <1>2

\* The collections of half the calls: there is one for each pair of places.
LEMMA LoopsCounted ==
  ASSUME NEW n \in Nat, NEW m \in Nat, \A i \in 1..n : i % 2 = 0 => i <= 2 * m
  PROVE  Cardinality({i \in 1..n : i % 2 = 0}) <= m
<1>. DEFINE T == {i \in 1..n : i % 2 = 0}
            f == [k \in 1..m |-> 2 * k]
            R == {f[k] : k \in 1..m}
<1>1. IsFiniteSet(1..m) /\ Cardinality(1..m) = m
  BY FS_Interval
<1>2. f \in [1..m -> R]
  OBVIOUS
<1>3. f \in Surjection(1..m, R)
  BY <1>2 DEF Surjection
<1>. HIDE DEF f
<1>4. IsFiniteSet(R) /\ Cardinality(R) <= m
  BY <1>1, <1>3, FS_Surjection
<1>5. T \subseteq R
  <2>1. ASSUME NEW i \in T PROVE i \in R
    <3>1. i \in Nat /\ i >= 1 /\ i <= 2 * m /\ i % 2 = 0
      OBVIOUS
    <3>2. PICK k \in Nat : i = 2 * k
      BY <3>1
    <3>3. k \in 1..m
      BY <3>1, <3>2
    <3>. QED
      BY <3>2, <3>3 DEF f
  <2>. QED
    BY <2>1
<1>6. Cardinality(T) <= Cardinality(R) /\ IsFiniteSet(T)
  BY <1>4, <1>5, FS_Subset
<1>7. Cardinality(T) \in Nat /\ Cardinality(R) \in Nat
  BY <1>4, <1>6, FS_CardinalityType
<1>. QED
  BY <1>4, <1>6, <1>7

\* What the calls have paid for, in the words of Parser
LEMMA AnyInvBounds ==
  ASSUME ParserInv, AnyInv, input.type = AnyType
  PROVE  RecursionFollowsText /\ ElementsWereRead
<1>1. CASE outcome # "running"
  <2>1. calls = <<>>
    BY <1>1 DEF ParserInv
  <2>. QED
    BY <1>1, <2>1 DEF RecursionFollowsText, ElementsWereRead, Collections
<1>2. CASE outcome = "running"
  <2>1. Pays
    BY <1>2 DEF Pays, Running, AnyInv, Paying
  <2>2. /\ calls # <<>> /\ IsStack(calls) /\ Alternates(calls) /\ d.off \in Nat
        /\ Len(calls) \in Nat
    BY <2>1, TopPays
  <2>3. DOMAIN calls = 1..Len(calls)
    BY <2>2, PopCall
  <2>. PICK n \in Nat : n = Len(calls)
    BY <2>2
  <2>4. \A i \in 1..n : i % 2 = 0 => Begun(calls[i], i, d.off)
    BY <2>1, <2>3 DEF Pays, Paid, Covered, Loops
  <2>5. Collections = {i \in 1..n : i % 2 = 0}
    <3>1. \A i \in 1..n : (i % 2 = 1 <=> i % 2 # 0) /\ (calls[i].fn = "value" <=> i % 2 = 1)
      BY <2>2, <2>3 DEF Alternates
    <3>2. \A i \in 1..n : calls[i].fn \in {"value", "array", "object"}
      BY <2>2, <2>3 DEF IsStack, IsCall
    <3>. QED
      BY <2>3, <3>1, <3>2 DEF Collections
  <2>6. Cardinality(Collections) <= d.off
    <3>1. \A i \in 1..n : i % 2 = 0 => i <= 2 * d.off
      BY <2>4 DEF Begun
    <3>. QED
      BY <2>2, <2>5, <3>1, LoopsCounted
  <2>7. ASSUME NEW i \in Collections, calls[i].fn = "array" PROVE Len(calls[i].acc[2]) <= d.off
    <3>1. i \in 1..n /\ Begun(calls[i], i, d.off)
      BY <2>4, <2>5
    <3>2. PICK S : calls[i].acc[2] \in Seq(S)
      BY <2>7, <3>1 DEF Begun, IsSequence
    <3>. PICK k \in Nat : k = Len(calls[i].acc[2])
      BY <3>2, LenProperties
    <3>. PICK j \in Nat : j = i
      BY <3>1
    <3>3. j + 2 * k <= 2 * d.off
      BY <2>7, <3>1 DEF Begun
    <3>. QED
      BY <2>2, <3>3
  <2>. QED
    BY <2>6, <2>7 DEF RecursionFollowsText, ElementsWereRead
<1>. QED
  BY <1>1, <1>2

\* The same in all states that can be reached
LEMMA AnyInvHolds == Spec => [](ParserInv /\ AnyInv)
<1>1. Init => ParserInv /\ AnyInv
  BY ParserInit DEF Init, AnyInv, Paying
<1>2. ParserInv /\ AnyInv /\ [Next]_vars => (ParserInv /\ AnyInv)'
  BY ParserStep, AnyStep
<1>. QED
  BY <1>1, <1>2, PTL DEF Spec

\* No more calls of array and object are running than bytes have been read, whatever
\* the text, when the target is an empty interface: the recursion of the decoder is
\* bounded by the length of the text.
THEOREM RecursionIsBounded == Spec => [](input.type = AnyType => RecursionFollowsText)
<1>1. ParserInv /\ AnyInv => (input.type = AnyType => RecursionFollowsText)
  BY AnyInvBounds
<1>. QED
  BY <1>1, AnyInvHolds, PTL

\* An array has no more elements than bytes have been read, whatever the text, when
\* the target is an empty interface: no turn of the loops of array reads nothing.
THEOREM ElementsAreBounded == Spec => [](input.type = AnyType => ElementsWereRead)
<1>1. ParserInv /\ AnyInv => (input.type = AnyType => ElementsWereRead)
  BY AnyInvBounds
<1>. QED
  BY <1>1, AnyInvHolds, PTL

===============================================================================
