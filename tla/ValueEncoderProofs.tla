-------------------------- MODULE ValueEncoderProofs --------------------------
(***************************************************************************)
(* Proofs about ValueEncoder, for every set of graphs, names, addresses    *)
(* and every threshold of the cycle check.  All rest on StackTyped: the    *)
(* stack is a sequence of frames, each of a value of the graph.  On it     *)
(* stand invariants that do not need each other: the anchors (AnchorsInv), *)
(* the pointers on the path (SeenInv), their number (LevelInv) and the     *)
(* flow style (StyleInv).  PathInv, on SeenInv and LevelInv, bounds the    *)
(* recursion.  TypeOK and AliasesResolve combine them: ptrLevel is a       *)
(* natural number only because it covers the path, and an alias has a name *)
(* only because the maps of anchors are inverse.                           *)
(***************************************************************************)
EXTENDS ValueEncoder, SequenceFacts

\* The types of what the walk is controlled by: marshal is running exactly as long as
\* some encoder is.
StackTyped ==
  /\ graph \in [Nodes -> Value] /\ stack \in Seq(Frame)
  /\ flowStyle \in BOOLEAN /\ result \in {"ready", "encoding", "ok", "error"}
  /\ result = "encoding" <=> stack # <<>>

\* The frame of the innermost encoder, and what replacing it and calling another
\* encoder do to the stack
LEMMA StackSteps ==
  ASSUME StackTyped, Running
  PROVE  /\ Len(stack) \in Nat /\ Len(stack) >= 1
         /\ Top \in Frame /\ Below \in Seq(Frame) /\ Len(Below) = Len(stack) - 1
         /\ \A i \in 1..(Len(stack) - 1) : Below[i] = stack[i]
         /\ \A f \in Frame :
              /\ Append(Below, f) \in Seq(Frame) /\ Append(Below, f) # <<>>
              /\ Len(Append(Below, f)) = Len(stack)
              /\ \A i \in 1..(Len(stack) - 1) : Append(Below, f)[i] = stack[i]
              /\ Append(Below, f)[Len(stack)] = f
         /\ \A f, g \in Frame :
              /\ Below \o <<f, g>> \in Seq(Frame) /\ Below \o <<f, g>> # <<>>
              /\ Len(Below \o <<f, g>>) = Len(stack) + 1
              /\ \A i \in 1..(Len(stack) - 1) : (Below \o <<f, g>>)[i] = stack[i]
              /\ (Below \o <<f, g>>)[Len(stack)] = f
              /\ (Below \o <<f, g>>)[Len(stack) + 1] = g
<1>1. stack \in Seq(Frame) /\ stack # <<>>
  BY DEF StackTyped, Running
<1>2. Len(stack) \in Nat /\ Len(stack) >= 1
  BY <1>1
<1>3. /\ Top \in Frame /\ Below \in Seq(Frame) /\ Len(Below) = Len(stack) - 1
      /\ \A i \in 1..(Len(stack) - 1) : Below[i] = stack[i]
  BY <1>1, PopOff DEF Top, Below
<1>4. ASSUME NEW f \in Frame
      PROVE  /\ Append(Below, f) \in Seq(Frame) /\ Append(Below, f) # <<>>
             /\ Len(Append(Below, f)) = Len(stack)
             /\ \A i \in 1..(Len(stack) - 1) : Append(Below, f)[i] = stack[i]
             /\ Append(Below, f)[Len(stack)] = f
  BY <1>1, ReplaceTop DEF Below
<1>5. ASSUME NEW f \in Frame, NEW g \in Frame
      PROVE  /\ Below \o <<f, g>> \in Seq(Frame) /\ Below \o <<f, g>> # <<>>
             /\ Len(Below \o <<f, g>>) = Len(stack) + 1
             /\ \A i \in 1..(Len(stack) - 1) : (Below \o <<f, g>>)[i] = stack[i]
             /\ (Below \o <<f, g>>)[Len(stack)] = f
             /\ (Below \o <<f, g>>)[Len(stack) + 1] = g
  <2>1. /\ Below \o <<f, g>> \in Seq(Frame) /\ Below \o <<f, g>> # <<>>
        /\ Len(Below \o <<f, g>>) = Len(Below) + 2
        /\ \A i \in 1..Len(Below) : (Below \o <<f, g>>)[i] = Below[i]
        /\ (Below \o <<f, g>>)[Len(Below) + 1] = f
        /\ (Below \o <<f, g>>)[Len(Below) + 2] = g
    BY <1>3, PushTwo
  <2>. DEFINE s == Below \o <<f, g>>
  <2>2. /\ s \in Seq(Frame) /\ s # <<>> /\ Len(s) = Len(Below) + 2
        /\ \A i \in 1..Len(Below) : s[i] = Below[i]
        /\ s[Len(Below) + 1] = f /\ s[Len(Below) + 2] = g
    BY <2>1
  <2>. HIDE DEF s
  <2>3. /\ s \in Seq(Frame) /\ s # <<>> /\ Len(s) = Len(stack) + 1
        /\ \A i \in 1..(Len(stack) - 1) : s[i] = stack[i]
        /\ s[Len(stack)] = f /\ s[Len(stack) + 1] = g
    BY <1>2, <1>3, <2>2
  <2>. QED
    BY <2>3 DEF s
<1>. QED
  BY <1>2, <1>3, <1>4, <1>5, Zenon

\* The value being encoded and its elements
LEMMA ValueTyped ==
  ASSUME StackTyped, Running
  PROVE  /\ Top.node \in Nodes /\ Top.next \in Nat /\ Val \in Value
         /\ Val.elems # <<>> => Val.elems[1].to \in Nodes
         /\ Entered /\ Top.next <= Len(Val.elems) => Elem \in Elements
<1>1. Top.node \in Nodes /\ Top.next \in Nat
  BY StackSteps DEF Frame
<1>2. Val \in Value
  BY <1>1 DEF Val, StackTyped
<1>3. Val.elems \in Seq(Elements)
  BY <1>2 DEF Value
<1>4. ASSUME Val.elems # <<>> PROVE Val.elems[1].to \in Nodes
  <2>1. Len(Val.elems) \in Nat /\ Len(Val.elems) >= 1
    BY <1>3, <1>4
  <2>2. Val.elems[1] \in Elements
    BY <1>3, <2>1
  <2>. QED
    BY <2>2 DEF Elements
<1>5. ASSUME Entered, Top.next <= Len(Val.elems) PROVE Elem \in Elements
  <2>1. Top.next \in 1..Len(Val.elems)
    BY <1>1, <1>3, <1>5 DEF Entered
  <2>. QED
    BY <1>3, <2>1 DEF Elem
<1>. QED
  BY <1>1, <1>2, <1>4, <1>5

\* A new call is a frame, and so is the frame of the innermost encoder changed.
LEMMA FramesTyped ==
  ASSUME StackTyped, Running
  PROVE  /\ \A n \in Nodes : Call(n) \in Frame
         /\ Advance \in Frame
         /\ \A b \in BOOLEAN : [Advance EXCEPT !.oldFlow = b] \in Frame
         /\ \A b \in BOOLEAN : [Top EXCEPT !.next = 1, !.flow = b] \in Frame
         /\ \A b \in BOOLEAN, k \in {"pointer", "map"} \X Nodes :
              [[Top EXCEPT !.next = 1, !.flow = b] EXCEPT !.key = k] \in Frame
<1>1. \A n \in Nodes : Call(n) \in Frame
  BY DEF Call, Frame
<1>2. Top \in Frame
  BY StackSteps
<1>3. Advance \in Frame
  BY <1>2 DEF Advance, Frame
<1>4. \A b \in BOOLEAN : [Advance EXCEPT !.oldFlow = b] \in Frame
  BY <1>3 DEF Frame
<1>5. \A b \in BOOLEAN : [Top EXCEPT !.next = 1, !.flow = b] \in Frame
  BY <1>2 DEF Frame
<1>6. \A b \in BOOLEAN, k \in {"pointer", "map"} \X Nodes :
              [[Top EXCEPT !.next = 1, !.flow = b] EXCEPT !.key = k] \in Frame
  BY <1>5 DEF Frame
<1>. QED
  BY <1>1, <1>3, <1>4, <1>5, <1>6

\* Encoding goes on with a stack of frames.
LEMMA StackTypedStep ==
  ASSUME StackTyped, [Next]_vars
  PROVE  StackTyped'
<1>1. ASSUME NEW n \in Nodes, NEW flow \in BOOLEAN, Marshal(n, flow)
      PROVE  StackTyped'
  <2>1. Call(n) \in Frame
    BY DEF Call, Frame
  <2>2. <<Call(n)>> \in Seq(Frame) /\ <<Call(n)>> # <<>>
    BY <2>1
  <2>. QED
    BY <1>1, <2>2 DEF Marshal, StackTyped
<1>2. ASSUME Running, Return, UNCHANGED graph
      PROVE  StackTyped'
  <2>1. Below \in Seq(Frame)
    BY <1>2, StackSteps
  <2>2. flowStyle' \in BOOLEAN
    <3>1. CASE Below # <<>> /\ graph[Caller.node].kind = "struct"
      <4>1. Caller \in Frame
        BY <2>1, <3>1 DEF Caller
      <4>. QED
        BY <1>2, <3>1, <4>1 DEF Return, Frame
    <3>2. CASE ~(Below # <<>> /\ graph[Caller.node].kind = "struct")
      BY <1>2, <3>2 DEF Return, StackTyped
    <3>. QED
      BY <3>1, <3>2
  <2>. QED
    BY <1>2, <2>1, <2>2 DEF Return, StackTyped
<1>3. ASSUME NEW f \in Frame, Running, stack' = Append(Below, f), flowStyle' \in BOOLEAN,
             UNCHANGED <<graph, result>>
      PROVE  StackTyped'
  BY <1>3, StackSteps DEF StackTyped, Running
<1>4. ASSUME NEW f \in Frame, NEW g \in Frame, Running, stack' = Below \o <<f, g>>,
             flowStyle' \in BOOLEAN, UNCHANGED <<graph, result>>
      PROVE  StackTyped'
  BY <1>4, StackSteps DEF StackTyped, Running
<1>5. ASSUME Panic, UNCHANGED <<graph, flowStyle>>
      PROVE  StackTyped'
  BY <1>5 DEF Panic, StackTyped
<1>6. ASSUME Running, EncodeField, UNCHANGED graph, Elem \in Elements
      PROVE  StackTyped'
  <2>1. flowStyle \in BOOLEAN /\ flowStyle' \in BOOLEAN
    BY <1>6 DEF EncodeField, StackTyped, Elements
  <2>2. [Advance EXCEPT !.oldFlow = flowStyle] \in Frame
    BY <1>6, <2>1, FramesTyped
  <2>3. Call(Elem.to) \in Frame
    BY <1>6, FramesTyped DEF Elements
  <2>. QED
    BY <1>4, <1>6, <2>1, <2>2, <2>3 DEF EncodeField
<1>7. CASE WriteLeaf
  BY <1>2, <1>7 DEF WriteLeaf, Entering
<1>8. CASE OpenInterface
  BY <1>3, <1>8, FramesTyped, ValueTyped DEF OpenInterface, Entering, state, StackTyped
<1>9. CASE EnterCollection
  BY <1>3, <1>9, FramesTyped DEF EnterCollection, Entering, state, StackTyped
<1>10. CASE EnterPointer
  <2>1. Running /\ Val.kind \in {"pointer", "map"} /\ Val.elems # <<>>
    BY <1>10 DEF EnterPointer, Entering
  <2>2. Key(Top.node) \in {"pointer", "map"} \X Nodes
    BY <2>1, ValueTyped DEF Key, Val
  <2>3. flowStyle \in BOOLEAN
    BY DEF StackTyped
  <2>. DEFINE entered == [Top EXCEPT !.next = 1, !.flow = flowStyle]
              k       == Key(Top.node)
  <2>4. entered \in Frame /\ [entered EXCEPT !.key = k] \in Frame
    BY <2>1, <2>2, <2>3, FramesTyped
  <2>5. /\ \/ stack' = Append(Below, entered) /\ UNCHANGED result
           \/ Panic
           \/ stack' = Append(Below, [entered EXCEPT !.key = k]) /\ UNCHANGED result
        /\ UNCHANGED <<graph, flowStyle>>
    BY <1>10 DEF EnterPointer
  <2>. HIDE DEF entered, k
  <2>6. CASE stack' = Append(Below, entered) /\ UNCHANGED result
    BY <1>3, <2>1, <2>3, <2>4, <2>5, <2>6
  <2>7. CASE stack' = Append(Below, [entered EXCEPT !.key = k]) /\ UNCHANGED result
    BY <1>3, <2>1, <2>3, <2>4, <2>5, <2>7
  <2>. QED
    BY <1>5, <2>5, <2>6, <2>7
<1>. DEFINE AtAny == Running /\ Elem \in Elements
<1>11. ASSUME NEW K, AtElem(K) PROVE AtAny
  BY <1>11, ValueTyped DEF AtElem
<1>12. CASE PointerElem
  BY <1>4, <1>11, <1>12, FramesTyped DEF PointerElem, state, Elements, StackTyped
<1>13. CASE SliceElem
  <2>1. AtAny
    BY <1>11, <1>13 DEF SliceElem
  <2>2. CASE Anchored(Elem.to)
    BY <1>3, <1>13, <2>1, <2>2, FramesTyped DEF SliceElem, state, StackTyped
  <2>3. CASE ~Anchored(Elem.to)
    BY <1>4, <1>13, <2>1, <2>3, FramesTyped DEF SliceElem, state, Elements, StackTyped
  <2>. QED
    BY <2>2, <2>3
<1>14. CASE FieldAlias
  <2>1. AtAny
    BY <1>11, <1>14 DEF FieldAlias
  <2>2. CASE Elem.alias \in {NoName, anchors[Ref(Elem.to)]}
    BY <1>3, <1>14, <2>1, <2>2, FramesTyped DEF FieldAlias, StackTyped
  <2>3. CASE Elem.alias \notin {NoName, anchors[Ref(Elem.to)]}
    BY <1>5, <1>14, <2>3 DEF FieldAlias
  <2>. QED
    BY <2>2, <2>3
<1>15. CASE FieldAnchor
  <2>1. AtAny
    BY <1>11, <1>15 DEF FieldAnchor
  <2>2. CASE Panic /\ UNCHANGED flowStyle
    BY <1>5, <1>15, <2>2 DEF FieldAnchor
  <2>3. CASE EncodeField
    BY <1>6, <1>15, <2>1, <2>3 DEF FieldAnchor
  <2>. QED
    BY <1>15, <2>2, <2>3 DEF FieldAnchor
<1>16. CASE FieldPlain
  BY <1>6, <1>11, <1>16 DEF FieldPlain
<1>17. CASE LeaveCollection
  BY <1>2, <1>17 DEF LeaveCollection, AtEnd
<1>18. CASE LeavePointer
  BY <1>2, <1>18 DEF LeavePointer, AtEnd
<1>19. CASE UNCHANGED vars
  BY <1>19 DEF StackTyped, vars
<1>20. CASE RefuseValue \/ RefuseKey
  BY <1>5, <1>20 DEF RefuseValue, RefuseKey, Refused
<1>. QED
  BY <1>1, <1>7, <1>8, <1>9, <1>10, <1>12, <1>13, <1>14, <1>15, <1>16, <1>17, <1>18, <1>19, <1>20
     DEF Next

\* Every reachable state has a stack of frames.
LEMMA AlwaysStackTyped == Spec => []StackTyped
<1>1. ASSUME Init PROVE StackTyped
  <2>1. graph \in [Nodes -> Value]
    BY <1>1, GraphsAssumption DEF Init
  <2>2. stack \in Seq(Frame) /\ stack = <<>>
    BY <1>1 DEF Init
  <2>. QED
    BY <1>1, <2>1, <2>2 DEF Init, StackTyped
<1>. QED
  BY <1>1, StackTypedStep, PTL DEF Spec

-----------------------------------------------------------------------------
\* Two functions that are inverse to each other
Inverses(f, g) ==
  /\ \A x \in DOMAIN f : f[x] \in DOMAIN g /\ g[f[x]] = x
  /\ \A y \in DOMAIN g : g[y] \in DOMAIN f /\ f[g[y]] = y

\* Giving a free name to an address without one keeps two maps inverse.
LEMMA StoreBoth ==
  ASSUME NEW f, NEW g, NEW a, NEW n, Inverses(f, g), a \notin DOMAIN f, n \notin DOMAIN g
  PROVE  Inverses(Store(f, a, n), Store(g, n, a))
<1>. DEFINE F == Store(f, a, n)
            G == Store(g, n, a)
<1>1. /\ DOMAIN F = DOMAIN f \cup {a} /\ DOMAIN G = DOMAIN g \cup {n}
      /\ F[a] = n /\ \A x \in DOMAIN f : F[x] = f[x]
      /\ G[n] = a /\ \A y \in DOMAIN g : G[y] = g[y]
  BY DEF Store
<1>. HIDE DEF F, G
<1>2. \A x \in DOMAIN F : F[x] \in DOMAIN G /\ G[F[x]] = x
  BY <1>1 DEF Inverses
<1>3. \A y \in DOMAIN G : G[y] \in DOMAIN F /\ F[G[y]] = y
  BY <1>1 DEF Inverses
<1>4. Inverses(F, G)
  BY <1>2, <1>3 DEF Inverses
<1>. QED
  BY <1>1, <1>4 DEF F, G

\* A name given by uniqueAnchorName is free, or there is none.
LEMMA UniqueNameIsFree ==
  ASSUME NEW base \in Names
  PROVE  UniqueName(base) = NoName \/ UniqueName(base) \notin DOMAIN anchorNames
<1>. DEFINE free == {i \in 1..Len(Suffixes[base]) : Suffixes[base][i] \notin DOMAIN anchorNames}
<1>1. CASE free = {}
  BY <1>1 DEF UniqueName
<1>2. CASE free # {}
  <2>1. Len(Suffixes[base]) \in Nat
    BY NamesAssumption
  <2>2. free \subseteq Nat
    BY <2>1
  <2>3. \E m \in free : \A n \in free : m <= n
    BY <1>2, <2>2, LeastNatural
  <2>4. UniqueName(base) = Suffixes[base][CHOOSE i \in free : \A j \in free : i <= j]
    BY <1>2 DEF UniqueName
  <2>5. (CHOOSE i \in free : \A j \in free : i <= j) \in free
    BY <2>3
  <2>. QED
    BY <2>4, <2>5
<1>. QED
  BY <1>1, <1>2

\* storeAnchor never reuses a name
LEMMA AnchorNameIsFree ==
  ASSUME NEW addr, addr # 0, addr \notin DOMAIN anchors, NEW name \in Names, AnchorsInverse
  PROVE  AnchorName(addr, name) = NoName \/ AnchorName(addr, name) \notin DOMAIN anchorNames
<1>1. CASE name \in DOMAIN anchorNames
  <2>1. anchorNames[name] # addr
    BY <1>1 DEF AnchorsInverse
  <2>2. AnchorName(addr, name) = UniqueName(name)
    BY <1>1, <2>1 DEF AnchorName
  <2>. QED
    BY <2>2, UniqueNameIsFree
<1>2. CASE name \notin DOMAIN anchorNames
  <2>1. AnchorName(addr, name) = name
    BY <1>2 DEF AnchorName
  <2>. QED
    BY <1>2, <2>1
<1>. QED
  BY <1>1, <1>2

\* The invariant behind AnchorsInverse: the empty name, which storeAnchor also stores
\* when it has run out of names, is in the maps only after an error.
AnchorsInv ==
  /\ AnchorsInverse
  /\ result = "encoding" => NoName \notin DOMAIN anchorNames

\* The maps stay inverse: only marshal, which empties them, and a field with an anchor
\* change them.
LEMMA AnchorsInvStep ==
  ASSUME StackTyped, StackTyped', AnchorsInv, [Next]_vars
  PROVE  AnchorsInv'
<1>1. ASSUME UNCHANGED <<anchors, anchorNames>>, Running \/ UNCHANGED result
      PROVE  AnchorsInv'
  BY <1>1 DEF AnchorsInv, AnchorsInverse, Running
<1>2. ASSUME NEW n \in Nodes, NEW flow \in BOOLEAN, Marshal(n, flow)
      PROVE  AnchorsInv'
  <2>1. anchors' = Empty /\ anchorNames' = Empty /\ DOMAIN Empty = {}
    BY <1>2 DEF Marshal, Empty
  <2>. QED
    BY <2>1 DEF AnchorsInv, AnchorsInverse
<1>3. CASE FieldAnchor
  <2>. DEFINE addr == Ref(Elem.to)
              name == AnchorName(addr, Elem.anchor)
  <2>1. Running /\ Elem \in Elements
    BY <1>3, ValueTyped DEF FieldAnchor, AtElem
  <2>2. Elem.anchor \in Names /\ addr \notin DOMAIN anchors
    BY <1>3, <2>1 DEF FieldAnchor, Anchored, Elements
  <2>3. /\ IF addr = 0 THEN UNCHANGED <<anchors, anchorNames>>
           ELSE anchors' = Store(anchors, addr, name) /\ anchorNames' = Store(anchorNames, name, addr)
        /\ name = NoName => result' = "error"
    BY <1>3 DEF FieldAnchor, Panic
  <2>. HIDE DEF addr, name
  <2>4. CASE addr = 0
    BY <1>1, <2>1, <2>3, <2>4
  <2>5. CASE addr # 0
    <3>1. name = NoName \/ name \notin DOMAIN anchorNames
      BY <2>2, <2>5, AnchorNameIsFree DEF AnchorsInv, name
    <3>2. name \notin DOMAIN anchorNames
      BY <2>1, <3>1 DEF AnchorsInv, Running
    <3>3. Inverses(anchors, anchorNames)
      BY DEF AnchorsInv, AnchorsInverse, Inverses
    <3>4. Inverses(Store(anchors, addr, name), Store(anchorNames, name, addr))
      BY <2>2, <3>2, <3>3, StoreBoth
    <3>5. Inverses(anchors', anchorNames')
      BY <2>3, <2>5, <3>4
    <3>6. AnchorsInverse'
      BY <3>5 DEF AnchorsInverse, Inverses
    <3>7. DOMAIN anchorNames' = DOMAIN anchorNames \cup {name}
      BY <2>3, <2>5 DEF Store
    <3>. QED
      BY <2>1, <2>3, <3>6, <3>7 DEF AnchorsInv, Running
  <2>. QED
    BY <2>4, <2>5
<1>4. CASE UNCHANGED vars
  BY <1>1, <1>4 DEF vars
<1>5. CASE WriteLeaf \/ OpenInterface \/ EnterCollection \/ EnterPointer
  BY <1>1, <1>5 DEF WriteLeaf, OpenInterface, EnterCollection, EnterPointer, Entering, state
<1>6. CASE PointerElem \/ SliceElem \/ FieldAlias \/ FieldPlain
  BY <1>1, <1>6 DEF PointerElem, SliceElem, FieldAlias, FieldPlain, AtElem, state
<1>7. CASE LeaveCollection \/ LeavePointer
  BY <1>1, <1>7 DEF LeaveCollection, LeavePointer, AtEnd
<1>8. CASE RefuseValue \/ RefuseKey
  BY <1>1, <1>8 DEF RefuseValue, RefuseKey, Refused, Entering, AtElem
<1>. QED
  BY <1>2, <1>3, <1>4, <1>5, <1>6, <1>7, <1>8
     DEF Next

\* The two maps of anchors are inverse to each other in every state: no value gets
\* a second name, and no name a second value, whatever graph is marshalled.
THEOREM AnchorInverse == Spec => []AnchorsInverse
<1>1. Init => AnchorsInv
  BY DEF Init, AnchorsInv, AnchorsInverse, Empty
<1>2. StackTyped /\ StackTyped' /\ AnchorsInv /\ [Next]_vars => AnchorsInv'
  BY AnchorsInvStep
<1>3. AnchorsInv => AnchorsInverse
  BY DEF AnchorsInv
<1>. QED
  BY <1>1, <1>2, <1>3, AlwaysStackTyped, PTL DEF Spec

-----------------------------------------------------------------------------
\* The invariant behind SeenIsPath: only the encoder of a pointer or map that has been
\* entered has a key.
SeenInv ==
  /\ \A k : k \in ptrSeen <=> k # NoKey /\ \E i \in 1..Len(stack) : stack[i].key = k
  /\ \A i, j \in 1..Len(stack) : stack[i].key = stack[j].key /\ stack[i].key # NoKey => i = j
  /\ \A i \in 1..Len(stack) : stack[i].key # NoKey =>
       stack[i].next > 0 /\ graph[stack[i].node].kind \in {"pointer", "map"}

\* The innermost encoder goes on without touching its key.
LEMMA KeyKept ==
  ASSUME StackTyped, Running, SeenInv, NEW f \in Frame,
         stack' = Append(Below, f), f.key = Top.key,
         f.key # NoKey => f.node = Top.node /\ f.next > 0, UNCHANGED <<graph, ptrSeen>>
  PROVE  SeenInv'
<1>1. Len(stack) \in Nat /\ Len(stack) >= 1
  BY StackSteps
<1>2. Len(stack') = Len(stack) /\ \A i \in 1..Len(stack) : stack'[i].key = stack[i].key
  BY <1>1, StackSteps DEF Top
<1>3. ASSUME NEW i \in 1..Len(stack), stack[i].key # NoKey
      PROVE  stack'[i].next > 0 /\ graph[stack'[i].node].kind \in {"pointer", "map"}
  <2>1. CASE i = Len(stack)
    BY <1>3, <2>1, StackSteps DEF SeenInv, Top
  <2>2. CASE i # Len(stack)
    <3>1. i \in 1..(Len(stack) - 1)
      BY <1>1, <2>2
    <3>. QED
      BY <1>3, <3>1, StackSteps DEF SeenInv
  <2>. QED
    BY <2>1, <2>2
<1>. QED
  BY <1>2, <1>3 DEF SeenInv

\* A call has no key yet.
LEMMA KeysUnderCall ==
  ASSUME StackTyped, Running, SeenInv, NEW f \in Frame, NEW g \in Frame,
         stack' = Below \o <<f, g>>, f.key = Top.key, f.node = Top.node, f.next > 0, g.key = NoKey,
         UNCHANGED <<graph, ptrSeen>>
  PROVE  SeenInv'
<1>1. Len(stack) \in Nat /\ Len(stack) >= 1
  BY StackSteps
<1>2. Len(stack') = Len(stack) + 1 /\ stack'[Len(stack) + 1].key = NoKey
  BY StackSteps
<1>3. \A i \in 1..Len(stack) : stack'[i].key = stack[i].key
  BY <1>1, StackSteps DEF Top
<1>4. ASSUME NEW i \in 1..Len(stack), stack[i].key # NoKey
      PROVE  stack'[i].next > 0 /\ graph[stack'[i].node].kind \in {"pointer", "map"}
  <2>1. CASE i = Len(stack)
    BY <1>4, <2>1, StackSteps DEF SeenInv, Top
  <2>2. CASE i # Len(stack)
    <3>1. i \in 1..(Len(stack) - 1)
      BY <1>1, <2>2
    <3>. QED
      BY <1>4, <3>1, StackSteps DEF SeenInv
  <2>. QED
    BY <2>1, <2>2
<1>5. \A i \in 1..(Len(stack) + 1) : i \in 1..Len(stack) \/ i = Len(stack) + 1
  BY <1>1
<1>6. \A i \in 1..Len(stack) : i \in 1..(Len(stack) + 1)
  BY <1>1
<1>7. ASSUME NEW k
      PROVE  k \in ptrSeen' <=> k # NoKey /\ \E i \in 1..Len(stack') : stack'[i].key = k
  <2>1. ASSUME k \in ptrSeen' PROVE k # NoKey /\ \E i \in 1..Len(stack') : stack'[i].key = k
    <3>1. k \in ptrSeen
      BY <2>1
    <3>2. PICK i \in 1..Len(stack) : stack[i].key = k
      BY <3>1 DEF SeenInv
    <3>3. i \in 1..Len(stack') /\ stack'[i].key = k
      BY <1>2, <1>3, <1>6, <3>2
    <3>4. k # NoKey
      BY <3>1 DEF SeenInv
    <3>. QED
      BY <3>3, <3>4
  <2>2. ASSUME k # NoKey, NEW i \in 1..Len(stack'), stack'[i].key = k PROVE k \in ptrSeen'
    BY <1>2, <1>3, <1>5, <2>2 DEF SeenInv
  <2>. QED
    BY <2>1, <2>2
<1>8. ASSUME NEW i \in 1..Len(stack'), NEW j \in 1..Len(stack'),
             stack'[i].key = stack'[j].key, stack'[i].key # NoKey
      PROVE  i = j
  <2>1. i \in 1..Len(stack) /\ j \in 1..Len(stack)
    BY <1>2, <1>5, <1>8
  <2>. QED
    BY <1>3, <1>8, <2>1 DEF SeenInv
<1>9. ASSUME NEW i \in 1..Len(stack'), stack'[i].key # NoKey
      PROVE  stack'[i].next > 0 /\ graph'[stack'[i].node].kind \in {"pointer", "map"}
  <2>1. i \in 1..Len(stack)
    BY <1>2, <1>5, <1>9
  <2>. QED
    BY <1>3, <1>4, <1>9, <2>1
<1>. QED
  BY <1>7, <1>8, <1>9 DEF SeenInv

\* The innermost encoder returns, and its key goes.
LEMMA KeyDeleted ==
  ASSUME StackTyped, Running, SeenInv, stack' = Below, ptrSeen' = ptrSeen \ {Top.key}, UNCHANGED graph
  PROVE  SeenInv'
<1>1. Len(stack) \in Nat /\ Len(stack) >= 1
  BY StackSteps
<1>2. Len(stack') = Len(stack) - 1 /\ \A i \in 1..(Len(stack) - 1) : stack'[i] = stack[i]
  BY StackSteps
<1>3. \A i \in 1..Len(stack) : i \in 1..(Len(stack) - 1) \/ i = Len(stack)
  BY <1>1
<1>4. \A i \in 1..(Len(stack) - 1) : i \in 1..Len(stack) /\ i # Len(stack)
  BY <1>1
<1>5. Top = stack[Len(stack)] /\ Len(stack) \in 1..Len(stack)
  BY <1>1 DEF Top
<1>6. ASSUME NEW k
      PROVE  k \in ptrSeen' <=> k # NoKey /\ \E i \in 1..Len(stack') : stack'[i].key = k
  <2>1. ASSUME k \in ptrSeen' PROVE k # NoKey /\ \E i \in 1..Len(stack') : stack'[i].key = k
    BY <1>2, <1>3, <1>5, <2>1 DEF SeenInv
  <2>2. ASSUME k # NoKey, NEW i \in 1..Len(stack'), stack'[i].key = k PROVE k \in ptrSeen'
    BY <1>2, <1>4, <1>5, <2>2 DEF SeenInv
  <2>. QED
    BY <2>1, <2>2
<1>7. ASSUME NEW i \in 1..Len(stack')
      PROVE  i \in 1..Len(stack) /\ stack'[i] = stack[i]
  BY <1>2, <1>4
<1>8. ASSUME NEW i \in 1..Len(stack'), NEW j \in 1..Len(stack'),
             stack'[i].key = stack'[j].key, stack'[i].key # NoKey
      PROVE  i = j
  BY <1>7, <1>8 DEF SeenInv
<1>9. ASSUME NEW i \in 1..Len(stack'), stack'[i].key # NoKey
      PROVE  stack'[i].next > 0 /\ graph'[stack'[i].node].kind \in {"pointer", "map"}
  BY <1>7, <1>9 DEF SeenInv
<1>. QED
  BY <1>6, <1>8, <1>9 DEF SeenInv

\* The encoder of a pointer or map puts its key into ptrSeen, where it was not.
LEMMA KeyAdded ==
  ASSUME StackTyped, Running, SeenInv, NEW f \in Frame, NEW k, k # NoKey, k \notin ptrSeen,
         Val.kind \in {"pointer", "map"}, Top.key = NoKey,
         stack' = Append(Below, f), f.key = k, f.node = Top.node, f.next = 1,
         ptrSeen' = ptrSeen \cup {k}, UNCHANGED graph
  PROVE  SeenInv'
<1>1. Len(stack) \in Nat /\ Len(stack) >= 1
  BY StackSteps
<1>2. /\ Len(stack') = Len(stack) /\ stack'[Len(stack)] = f
      /\ \A i \in 1..(Len(stack) - 1) : stack'[i] = stack[i]
  BY StackSteps
<1>3. \A i \in 1..Len(stack) : i \in 1..(Len(stack) - 1) \/ i = Len(stack)
  BY <1>1
<1>4. Top = stack[Len(stack)] /\ Len(stack) \in 1..Len(stack)
  BY <1>1 DEF Top
<1>5. \A i \in 1..Len(stack) : stack[i].key # k
  BY DEF SeenInv
<1>6. ASSUME NEW i \in 1..Len(stack')
      PROVE  stack'[i].key = IF i = Len(stack) THEN k ELSE stack[i].key
  BY <1>2, <1>3
<1>7. ASSUME NEW x
      PROVE  x \in ptrSeen' <=> x # NoKey /\ \E i \in 1..Len(stack') : stack'[i].key = x
  <2>1. ASSUME x \in ptrSeen' PROVE x # NoKey /\ \E i \in 1..Len(stack') : stack'[i].key = x
    <3>1. CASE x = k
      BY <1>2, <1>4, <3>1
    <3>2. CASE x # k
      <4>1. x \in ptrSeen /\ x # NoKey
        BY <2>1, <3>2 DEF SeenInv
      <4>2. PICK i \in 1..Len(stack) : stack[i].key = x
        BY <4>1 DEF SeenInv
      <4>3. i # Len(stack)
        BY <1>4, <4>1, <4>2
      <4>4. i \in 1..Len(stack') /\ stack'[i].key = x
        BY <1>2, <1>3, <4>2, <4>3
      <4>. QED
        BY <4>1, <4>4
    <3>. QED
      BY <3>1, <3>2
  <2>2. ASSUME x # NoKey, NEW i \in 1..Len(stack'), stack'[i].key = x PROVE x \in ptrSeen'
    <3>1. CASE i = Len(stack)
      BY <1>6, <2>2, <3>1
    <3>2. CASE i # Len(stack)
      BY <1>2, <1>6, <2>2, <3>2 DEF SeenInv
    <3>. QED
      BY <3>1, <3>2
  <2>. QED
    BY <2>1, <2>2
<1>8. ASSUME NEW i \in 1..Len(stack'), NEW j \in 1..Len(stack'),
             stack'[i].key = stack'[j].key, stack'[i].key # NoKey
      PROVE  i = j
  <2>1. i \in 1..Len(stack) /\ j \in 1..Len(stack)
    BY <1>2
  <2>2. i = Len(stack) <=> j = Len(stack)
    BY <1>5, <1>6, <1>8, <2>1
  <2>. QED
    BY <1>6, <1>8, <2>1, <2>2 DEF SeenInv
<1>9. ASSUME NEW i \in 1..Len(stack'), stack'[i].key # NoKey
      PROVE  stack'[i].next > 0 /\ graph'[stack'[i].node].kind \in {"pointer", "map"}
  <2>1. CASE i = Len(stack)
    BY <1>2, <2>1 DEF Val
  <2>2. CASE i # Len(stack)
    <3>1. i \in 1..Len(stack) /\ stack'[i] = stack[i]
      BY <1>2, <1>3, <2>2
    <3>. QED
      BY <1>9, <3>1 DEF SeenInv
  <2>. QED
    BY <2>1, <2>2
<1>. QED
  BY <1>7, <1>8, <1>9 DEF SeenInv

\* ptrSeen stays the keys on the stack: a pointer or map adds its key when it is
\* entered and deletes it when it is left, and an error deletes all.
LEMMA SeenInvStep ==
  ASSUME StackTyped, StackTyped', SeenInv, [Next]_vars
  PROVE  SeenInv'
<1>1. ASSUME NEW n \in Nodes, NEW flow \in BOOLEAN, Marshal(n, flow)
      PROVE  SeenInv'
  <2>1. stack = <<>> /\ ptrSeen' = ptrSeen
    BY <1>1 DEF Marshal, StackTyped
  <2>2. ptrSeen = {}
    BY <2>1 DEF SeenInv
  <2>3. stack' = <<Call(n)>> /\ Call(n).key = NoKey
    BY <1>1 DEF Marshal, Call
  <2>4. Len(stack') = 1 /\ stack'[1].key = NoKey
    BY <2>3
  <2>5. \A i \in 1..Len(stack') : stack'[i].key = NoKey
    BY <2>4
  <2>. QED
    BY <2>1, <2>2, <2>5 DEF SeenInv
<1>2. ASSUME Panic PROVE SeenInv'
  <2>1. stack' = <<>> /\ ptrSeen' = ptrSeen \ Deferred
    BY <1>2 DEF Panic
  <2>2. ptrSeen' = {}
    BY <2>1 DEF SeenInv, Deferred
  <2>3. Len(stack') = 0 /\ 1..Len(stack') = {}
    BY <2>1
  <2>. QED
    BY <2>2, <2>3 DEF SeenInv
<1>3. ASSUME Running, Return, UNCHANGED <<graph, ptrSeen>>, Top.key = NoKey
      PROVE  SeenInv'
  <2>1. ptrSeen' = ptrSeen \ {Top.key}
    BY <1>3 DEF SeenInv
  <2>. QED
    BY <1>3, <2>1, KeyDeleted DEF Return
<1>4. ASSUME Running PROVE Top = stack[Len(stack)] /\ Len(stack) \in 1..Len(stack)
  BY <1>4, StackSteps DEF Top
<1>5. ASSUME Running, ~Entered PROVE Top.key = NoKey
  BY <1>4, <1>5, ValueTyped DEF SeenInv, Entered
<1>6. ASSUME Running, Val.kind \notin {"pointer", "map"} PROVE Top.key = NoKey
  BY <1>4, <1>6 DEF SeenInv, Val
<1>7. ASSUME Running PROVE /\ Advance \in Frame /\ Advance.key = Top.key
                           /\ Advance.node = Top.node /\ Advance.next > 0
  <2>1. Top \in Frame /\ Advance \in Frame
    BY <1>7, StackSteps, FramesTyped
  <2>. QED
    BY <2>1 DEF Advance, Frame
<1>8. ASSUME NEW n \in Nodes PROVE Call(n) \in Frame /\ Call(n).key = NoKey
  BY DEF Call, Frame
<1>9. CASE WriteLeaf
  BY <1>3, <1>5, <1>9 DEF WriteLeaf, Entering
<1>10. CASE OpenInterface
  <2>1. Running /\ Top.key = NoKey /\ Val.elems[1].to \in Nodes
    BY <1>5, <1>10, ValueTyped DEF OpenInterface, Entering
  <2>. QED
    BY <1>8, <1>10, <2>1, KeyKept DEF OpenInterface, state
<1>. DEFINE e == [Top EXCEPT !.next = 1, !.flow = flowStyle]
<1>11. ASSUME Running
       PROVE  e \in Frame /\ e.key = Top.key /\ e.node = Top.node /\ e.next = 1
  <2>1. Top \in Frame /\ flowStyle \in BOOLEAN
    BY <1>11, StackSteps DEF StackTyped
  <2>2. e.key = Top.key /\ e.node = Top.node /\ e.next = 1
    BY <2>1 DEF Frame
  <2>3. e \in Frame
    BY <1>11, <2>1, FramesTyped
  <2>. QED
    BY <2>2, <2>3
<1>12. CASE EnterCollection
  <2>1. Running /\ stack' = Append(Below, e) /\ UNCHANGED <<graph, ptrSeen>>
    BY <1>12 DEF EnterCollection, Entering, state
  <2>. HIDE DEF e
  <2>. QED
    BY <1>11, <2>1, KeyKept
<1>13. ASSUME Running, EncodeField, UNCHANGED graph, Elem \in Elements
       PROVE  SeenInv'
  <2>. DEFINE f == [Advance EXCEPT !.oldFlow = flowStyle]
  <2>1. f \in Frame /\ f.key = Top.key /\ f.node = Top.node /\ f.next > 0
    BY <1>7, <1>13, FramesTyped DEF StackTyped, Frame
  <2>2. Call(Elem.to) \in Frame /\ Call(Elem.to).key = NoKey
    BY <1>8, <1>13 DEF Elements
  <2>3. stack' = Below \o <<f, Call(Elem.to)>> /\ UNCHANGED <<graph, ptrSeen>>
    BY <1>13 DEF EncodeField
  <2>. HIDE DEF f
  <2>. QED
    BY <1>13, <2>1, <2>2, <2>3, KeysUnderCall
<1>14. ASSUME NEW K, AtElem(K) PROVE Running /\ Elem \in Elements
  BY <1>14, ValueTyped DEF AtElem
<1>15. ASSUME Running, stack' = Append(Below, Advance), UNCHANGED <<graph, ptrSeen>>
       PROVE  SeenInv'
  BY <1>7, <1>15, KeyKept
<1>16. ASSUME Running, Elem \in Elements, stack' = Below \o <<Advance, Call(Elem.to)>>,
              UNCHANGED <<graph, ptrSeen>>
       PROVE  SeenInv'
  <2>1. Call(Elem.to) \in Frame /\ Call(Elem.to).key = NoKey
    BY <1>8, <1>16 DEF Elements
  <2>. QED
    BY <1>7, <1>16, <2>1, KeysUnderCall
<1>17. CASE PointerElem
  BY <1>14, <1>16, <1>17 DEF PointerElem, state
<1>18. CASE SliceElem
  BY <1>14, <1>15, <1>16, <1>18 DEF SliceElem, state
<1>19. CASE FieldAlias
  BY <1>2, <1>14, <1>15, <1>19 DEF FieldAlias
<1>20. CASE FieldAnchor
  BY <1>2, <1>13, <1>14, <1>20 DEF FieldAnchor
<1>21. CASE FieldPlain
  BY <1>13, <1>14, <1>21 DEF FieldPlain
<1>22. CASE LeaveCollection
  <2>1. Running /\ Top.key = NoKey
    BY <1>6, <1>22 DEF LeaveCollection, AtEnd
  <2>. QED
    BY <1>3, <1>22, <2>1 DEF LeaveCollection
<1>23. CASE LeavePointer
  BY <1>23, KeyDeleted DEF LeavePointer, AtEnd, Return
<1>24. CASE UNCHANGED vars
  BY <1>24 DEF vars, SeenInv
<1>25. CASE EnterPointer
  <2>. DEFINE k == Key(Top.node)
              f == [e EXCEPT !.key = k]
  <2>1. /\ Running /\ flowStyle \in BOOLEAN /\ Top.key = NoKey
        /\ Val.kind \in {"pointer", "map"} /\ Val.elems # <<>>
    BY <1>5, <1>25 DEF EnterPointer, Entering, StackTyped
  <2>2. k \in {"pointer", "map"} \X Nodes /\ k # NoKey
    BY <2>1, ValueTyped DEF Key, Val, NoKey
  <2>3. e \in Frame /\ e.key = Top.key /\ e.node = Top.node /\ e.next = 1
    BY <1>11, <2>1
  <2>4. f \in Frame /\ f.key = k /\ f.node = Top.node /\ f.next = 1
    BY <2>1, <2>2, <2>3, FramesTyped DEF Frame
  <2>5. /\ \/ stack' = Append(Below, e) /\ UNCHANGED ptrSeen
           \/ Panic
           \/ k \notin ptrSeen /\ stack' = Append(Below, f) /\ ptrSeen' = ptrSeen \cup {k}
        /\ UNCHANGED graph
    BY <1>25 DEF EnterPointer
  <2>. HIDE DEF e, k, f
  <2>6. CASE stack' = Append(Below, e) /\ UNCHANGED ptrSeen
    BY <2>1, <2>3, <2>5, <2>6, KeyKept
  <2>7. CASE k \notin ptrSeen /\ stack' = Append(Below, f) /\ ptrSeen' = ptrSeen \cup {k}
    BY <2>1, <2>2, <2>4, <2>5, <2>7, KeyAdded
  <2>. QED
    BY <1>2, <2>5, <2>6, <2>7
<1>26. CASE RefuseValue \/ RefuseKey
  BY <1>2, <1>26 DEF RefuseValue, RefuseKey, Refused
<1>. QED
  BY <1>1, <1>9, <1>10, <1>12, <1>17, <1>18, <1>19, <1>20, <1>21, <1>22, <1>23, <1>24, <1>25, <1>26
     DEF Next

\* ptrSeen is exactly what the encoders being run have put there, so that it is empty
\* whenever Marshal has returned, with an error or without.
THEOREM SeenIsThePath == Spec => []SeenIsPath
<1>1. Init => SeenInv
  BY DEF Init, SeenInv
<1>2. StackTyped /\ StackTyped' /\ SeenInv /\ [Next]_vars => SeenInv'
  BY SeenInvStep
<1>3. SeenInv => SeenIsPath
  BY DEF SeenInv, SeenIsPath, Deferred
<1>. QED
  BY <1>1, <1>2, <1>3, AlwaysStackTyped, PTL DEF Spec

-----------------------------------------------------------------------------
\* The invariant behind LevelCoversPath
LevelInv == ptrLevel \in Nat /\ ptrLevel >= Cardinality(PointersOnPath)

\* The pointers on the path are finitely many.
LEMMA PathFinite ==
  ASSUME StackTyped
  PROVE  IsFiniteSet(PointersOnPath) /\ Cardinality(PointersOnPath) \in Nat
<1>1. Len(stack) \in Nat
  BY DEF StackTyped
<1>2. IsFiniteSet(1..Len(stack)) /\ PointersOnPath \subseteq 1..Len(stack)
  BY <1>1, FS_Interval DEF PointersOnPath
<1>3. IsFiniteSet(PointersOnPath)
  BY <1>2, FS_Subset
<1>. QED
  BY <1>3, FS_CardinalityType

\* The level may stay as it is, or rise, when no pointer comes onto the path.
LEMMA LevelStays ==
  ASSUME StackTyped, StackTyped', LevelInv, ptrLevel' \in Nat, ptrLevel' >= ptrLevel,
         PointersOnPath' \subseteq PointersOnPath
  PROVE  LevelInv'
<1>1. /\ IsFiniteSet(PointersOnPath) /\ Cardinality(PointersOnPath) \in Nat
      /\ Cardinality(PointersOnPath') \in Nat
  BY PathFinite, FS_Subset, FS_CardinalityType
<1>2. Cardinality(PointersOnPath') <= Cardinality(PointersOnPath)
  BY <1>1, FS_Subset
<1>. QED
  BY <1>1, <1>2 DEF LevelInv

\* One pointer comes onto the path.
LEMMA LevelRises ==
  ASSUME StackTyped, StackTyped', LevelInv, ptrLevel' = ptrLevel + 1, NEW i,
         PointersOnPath' \subseteq PointersOnPath \cup {i}
  PROVE  LevelInv'
<1>. DEFINE S == PointersOnPath \cup {i}
<1>1. IsFiniteSet(PointersOnPath) /\ Cardinality(PointersOnPath) \in Nat
  BY PathFinite
<1>2. /\ IsFiniteSet(S) /\ Cardinality(S) \in Nat
      /\ Cardinality(S) <= Cardinality(PointersOnPath) + 1
  <2>1. IsFiniteSet(S)
    BY <1>1, FS_AddElement
  <2>2. \/ Cardinality(S) = Cardinality(PointersOnPath)
        \/ Cardinality(S) = Cardinality(PointersOnPath) + 1
    BY <1>1, FS_AddElement
  <2>. QED
    BY <1>1, <2>1, <2>2
<1>. HIDE DEF S
<1>3. PointersOnPath' \subseteq S
  BY DEF S
<1>4. Cardinality(PointersOnPath') <= Cardinality(S) /\ Cardinality(PointersOnPath') \in Nat
  BY <1>2, <1>3, FS_Subset, FS_CardinalityType
<1>. QED
  BY <1>1, <1>2, <1>4 DEF LevelInv

\* A pointer leaves the path.
LEMMA LevelFalls ==
  ASSUME StackTyped, StackTyped', LevelInv, NEW i \in PointersOnPath,
         ptrLevel' \in {ptrLevel, ptrLevel - 1}, PointersOnPath' \subseteq PointersOnPath \ {i}
  PROVE  LevelInv'
<1>. DEFINE S == PointersOnPath \ {i}
<1>1. IsFiniteSet(PointersOnPath) /\ Cardinality(PointersOnPath) \in Nat
  BY PathFinite
<1>2. /\ IsFiniteSet(S) /\ Cardinality(S) \in Nat
      /\ Cardinality(S) = Cardinality(PointersOnPath) - 1
  BY <1>1, FS_RemoveElement, FS_CardinalityType
<1>. HIDE DEF S
<1>3. PointersOnPath' \subseteq S
  BY DEF S
<1>4. Cardinality(PointersOnPath') <= Cardinality(S) /\ Cardinality(PointersOnPath') \in Nat
  BY <1>2, <1>3, FS_Subset, FS_CardinalityType
<1>. QED
  BY <1>1, <1>2, <1>4 DEF LevelInv

\* The innermost encoder returns and is no longer on the path.
LEMMA PathPopped ==
  ASSUME StackTyped, Running, UNCHANGED graph, stack' = Below
  PROVE  PointersOnPath' \subseteq PointersOnPath \ {Len(stack)}
<1>1. \A i \in 1..(Len(stack) - 1) : i \in 1..Len(stack) /\ i # Len(stack)
  BY StackSteps
<1>2. Len(stack') = Len(stack) - 1 /\ \A i \in 1..(Len(stack) - 1) : stack'[i] = stack[i]
  BY StackSteps
<1>. QED
  BY <1>1, <1>2 DEF PointersOnPath

\* The innermost encoder goes on: nothing but its own index comes onto the path.
LEMMA PathReplaced ==
  ASSUME StackTyped, Running, UNCHANGED graph, NEW f \in Frame, stack' = Append(Below, f)
  PROVE  /\ PointersOnPath' \subseteq PointersOnPath \cup {Len(stack)}
         /\ Len(stack) \in PointersOnPath' => graph[f.node].kind \in {"pointer", "map"} /\ f.next > 0
<1>1. \A i \in 1..Len(stack) : i \in 1..(Len(stack) - 1) \/ i = Len(stack)
  BY StackSteps
<1>2. /\ Len(stack') = Len(stack) /\ stack'[Len(stack)] = f
      /\ \A i \in 1..(Len(stack) - 1) : stack'[i] = stack[i]
  BY StackSteps
<1>3. PointersOnPath' \subseteq PointersOnPath \cup {Len(stack)}
  BY <1>1, <1>2 DEF PointersOnPath
<1>4. Len(stack) \in PointersOnPath' => graph[f.node].kind \in {"pointer", "map"} /\ f.next > 0
  BY <1>2 DEF PointersOnPath
<1>. QED
  BY <1>3, <1>4

\* A value that has been entered goes on, and calls another encoder.
LEMMA PathUnderCall ==
  ASSUME StackTyped, Running, UNCHANGED graph, NEW f \in Frame, f.node = Top.node, Entered,
         stack' = Append(Below, f) \/ \E g \in Frame : g.next = 0 /\ stack' = Below \o <<f, g>>
  PROVE  PointersOnPath' \subseteq PointersOnPath
<1>1. Len(stack) \in Nat /\ Len(stack) >= 1
  BY StackSteps
<1>2. Top = stack[Len(stack)] /\ Len(stack) \in 1..Len(stack)
  BY <1>1 DEF Top
<1>3. CASE stack' = Append(Below, f)
  <2>1. graph[f.node].kind \in {"pointer", "map"} => Len(stack) \in PointersOnPath
    BY <1>2 DEF PointersOnPath, Entered
  <2>. QED
    BY <1>3, <2>1, PathReplaced
<1>4. ASSUME NEW g \in Frame, g.next = 0, stack' = Below \o <<f, g>>
      PROVE  PointersOnPath' \subseteq PointersOnPath
  <2>1. /\ Len(stack') = Len(stack) + 1
        /\ stack'[Len(stack)] = f /\ stack'[Len(stack) + 1] = g
        /\ \A i \in 1..(Len(stack) - 1) : stack'[i] = stack[i]
    BY <1>4, StackSteps
  <2>2. SUFFICES ASSUME NEW i \in PointersOnPath' PROVE i \in PointersOnPath
    OBVIOUS
  <2>3. /\ i \in 1..(Len(stack) + 1)
        /\ graph[stack'[i].node].kind \in {"pointer", "map"} /\ stack'[i].next > 0
    BY <2>1, <2>2 DEF PointersOnPath
  <2>4. i # Len(stack) + 1
    BY <1>4, <2>1, <2>3
  <2>5. CASE i = Len(stack)
    BY <1>2, <2>1, <2>3, <2>5 DEF PointersOnPath, Entered
  <2>6. CASE i \in 1..(Len(stack) - 1)
    BY <1>1, <2>1, <2>3, <2>6 DEF PointersOnPath
  <2>. QED
    BY <1>1, <2>3, <2>4, <2>5, <2>6
<1>. QED
  BY <1>3, <1>4

\* The level stays above the path: it rises whenever a pointer or map is entered, and
\* falls only when one is left.
LEMMA LevelInvStep ==
  ASSUME StackTyped, StackTyped', LevelInv, [Next]_vars
  PROVE  LevelInv'
<1>1. ASSUME stack' \in {<<>>} \cup {<<Call(n)>> : n \in Nodes}, ptrLevel' \in Nat
      PROVE  LevelInv'
  <2>1. \A i \in 1..Len(stack') : stack'[i].next = 0
    BY <1>1 DEF Call
  <2>2. PointersOnPath' = {}
    BY <2>1 DEF PointersOnPath
  <2>3. Cardinality({}) = 0
    BY FS_EmptySet
  <2>. QED
    BY <1>1, <2>2, <2>3 DEF LevelInv
<1>2. ASSUME PointersOnPath' \subseteq PointersOnPath, UNCHANGED ptrLevel
      PROVE  LevelInv'
  BY <1>2, LevelStays DEF LevelInv
<1>3. ASSUME Running, Return, UNCHANGED <<graph, ptrLevel>>
      PROVE  LevelInv'
  BY <1>2, <1>3, PathPopped DEF Return
<1>4. ASSUME Running, Entered, Elem \in Elements, UNCHANGED <<graph, ptrLevel>>,
             NEW f \in Frame, f.node = Top.node,
             stack' = Append(Below, f) \/ stack' = Below \o <<f, Call(Elem.to)>>
      PROVE  LevelInv'
  <2>1. Call(Elem.to) \in Frame /\ Call(Elem.to).next = 0
    BY <1>4 DEF Call, Frame, Elements
  <2>2. PointersOnPath' \subseteq PointersOnPath
    BY <1>4, <2>1, PathUnderCall
  <2>. QED
    BY <1>2, <1>4, <2>2
<1>5. ASSUME Running PROVE Advance \in Frame /\ Advance.node = Top.node
  <2>1. Top \in Frame /\ Advance \in Frame
    BY <1>5, StackSteps, FramesTyped
  <2>. QED
    BY <2>1 DEF Advance, Frame
<1>6. ASSUME Running, Entered, EncodeField, UNCHANGED <<graph, ptrLevel>>, Elem \in Elements
      PROVE  LevelInv'
  <2>. DEFINE f == [Advance EXCEPT !.oldFlow = flowStyle]
  <2>1. f \in Frame /\ f.node = Top.node /\ stack' = Below \o <<f, Call(Elem.to)>>
    BY <1>5, <1>6, FramesTyped DEF StackTyped, EncodeField, Frame
  <2>. HIDE DEF f
  <2>. QED
    BY <1>4, <1>6, <2>1
<1>7. ASSUME Panic, UNCHANGED ptrLevel PROVE LevelInv'
  BY <1>1, <1>7 DEF Panic, LevelInv
<1>8. ASSUME NEW K, AtElem(K) PROVE Running /\ Entered /\ Elem \in Elements
  BY <1>8, ValueTyped DEF AtElem
<1>9. ASSUME NEW n \in Nodes, NEW flow \in BOOLEAN, Marshal(n, flow)
      PROVE  LevelInv'
  BY <1>1, <1>9 DEF Marshal
<1>10. CASE WriteLeaf
  BY <1>3, <1>10 DEF WriteLeaf, Entering
<1>11. CASE OpenInterface
  <2>1. Running /\ Val.elems[1].to \in Nodes
    BY <1>11, ValueTyped DEF OpenInterface, Entering
  <2>2. Call(Val.elems[1].to) \in Frame /\ Call(Val.elems[1].to).next = 0
    BY <2>1 DEF Call, Frame
  <2>3. stack' = Append(Below, Call(Val.elems[1].to)) /\ UNCHANGED <<graph, ptrLevel>>
    BY <1>11 DEF OpenInterface, state
  <2>4. PointersOnPath' \subseteq PointersOnPath
    BY <2>1, <2>2, <2>3, PathReplaced DEF Frame
  <2>. QED
    BY <1>2, <2>3, <2>4
<1>. DEFINE e == [Top EXCEPT !.next = 1, !.flow = flowStyle]
<1>12. ASSUME Running
       PROVE  e \in Frame /\ e.node = Top.node
  <2>1. Top \in Frame /\ flowStyle \in BOOLEAN
    BY <1>12, StackSteps DEF StackTyped
  <2>. QED
    BY <1>12, <2>1, FramesTyped DEF Frame
<1>13. CASE EnterCollection
  <2>1. /\ Running /\ Val.kind \notin {"pointer", "map"}
        /\ stack' = Append(Below, e) /\ UNCHANGED <<graph, ptrLevel>>
    BY <1>13 DEF EnterCollection, Entering, state
  <2>2. e \in Frame /\ graph[e.node].kind \notin {"pointer", "map"}
    BY <1>12, <2>1 DEF Val
  <2>. HIDE DEF e
  <2>3. PointersOnPath' \subseteq PointersOnPath
    BY <2>1, <2>2, PathReplaced
  <2>. QED
    BY <1>2, <2>1, <2>3
<1>14. CASE EnterPointer
  <2>. DEFINE k == Key(Top.node)
              f == [e EXCEPT !.key = k]
  <2>1. Running /\ Val.kind \in {"pointer", "map"} /\ Val.elems # <<>> /\ flowStyle \in BOOLEAN
    BY <1>14 DEF EnterPointer, Entering, StackTyped
  <2>2. k \in {"pointer", "map"} \X Nodes
    BY <2>1, ValueTyped DEF Key, Val
  <2>3. e \in Frame /\ f \in Frame
    BY <1>12, <2>1, <2>2, FramesTyped
  <2>4. /\ stack' = Append(Below, e) \/ Panic \/ stack' = Append(Below, f)
        /\ ptrLevel' = ptrLevel + 1 /\ UNCHANGED graph
    BY <1>14 DEF EnterPointer
  <2>. HIDE DEF e, k, f
  <2>5. CASE Panic
    BY <1>1, <2>4, <2>5 DEF Panic, LevelInv
  <2>6. CASE stack' = Append(Below, e) \/ stack' = Append(Below, f)
    <3>1. PointersOnPath' \subseteq PointersOnPath \cup {Len(stack)}
      BY <2>1, <2>3, <2>4, <2>6, PathReplaced
    <3>. QED
      BY <2>4, <3>1, LevelRises
  <2>. QED
    BY <2>4, <2>5, <2>6
<1>15. CASE PointerElem
  BY <1>4, <1>5, <1>8, <1>15 DEF PointerElem, state
<1>16. CASE SliceElem
  BY <1>4, <1>5, <1>8, <1>16 DEF SliceElem, state
<1>17. CASE FieldAlias
  BY <1>4, <1>5, <1>7, <1>8, <1>17 DEF FieldAlias
<1>18. CASE FieldAnchor
  BY <1>6, <1>7, <1>8, <1>18 DEF FieldAnchor
<1>19. CASE FieldPlain
  BY <1>6, <1>8, <1>19 DEF FieldPlain
<1>20. CASE LeaveCollection
  BY <1>3, <1>20 DEF LeaveCollection, AtEnd
<1>21. CASE LeavePointer
  <2>1. /\ Running /\ Entered /\ Val.kind \in {"pointer", "map"}
        /\ stack' = Below /\ ptrLevel' \in {ptrLevel, ptrLevel - 1} /\ UNCHANGED graph
    BY <1>21 DEF LeavePointer, AtEnd, Return
  <2>2. Len(stack) \in PointersOnPath
    BY <2>1, StackSteps DEF PointersOnPath, Entered, Val, Top
  <2>3. PointersOnPath' \subseteq PointersOnPath \ {Len(stack)}
    BY <2>1, PathPopped
  <2>. QED
    BY <2>1, <2>2, <2>3, LevelFalls
<1>22. CASE UNCHANGED vars
  BY <1>22 DEF vars, LevelInv, PointersOnPath
<1>23. CASE RefuseValue \/ RefuseKey
  BY <1>7, <1>23 DEF RefuseValue, RefuseKey, Refused
<1>. QED
  BY <1>9, <1>10, <1>11, <1>13, <1>14, <1>15, <1>16, <1>17, <1>18, <1>19, <1>20, <1>21, <1>22, <1>23
     DEF Next

\* No pointer is on the path before the first Marshal.
LEMMA InitLevel == Init => LevelInv
<1>1. ASSUME Init PROVE PointersOnPath = {} /\ ptrLevel = 0
  BY <1>1 DEF Init, PointersOnPath
<1>. QED
  BY <1>1, FS_EmptySet DEF LevelInv

\* ptrLevel is at least the number of pointers and maps on the path, so it is never
\* below zero: the unsigned counter does not wrap around.
THEOREM LevelCovers == Spec => []LevelCoversPath
<1>1. Init => LevelInv
  BY InitLevel
<1>2. StackTyped /\ StackTyped' /\ LevelInv /\ [Next]_vars => LevelInv'
  BY LevelInvStep
<1>3. LevelInv => LevelCoversPath
  BY DEF LevelInv, LevelCoversPath
<1>. QED
  BY <1>1, <1>2, <1>3, AlwaysStackTyped, PTL DEF Spec

-----------------------------------------------------------------------------
\* The types of the anchors and of what is written
AnchorsTyped ==
  /\ \A a \in DOMAIN anchors : a \in Addresses /\ anchors[a] \in Names \cup {NoName}
  /\ \A n \in DOMAIN anchorNames : n \in Names \cup {NoName} /\ anchorNames[n] \in Addresses
  /\ out \in Seq(Written)

\* The address of a value, and the name storeAnchor may give it
LEMMA AnchorTyped ==
  ASSUME StackTyped, NEW n \in Nodes, NEW name \in Names
  PROVE  /\ Ref(n) \in Addresses \cup {0}
         /\ AnchorName(Ref(n), name) \in Names \cup {NoName}
<1>1. graph[n] \in Value
  BY DEF StackTyped
<1>2. Ref(n) \in Addresses \cup {0}
  <2>1. graph[n].elems \in Seq(Elements) /\ graph[n].addr \in Addresses \cup {0}
    BY <1>1 DEF Value
  <2>2. ASSUME graph[n].elems # <<>>
        PROVE  graph[graph[n].elems[1].to].addr \in Addresses \cup {0}
    <3>1. Len(graph[n].elems) \in Nat /\ Len(graph[n].elems) >= 1
      BY <2>1, <2>2
    <3>2. graph[n].elems[1] \in Elements
      BY <2>1, <3>1
    <3>3. graph[graph[n].elems[1].to] \in Value
      BY <3>2 DEF Elements, StackTyped
    <3>. QED
      BY <3>3 DEF Value
  <2>. QED
    BY <2>1, <2>2 DEF Ref
<1>3. UniqueName(name) \in Names \cup {NoName}
  <2>. DEFINE free == {i \in 1..Len(Suffixes[name]) : Suffixes[name][i] \notin DOMAIN anchorNames}
  <2>1. CASE free = {}
    BY <2>1 DEF UniqueName
  <2>2. CASE free # {}
    <3>1. Suffixes[name] \in Seq(Names)
      BY NamesAssumption
    <3>2. \A i \in free : Suffixes[name][i] \in Names
      BY <3>1
    <3>3. free \subseteq Nat
      BY <3>1
    <3>4. \E m \in free : \A i \in free : m <= i
      BY <2>2, <3>3, LeastNatural
    <3>5. (CHOOSE i \in free : \A j \in free : i <= j) \in free
      BY <3>4
    <3>6. UniqueName(name) = Suffixes[name][CHOOSE i \in free : \A j \in free : i <= j]
      BY <2>2 DEF UniqueName
    <3>. QED
      BY <3>2, <3>5, <3>6
  <2>. QED
    BY <2>1, <2>2
<1>. QED
  BY <1>2, <1>3 DEF AnchorName

\* The anchors and what is written stay of their types.
LEMMA AnchorsTypedStep ==
  ASSUME StackTyped, AnchorsInv, AnchorsTyped, [Next]_vars
  PROVE  AnchorsTyped'
<1>1. ASSUME UNCHANGED <<anchors, anchorNames>>, out' \in Seq(Written)
      PROVE  AnchorsTyped'
  BY <1>1 DEF AnchorsTyped
<1>2. out \in Seq(Written)
  BY DEF AnchorsTyped
<1>3. ASSUME NEW n \in Nodes, NEW flow \in BOOLEAN, Marshal(n, flow)
      PROVE  AnchorsTyped'
  <2>1. anchors' = Empty /\ anchorNames' = Empty /\ DOMAIN Empty = {} /\ out' = <<>>
    BY <1>3 DEF Marshal, Empty
  <2>2. <<>> \in Seq(Written)
    OBVIOUS
  <2>. QED
    BY <2>1, <2>2 DEF AnchorsTyped
<1>4. ASSUME NEW K, AtElem(K) PROVE Running /\ Elem \in Elements
  BY <1>4, ValueTyped DEF AtElem
<1>5. ASSUME Running, Elem \in Elements, Anchored(Elem.to), out' = Append(out, Alias(Elem.to)),
             UNCHANGED <<anchors, anchorNames>>
      PROVE  AnchorsTyped'
  <2>. DEFINE a == Ref(Elem.to)
  <2>1. a \in DOMAIN anchors
    BY <1>5 DEF Anchored
  <2>2. a \in Addresses /\ anchors[a] \in Names
    BY <1>5, <2>1 DEF AnchorsTyped, AnchorsInv, AnchorsInverse, Running
  <2>. HIDE DEF a
  <2>3. Alias(Elem.to) \in Written
    BY <2>2 DEF Alias, Written, a
  <2>4. out' \in Seq(Written)
    BY <1>2, <1>5, <2>3
  <2>. QED
    BY <1>1, <1>5, <2>4
<1>6. CASE FieldAnchor
  <2>. DEFINE addr == Ref(Elem.to)
              name == AnchorName(addr, Elem.anchor)
  <2>1. Running /\ Elem \in Elements
    BY <1>4, <1>6 DEF FieldAnchor
  <2>2. Elem.to \in Nodes /\ Elem.anchor \in Names
    BY <1>6, <2>1 DEF FieldAnchor, Elements
  <2>3. addr \in Addresses \cup {0} /\ name \in Names \cup {NoName}
    BY <2>2, AnchorTyped
  <2>4. /\ IF addr = 0 THEN UNCHANGED <<anchors, anchorNames>>
           ELSE anchors' = Store(anchors, addr, name) /\ anchorNames' = Store(anchorNames, name, addr)
        /\ \/ out' = out
           \/ name # NoName /\ out' = Append(out, Anchor(Elem.to, name))
    BY <1>6 DEF FieldAnchor
  <2>5. name # NoName => addr # 0
    BY DEF AnchorName
  <2>6. Anchor(Elem.to, name) = [is |-> "anchor", name |-> name, addr |-> addr]
    BY DEF Anchor
  <2>. HIDE DEF addr, name
  <2>7. name # NoName => Anchor(Elem.to, name) \in Written
    BY <2>3, <2>5, <2>6 DEF Written
  <2>8. out' \in Seq(Written)
    BY <1>2, <2>4, <2>7
  <2>9. CASE addr = 0
    BY <1>1, <2>4, <2>8, <2>9
  <2>10. CASE addr # 0
    <3>1. addr \in Addresses
      BY <2>3, <2>10
    <3>2. \A x \in DOMAIN anchors' : x \in Addresses /\ anchors'[x] \in Names \cup {NoName}
      BY <2>3, <2>4, <2>10, <3>1 DEF Store, AnchorsTyped
    <3>3. \A x \in DOMAIN anchorNames' : x \in Names \cup {NoName} /\ anchorNames'[x] \in Addresses
      BY <2>3, <2>4, <2>10, <3>1 DEF Store, AnchorsTyped
    <3>. QED
      BY <2>8, <3>2, <3>3 DEF AnchorsTyped
  <2>. QED
    BY <2>9, <2>10
<1>7. CASE SliceElem
  BY <1>1, <1>2, <1>4, <1>5, <1>7 DEF SliceElem, state
<1>8. CASE FieldAlias
  BY <1>1, <1>2, <1>4, <1>5, <1>8 DEF FieldAlias
<1>9. CASE WriteLeaf \/ OpenInterface \/ EnterCollection \/ EnterPointer
  BY <1>1, <1>2, <1>9 DEF WriteLeaf, OpenInterface, EnterCollection, EnterPointer, state
<1>10. CASE PointerElem \/ FieldPlain \/ LeaveCollection \/ LeavePointer
  BY <1>1, <1>2, <1>10 DEF PointerElem, FieldPlain, LeaveCollection, LeavePointer, state
<1>11. CASE UNCHANGED vars
  BY <1>1, <1>2, <1>11 DEF vars
<1>12. CASE RefuseValue \/ RefuseKey
  BY <1>1, <1>2, <1>12 DEF RefuseValue, RefuseKey, Refused
<1>. QED
  BY <1>3, <1>6, <1>7, <1>8, <1>9, <1>10, <1>11, <1>12
     DEF Next

\* Every variable keeps its type: what is written are anchors and aliases with a name
\* and an address, and the level is a natural number.
THEOREM TypesCorrect == Spec => []TypeOK
<1>1. Init => SeenInv /\ AnchorsInv /\ AnchorsTyped
  BY DEF Init, SeenInv, AnchorsInv, AnchorsInverse, AnchorsTyped, Empty
<1>2. Init => LevelInv
  BY InitLevel
<1>3. StackTyped /\ StackTyped' /\ SeenInv /\ AnchorsInv /\ AnchorsTyped /\ LevelInv /\ [Next]_vars
      => SeenInv' /\ AnchorsInv' /\ AnchorsTyped' /\ LevelInv'
  BY SeenInvStep, AnchorsInvStep, AnchorsTypedStep, LevelInvStep
<1>4. ASSUME StackTyped, SeenInv, AnchorsTyped, LevelInv PROVE TypeOK
  <2>1. ASSUME NEW k \in ptrSeen PROVE k \in {"pointer", "map"} \X Nodes
    <3>1. PICK i \in 1..Len(stack) : stack[i].key = k
      BY <1>4 DEF SeenInv
    <3>2. stack[i] \in Frame /\ k # NoKey
      BY <1>4, <3>1 DEF StackTyped, SeenInv
    <3>. QED
      BY <3>1, <3>2 DEF Frame
  <2>. QED
    BY <1>4, <2>1 DEF StackTyped, AnchorsTyped, LevelInv, TypeOK
<1>. QED
  BY <1>1, <1>2, <1>3, <1>4, AlwaysStackTyped, PTL DEF Spec

-----------------------------------------------------------------------------
\* The invariant behind AliasesResolve: while marshal runs, the values that have an
\* anchor are those whose anchor is written.
OutInv ==
  /\ AliasesResolve
  /\ \A i \in 1..Len(out) : out[i].is = "anchor" =>
       out[i].addr \in DOMAIN anchors /\ anchors[out[i].addr] = out[i].name
  /\ result = "encoding" => \A a \in DOMAIN anchors :
       \E j \in 1..Len(out) : out[j] = [is |-> "anchor", name |-> anchors[a], addr |-> a]

\* An alias is written for a value that has an anchor.
LEMMA AliasWritten ==
  ASSUME AnchorsTyped, OutInv, result = "encoding", NEW a \in DOMAIN anchors,
         out' = Append(out, [is |-> "alias", name |-> anchors[a], addr |-> a]),
         UNCHANGED <<anchors, result>>, anchors[a] \in Names
  PROVE  OutInv'
<1>. DEFINE w == [is |-> "alias", name |-> anchors[a], addr |-> a]
<1>1. w \in Written /\ out \in Seq(Written) /\ Len(out) \in Nat
  BY DEF AnchorsTyped, Written
<1>2. w.is = "alias" /\ [w EXCEPT !.is = "anchor"] = [is |-> "anchor", name |-> anchors[a], addr |-> a]
  OBVIOUS
<1>. HIDE DEF w
<1>3. /\ Len(out') = Len(out) + 1 /\ out'[Len(out) + 1] = w
      /\ \A i \in 1..Len(out) : out'[i] = out[i]
  BY <1>1, AppendProperties DEF w
<1>4. \A i \in 1..(Len(out) + 1) : i \in 1..Len(out) \/ i = Len(out) + 1
  BY <1>1
<1>5. \A i \in 1..Len(out) : i \in 1..(Len(out) + 1)
  BY <1>1
<1>6. PICK j \in 1..Len(out) : out[j] = [w EXCEPT !.is = "anchor"]
  BY <1>2 DEF OutInv
<1>7. ASSUME NEW i \in 1..Len(out'), out'[i].is = "alias"
      PROVE  \E k \in 1..(i - 1) : out'[k] = [out'[i] EXCEPT !.is = "anchor"]
  <2>1. CASE i = Len(out) + 1
    <3>1. j \in 1..(i - 1) /\ out'[j] = [out'[i] EXCEPT !.is = "anchor"]
      BY <1>1, <1>3, <1>6, <2>1
    <3>. QED
      BY <3>1
  <2>2. CASE i \in 1..Len(out)
    <3>1. PICK k \in 1..(i - 1) : out[k] = [out[i] EXCEPT !.is = "anchor"]
      BY <1>3, <1>7, <2>2 DEF OutInv, AliasesResolve
    <3>2. k \in 1..Len(out)
      BY <1>1, <2>2, <3>1
    <3>3. out'[k] = [out'[i] EXCEPT !.is = "anchor"]
      BY <1>3, <2>2, <3>1, <3>2
    <3>. QED
      BY <3>3
  <2>. QED
    BY <1>3, <1>4, <2>1, <2>2
<1>8. ASSUME NEW i \in 1..Len(out'), out'[i].is = "anchor"
      PROVE  i \in 1..Len(out) /\ out'[i] = out[i]
  BY <1>2, <1>3, <1>4, <1>8
<1>9. AliasesResolve'
  <2>1. ASSUME NEW i \in 1..Len(out'), NEW k \in 1..Len(out'),
               out'[i].is = "anchor", out'[k].is = "anchor", out'[i].name = out'[k].name
        PROVE  i = k
    BY <1>8, <2>1 DEF OutInv, AliasesResolve
  <2>. QED
    BY <1>7, <2>1 DEF AliasesResolve
<1>10. ASSUME NEW i \in 1..Len(out'), out'[i].is = "anchor"
       PROVE  out'[i].addr \in DOMAIN anchors' /\ anchors'[out'[i].addr] = out'[i].name
  BY <1>8, <1>10 DEF OutInv
<1>11. ASSUME NEW b \in DOMAIN anchors'
       PROVE  \E k \in 1..Len(out') : out'[k] = [is |-> "anchor", name |-> anchors'[b], addr |-> b]
  <2>1. PICK k \in 1..Len(out) : out[k] = [is |-> "anchor", name |-> anchors[b], addr |-> b]
    BY <1>11 DEF OutInv
  <2>2. k \in 1..Len(out') /\ out'[k] = out[k]
    BY <1>3, <1>5, <2>1
  <2>. QED
    BY <2>1, <2>2
<1>. QED
  BY <1>9, <1>10, <1>11 DEF OutInv

\* An anchor is written for a value that had none, with a name that no value had.
LEMMA AnchorWritten ==
  ASSUME AnchorsTyped, AnchorsInv, OutInv, result = "encoding",
         NEW a \in Addresses, a \notin DOMAIN anchors,
         NEW n \in Names, n \notin DOMAIN anchorNames,
         out' = Append(out, [is |-> "anchor", name |-> n, addr |-> a]),
         anchors' = Store(anchors, a, n), UNCHANGED result
  PROVE  OutInv'
<1>. DEFINE w == [is |-> "anchor", name |-> n, addr |-> a]
<1>1. w \in Written /\ out \in Seq(Written) /\ Len(out) \in Nat
  BY DEF AnchorsTyped, Written
<1>2. w.is = "anchor" /\ w.name = n /\ w.addr = a
  OBVIOUS
<1>. HIDE DEF w
<1>3. /\ Len(out') = Len(out) + 1 /\ out'[Len(out) + 1] = w
      /\ \A i \in 1..Len(out) : out'[i] = out[i]
  BY <1>1, AppendProperties DEF w
<1>4. \A i \in 1..(Len(out) + 1) : i \in 1..Len(out) \/ i = Len(out) + 1
  BY <1>1
<1>5. \A i \in 1..Len(out) : i \in 1..(Len(out) + 1)
  BY <1>1
<1>6. /\ DOMAIN anchors' = DOMAIN anchors \cup {a} /\ anchors'[a] = n
      /\ \A b \in DOMAIN anchors : anchors'[b] = anchors[b]
  BY DEF Store
<1>7. ASSUME NEW i \in 1..Len(out), out[i].is = "anchor"
      PROVE  out[i].addr \in DOMAIN anchors /\ anchors[out[i].addr] = out[i].name /\ out[i].name # n
  BY <1>7 DEF OutInv, AnchorsInv, AnchorsInverse
<1>8. ASSUME NEW i \in 1..Len(out'), out'[i].is = "alias"
      PROVE  \E k \in 1..(i - 1) : out'[k] = [out'[i] EXCEPT !.is = "anchor"]
  <2>1. i \in 1..Len(out)
    BY <1>2, <1>3, <1>4, <1>8
  <2>2. PICK k \in 1..(i - 1) : out[k] = [out[i] EXCEPT !.is = "anchor"]
    BY <1>3, <1>8, <2>1 DEF OutInv, AliasesResolve
  <2>3. k \in 1..Len(out)
    BY <1>1, <2>1, <2>2
  <2>4. out'[k] = [out'[i] EXCEPT !.is = "anchor"]
    BY <1>3, <2>1, <2>2, <2>3
  <2>. QED
    BY <2>4
<1>9. ASSUME NEW i \in 1..Len(out'), NEW k \in 1..Len(out'),
             out'[i].is = "anchor", out'[k].is = "anchor", out'[i].name = out'[k].name
      PROVE  i = k
  <2>1. CASE i \in 1..Len(out) /\ k \in 1..Len(out)
    BY <1>3, <1>9, <2>1 DEF OutInv, AliasesResolve
  <2>2. CASE i = Len(out) + 1 /\ k \in 1..Len(out)
    BY <1>2, <1>3, <1>7, <1>9, <2>2
  <2>3. CASE k = Len(out) + 1 /\ i \in 1..Len(out)
    BY <1>2, <1>3, <1>7, <1>9, <2>3
  <2>. QED
    BY <1>3, <1>4, <2>1, <2>2, <2>3
<1>10. ASSUME NEW i \in 1..Len(out'), out'[i].is = "anchor"
       PROVE  out'[i].addr \in DOMAIN anchors' /\ anchors'[out'[i].addr] = out'[i].name
  <2>1. CASE i = Len(out) + 1
    BY <1>2, <1>3, <1>6, <2>1
  <2>2. CASE i \in 1..Len(out)
    BY <1>3, <1>6, <1>7, <1>10, <2>2
  <2>. QED
    BY <1>3, <1>4, <2>1, <2>2
<1>11. ASSUME NEW b \in DOMAIN anchors'
       PROVE  \E k \in 1..Len(out') : out'[k] = [is |-> "anchor", name |-> anchors'[b], addr |-> b]
  <2>1. CASE b = a
    <3>1. Len(out) + 1 \in 1..Len(out') /\ out'[Len(out) + 1] = w
      BY <1>1, <1>3
    <3>2. w = [is |-> "anchor", name |-> anchors'[b], addr |-> b]
      BY <1>6, <2>1 DEF w
    <3>. QED
      BY <3>1, <3>2
  <2>2. CASE b \in DOMAIN anchors
    <3>1. PICK k \in 1..Len(out) : out[k] = [is |-> "anchor", name |-> anchors[b], addr |-> b]
      BY <2>2 DEF OutInv
    <3>2. k \in 1..Len(out') /\ out'[k] = out[k]
      BY <1>3, <1>5, <3>1
    <3>. QED
      BY <1>6, <2>2, <3>1, <3>2
  <2>. QED
    BY <1>6, <1>11, <2>1, <2>2
<1>12. AliasesResolve'
  BY <1>8, <1>9 DEF AliasesResolve
<1>. QED
  BY <1>10, <1>11, <1>12 DEF OutInv

\* Every step keeps what is written and the anchors in agreement.
LEMMA OutInvStep ==
  ASSUME StackTyped, AnchorsInv, AnchorsTyped, OutInv, [Next]_vars
  PROVE  OutInv'
<1>1. ASSUME UNCHANGED <<out, anchors>>, Running \/ UNCHANGED result
      PROVE  OutInv'
  BY <1>1 DEF OutInv, AliasesResolve, Running
<1>2. ASSUME NEW n \in Nodes, NEW flow \in BOOLEAN, Marshal(n, flow)
      PROVE  OutInv'
  <2>1. out' = <<>> /\ anchors' = Empty /\ DOMAIN Empty = {}
    BY <1>2 DEF Marshal, Empty
  <2>2. Len(out') = 0 /\ 1..Len(out') = {}
    BY <2>1
  <2>. QED
    BY <2>1, <2>2 DEF OutInv, AliasesResolve
<1>3. ASSUME NEW K, AtElem(K) PROVE Running /\ result = "encoding" /\ Elem \in Elements
  BY <1>3, ValueTyped DEF AtElem, Running
<1>4. ASSUME Running, Anchored(Elem.to), out' = Append(out, Alias(Elem.to)),
             UNCHANGED <<anchors, result>>
      PROVE  OutInv'
  <2>. DEFINE a == Ref(Elem.to)
  <2>1. a \in DOMAIN anchors /\ result = "encoding"
    BY <1>4 DEF Anchored, Running
  <2>2. anchors[a] \in Names
    BY <2>1 DEF AnchorsTyped, AnchorsInv, AnchorsInverse
  <2>3. out' = Append(out, [is |-> "alias", name |-> anchors[a], addr |-> a])
    BY <1>4 DEF Alias
  <2>. HIDE DEF a
  <2>. QED
    BY <1>4, <2>1, <2>2, <2>3, AliasWritten
<1>5. CASE FieldAnchor
  <2>. DEFINE addr == Ref(Elem.to)
              name == AnchorName(addr, Elem.anchor)
  <2>1. Running /\ result = "encoding" /\ Elem \in Elements
    BY <1>3, <1>5 DEF FieldAnchor
  <2>2. Elem.to \in Nodes /\ Elem.anchor \in Names /\ addr \notin DOMAIN anchors
    BY <1>5, <2>1 DEF FieldAnchor, Anchored, Elements
  <2>3. addr \in Addresses \cup {0} /\ name \in Names \cup {NoName}
    BY <2>2, AnchorTyped
  <2>4. /\ IF addr = 0 THEN UNCHANGED <<anchors, anchorNames>>
           ELSE anchors' = Store(anchors, addr, name) /\ anchorNames' = Store(anchorNames, name, addr)
        /\ \/ name = NoName /\ out' = out /\ result' = "error"
           \/ name # NoName /\ result' = result /\ out' = Append(out, Anchor(Elem.to, name))
    BY <1>5 DEF FieldAnchor, Panic, EncodeField
  <2>5. name # NoName => addr # 0
    BY DEF AnchorName
  <2>6. addr # 0 => name = NoName \/ name \notin DOMAIN anchorNames
    BY <2>2, AnchorNameIsFree DEF AnchorsInv
  <2>7. Anchor(Elem.to, name) = [is |-> "anchor", name |-> name, addr |-> addr]
    BY DEF Anchor
  <2>. HIDE DEF addr, name
  <2>8. CASE name # NoName
    <3>1. addr \in Addresses /\ name \in Names /\ name \notin DOMAIN anchorNames
      BY <2>3, <2>5, <2>6, <2>8
    <3>2. /\ anchors' = Store(anchors, addr, name) /\ result' = result
          /\ out' = Append(out, [is |-> "anchor", name |-> name, addr |-> addr])
      BY <2>4, <2>5, <2>7, <2>8
    <3>. QED
      BY <2>1, <2>2, <3>1, <3>2, AnchorWritten
  <2>9. CASE name = NoName /\ addr = 0
    BY <1>1, <2>1, <2>4, <2>9
  <2>10. CASE name = NoName /\ addr # 0
    <3>1. out' = out /\ result' = "error" /\ anchors' = Store(anchors, addr, name)
      BY <2>4, <2>10
    <3>2. \A b \in DOMAIN anchors : b \in DOMAIN anchors' /\ anchors'[b] = anchors[b]
      BY <2>2, <3>1 DEF Store
    <3>3. AliasesResolve'
      BY <3>1 DEF OutInv, AliasesResolve
    <3>. QED
      BY <3>1, <3>2, <3>3 DEF OutInv
  <2>. QED
    BY <2>8, <2>9, <2>10
<1>6. CASE SliceElem
  BY <1>1, <1>3, <1>4, <1>6 DEF SliceElem, state
<1>7. CASE FieldAlias
  BY <1>1, <1>3, <1>4, <1>7 DEF FieldAlias
<1>8. CASE WriteLeaf \/ OpenInterface \/ EnterCollection \/ EnterPointer
  BY <1>1, <1>8 DEF WriteLeaf, OpenInterface, EnterCollection, EnterPointer, Entering, state
<1>9. CASE PointerElem \/ FieldPlain
  BY <1>1, <1>3, <1>9 DEF PointerElem, FieldPlain, state
<1>10. CASE LeaveCollection \/ LeavePointer
  BY <1>1, <1>10 DEF LeaveCollection, LeavePointer, AtEnd
<1>11. CASE UNCHANGED vars
  BY <1>1, <1>11 DEF vars
<1>12. CASE RefuseValue \/ RefuseKey
  <2>1. out' = out /\ anchors' = anchors /\ result' = "error"
    BY <1>12 DEF RefuseValue, RefuseKey, Refused, Panic
  <2>2. AliasesResolve'
    BY <2>1 DEF OutInv, AliasesResolve
  <2>. QED
    BY <2>1, <2>2 DEF OutInv
<1>. QED
  BY <1>2, <1>5, <1>6, <1>7, <1>8, <1>9, <1>10, <1>11, <1>12
     DEF Next

\* Every alias Marshal writes follows the anchor of its name, on the same value, and no
\* name is given to two anchors of a document.
THEOREM AliasesAlwaysResolve == Spec => []AliasesResolve
<1>1. Init => AnchorsInv /\ AnchorsTyped /\ OutInv
  BY DEF Init, AnchorsInv, AnchorsInverse, AnchorsTyped, OutInv, AliasesResolve, Empty
<1>2. StackTyped /\ StackTyped' /\ AnchorsInv /\ AnchorsTyped /\ OutInv /\ [Next]_vars
      => AnchorsInv' /\ AnchorsTyped' /\ OutInv'
  BY AnchorsInvStep, AnchorsTypedStep, OutInvStep
<1>3. OutInv => AliasesResolve
  BY DEF OutInv
<1>. QED
  BY <1>1, <1>2, <1>3, AlwaysStackTyped, PTL DEF Spec

-----------------------------------------------------------------------------
\* The invariant behind BracketsMatch: the style is the one the innermost encoder was
\* entered with, or that of its caller if it has not been entered; and a caller that
\* does not set the style itself has the style of the encoder it has called.
StyleInv ==
  /\ stack # <<>> /\ Entered => flowStyle = Top.flow
  /\ \A i \in 1..(Len(stack) - 1) : stack[i].next > 0
  /\ \A i \in 1..(Len(stack) - 1) :
       IF graph[stack[i].node].kind = "struct" THEN stack[i].oldFlow = stack[i].flow
       ELSE IF stack[i + 1].next > 0 THEN stack[i + 1].flow = stack[i].flow
       ELSE flowStyle = stack[i].flow

\* An encoder returns with the style it was entered with, or, not entered, with the
\* style of its caller.
LEMMA StyleReturned ==
  ASSUME StackTyped, StackTyped', Running, StyleInv, Return, UNCHANGED graph
  PROVE  StyleInv'
<1>1. Len(stack) \in Nat /\ Len(stack) >= 1 /\ Len(Below) = Len(stack) - 1
  BY StackSteps
<1>2. stack' = Below /\ \A i \in 1..(Len(stack) - 1) : stack'[i] = stack[i]
  BY StackSteps DEF Return
<1>3. CASE Below = <<>>
  BY <1>1, <1>2, <1>3 DEF StyleInv
<1>4. CASE Below # <<>>
  <2>. DEFINE n == Len(stack) - 1
  <2>1. n \in Nat /\ n >= 1 /\ Len(stack') = n /\ n + 1 = Len(stack)
    BY <1>1, <1>2, <1>4 DEF StackTyped
  <2>2. Caller = stack[n] /\ Top = stack[n + 1] /\ Top' = stack[n]
    BY <1>1, <1>2, <2>1 DEF Caller, Top
  <2>. HIDE DEF n
  <2>3. n \in 1..(Len(stack) - 1) /\ \A i \in 1..(Len(stack') - 1) : i \in 1..(Len(stack) - 1) /\ i + 1 \in 1..(Len(stack) - 1)
    BY <2>1
  <2>4. flowStyle' = stack[n].flow
    <3>1. CASE graph[stack[n].node].kind = "struct"
      BY <1>4, <2>2, <2>3, <3>1 DEF Return, StyleInv
    <3>2. CASE graph[stack[n].node].kind # "struct"
      <4>1. flowStyle' = flowStyle
        BY <2>2, <3>2 DEF Return
      <4>2. CASE stack[n + 1].next > 0
        <5>1. flowStyle = stack[n + 1].flow
          BY <2>2, <4>2 DEF StyleInv, Entered, Running
        <5>. QED
          BY <2>3, <3>2, <4>1, <4>2, <5>1 DEF StyleInv
      <4>3. CASE ~(stack[n + 1].next > 0)
        BY <2>3, <3>2, <4>1, <4>3 DEF StyleInv
      <4>. QED
        BY <4>2, <4>3
    <3>. QED
      BY <3>1, <3>2
  <2>5. ASSUME NEW i \in 1..(Len(stack') - 1)
        PROVE  /\ stack'[i].next > 0
               /\ IF graph'[stack'[i].node].kind = "struct" THEN stack'[i].oldFlow = stack'[i].flow
                  ELSE IF stack'[i + 1].next > 0 THEN stack'[i + 1].flow = stack'[i].flow
                  ELSE flowStyle' = stack'[i].flow
    <3>1. stack'[i] = stack[i] /\ stack'[i + 1] = stack[i + 1] /\ stack[i + 1].next > 0
      BY <1>2, <2>3 DEF StyleInv
    <3>. QED
      BY <2>3, <3>1 DEF StyleInv
  <2>. QED
    BY <2>2, <2>4, <2>5 DEF StyleInv
<1>. QED
  BY <1>3, <1>4

\* The style of the innermost encoder's caller, if that is no struct
LEMMA CallerStyle ==
  ASSUME StackTyped, Running, StyleInv, NEW i \in 1..(Len(stack) - 1), i = Len(stack) - 1,
         graph[stack[i].node].kind # "struct"
  PROVE  flowStyle = stack[i].flow
<1>1. Len(stack) = i + 1 /\ Top = stack[i + 1]
  BY StackSteps DEF Top
<1>2. CASE stack[i + 1].next > 0
  <2>1. flowStyle = Top.flow
    BY <1>1, <1>2 DEF StyleInv, Running, Entered
  <2>. QED
    BY <1>1, <1>2, <2>1 DEF StyleInv
<1>3. CASE ~(stack[i + 1].next > 0)
  BY <1>3 DEF StyleInv
<1>. QED
  BY <1>2, <1>3

\* The innermost encoder is entered, goes on, or gives way to another one.
LEMMA StyleKept ==
  ASSUME StackTyped, StackTyped', Running, StyleInv, NEW f \in Frame, stack' = Append(Below, f),
         f.next > 0 => f.flow = flowStyle, UNCHANGED <<graph, flowStyle>>
  PROVE  StyleInv'
<1>1. Len(stack) \in Nat /\ Len(stack) >= 1
  BY StackSteps
<1>2. /\ Len(stack') = Len(stack) /\ stack'[Len(stack)] = f
      /\ \A i \in 1..(Len(stack) - 1) : stack'[i] = stack[i]
  BY StackSteps
<1>3. Top' = f
  BY <1>2 DEF Top
<1>4. ASSUME NEW i \in 1..(Len(stack') - 1)
      PROVE  /\ stack'[i].next > 0
             /\ IF graph'[stack'[i].node].kind = "struct" THEN stack'[i].oldFlow = stack'[i].flow
                ELSE IF stack'[i + 1].next > 0 THEN stack'[i + 1].flow = stack'[i].flow
                ELSE flowStyle' = stack'[i].flow
  <2>1. i \in 1..(Len(stack) - 1) /\ stack'[i] = stack[i] /\ stack[i].next > 0
    BY <1>2 DEF StyleInv
  <2>2. CASE graph[stack[i].node].kind = "struct"
    BY <2>1, <2>2 DEF StyleInv
  <2>3. CASE graph[stack[i].node].kind # "struct" /\ i = Len(stack) - 1
    <3>1. flowStyle = stack[i].flow
      BY <2>1, <2>3, CallerStyle
    <3>2. stack'[i + 1] = f
      BY <1>1, <1>2, <2>3
    <3>. QED
      BY <2>1, <2>3, <3>1, <3>2
  <2>4. CASE graph[stack[i].node].kind # "struct" /\ i # Len(stack) - 1
    <3>1. i + 1 \in 1..(Len(stack) - 1)
      BY <1>1, <2>1, <2>4
    <3>. QED
      BY <1>2, <2>1, <2>4, <3>1 DEF StyleInv
  <2>. QED
    BY <2>2, <2>3, <2>4
<1>. QED
  BY <1>3, <1>4 DEF StyleInv, Entered

\* An encoder calls another one; a struct keeps the style it had in oldFlow.
LEMMA StyleCalled ==
  ASSUME StackTyped, StackTyped', Running, StyleInv, Entered, NEW f \in Frame, NEW g \in Frame,
         stack' = Below \o <<f, g>>, f.node = Top.node, f.flow = Top.flow, f.next > 0, g.next = 0,
         Val.kind = "struct" => f.oldFlow = flowStyle,
         Val.kind # "struct" => flowStyle' = flowStyle, UNCHANGED graph
  PROVE  StyleInv'
<1>1. Len(stack) \in Nat /\ Len(stack) >= 1
  BY StackSteps
<1>2. /\ Len(stack') = Len(stack) + 1
      /\ stack'[Len(stack)] = f /\ stack'[Len(stack) + 1] = g
      /\ \A i \in 1..(Len(stack) - 1) : stack'[i] = stack[i]
  BY StackSteps
<1>3. Top' = g /\ Top = stack[Len(stack)]
  BY <1>2 DEF Top
<1>4. flowStyle = Top.flow
  BY DEF StyleInv, Running
<1>5. ASSUME NEW i \in 1..(Len(stack') - 1)
      PROVE  /\ stack'[i].next > 0
             /\ IF graph'[stack'[i].node].kind = "struct" THEN stack'[i].oldFlow = stack'[i].flow
                ELSE IF stack'[i + 1].next > 0 THEN stack'[i + 1].flow = stack'[i].flow
                ELSE flowStyle' = stack'[i].flow
  <2>1. CASE i = Len(stack)
    <3>1. stack'[i] = f /\ stack'[i + 1] = g
      BY <1>2, <2>1
    <3>. QED
      BY <1>4, <3>1 DEF Val
  <2>2. CASE i = Len(stack) - 1 /\ i \in 1..(Len(stack) - 1)
    <3>1. stack'[i] = stack[i] /\ stack'[i + 1] = f /\ stack[i + 1] = Top
      BY <1>1, <1>2, <1>3, <2>2
    <3>. QED
      BY <2>2, <3>1 DEF StyleInv, Entered
  <2>3. CASE i + 1 \in 1..(Len(stack) - 1) /\ i \in 1..(Len(stack) - 1)
    <3>1. stack'[i] = stack[i] /\ stack'[i + 1] = stack[i + 1] /\ stack[i + 1].next > 0
      BY <1>2, <2>3 DEF StyleInv
    <3>. QED
      BY <2>3, <3>1 DEF StyleInv
  <2>. QED
    BY <1>1, <1>2, <2>1, <2>2, <2>3
<1>. QED
  BY <1>3, <1>5 DEF StyleInv, Entered

\* Every step keeps the styles on the stack in agreement.
LEMMA StyleInvStep ==
  ASSUME StackTyped, StackTyped', StyleInv, [Next]_vars
  PROVE  StyleInv'
<1>1. ASSUME NEW n \in Nodes, NEW flow \in BOOLEAN, Marshal(n, flow)
      PROVE  StyleInv'
  <2>1. Len(stack') = 1 /\ stack'[1] = Call(n) /\ Top' = Call(n) /\ Call(n).next = 0
    BY <1>1 DEF Marshal, Top, Call
  <2>2. 1..(Len(stack') - 1) = {}
    BY <2>1
  <2>. QED
    BY <2>1, <2>2 DEF StyleInv, Entered
<1>2. ASSUME Panic PROVE StyleInv'
  <2>1. stack' = <<>> /\ Len(stack') = 0 /\ 1..(Len(stack') - 1) = {}
    BY <1>2 DEF Panic
  <2>. QED
    BY <2>1 DEF StyleInv
<1>3. ASSUME NEW K, AtElem(K) PROVE Running /\ Entered /\ Elem \in Elements /\ flowStyle = Top.flow
  BY <1>3, ValueTyped DEF AtElem, StyleInv, Running
<1>4. ASSUME Running
      PROVE  /\ Advance \in Frame /\ Advance.node = Top.node /\ Advance.flow = Top.flow
             /\ Advance.next > 0
  <2>1. Top \in Frame /\ Advance \in Frame
    BY <1>4, StackSteps, FramesTyped
  <2>. QED
    BY <2>1 DEF Advance, Frame
<1>5. ASSUME NEW n \in Nodes PROVE Call(n) \in Frame /\ Call(n).next = 0
  BY DEF Call, Frame
<1>6. ASSUME Running, Entered, Elem \in Elements, Val.kind = "struct", EncodeField, UNCHANGED graph
      PROVE  StyleInv'
  <2>. DEFINE f == [Advance EXCEPT !.oldFlow = flowStyle]
  <2>1. /\ f \in Frame /\ f.node = Top.node /\ f.flow = Top.flow /\ f.next > 0
        /\ f.oldFlow = flowStyle
    BY <1>4, <1>6, FramesTyped DEF StackTyped, Frame
  <2>2. Call(Elem.to) \in Frame /\ Call(Elem.to).next = 0
    BY <1>5, <1>6 DEF Elements
  <2>3. stack' = Below \o <<f, Call(Elem.to)>>
    BY <1>6 DEF EncodeField
  <2>. HIDE DEF f
  <2>. QED
    BY <1>6, <2>1, <2>2, <2>3, StyleCalled
<1>7. ASSUME Running, Entered, Elem \in Elements, Val.kind # "struct",
             stack' = Below \o <<Advance, Call(Elem.to)>>, UNCHANGED <<graph, flowStyle>>
      PROVE  StyleInv'
  <2>1. Call(Elem.to) \in Frame /\ Call(Elem.to).next = 0
    BY <1>5, <1>7 DEF Elements
  <2>. QED
    BY <1>4, <1>7, <2>1, StyleCalled
<1>8. ASSUME Running, flowStyle = Top.flow, stack' = Append(Below, Advance), UNCHANGED <<graph, flowStyle>>
      PROVE  StyleInv'
  BY <1>4, <1>8, StyleKept
<1>9. CASE WriteLeaf
  BY <1>9, StyleReturned DEF WriteLeaf, Entering
<1>10. CASE OpenInterface
  <2>1. Running /\ Val.elems[1].to \in Nodes
    BY <1>10, ValueTyped DEF OpenInterface, Entering
  <2>2. stack' = Append(Below, Call(Val.elems[1].to)) /\ UNCHANGED <<graph, flowStyle>>
    BY <1>10 DEF OpenInterface, state
  <2>3. Call(Val.elems[1].to) \in Frame /\ Call(Val.elems[1].to).next = 0
    BY <1>5, <2>1
  <2>. QED
    BY <2>1, <2>2, <2>3, StyleKept
<1>. DEFINE e == [Top EXCEPT !.next = 1, !.flow = flowStyle]
<1>11. ASSUME Running
       PROVE  e \in Frame /\ e.flow = flowStyle
  <2>1. Top \in Frame /\ flowStyle \in BOOLEAN
    BY <1>11, StackSteps DEF StackTyped
  <2>. QED
    BY <1>11, <2>1, FramesTyped DEF Frame
<1>12. CASE EnterCollection
  <2>1. Running /\ stack' = Append(Below, e) /\ UNCHANGED <<graph, flowStyle>>
    BY <1>12 DEF EnterCollection, Entering, state
  <2>. HIDE DEF e
  <2>. QED
    BY <1>11, <2>1, StyleKept
<1>13. CASE EnterPointer
  <2>. DEFINE k == Key(Top.node)
              f == [e EXCEPT !.key = k]
  <2>1. Running /\ Val.kind \in {"pointer", "map"} /\ Val.elems # <<>> /\ flowStyle \in BOOLEAN
    BY <1>13 DEF EnterPointer, Entering, StackTyped
  <2>2. k \in {"pointer", "map"} \X Nodes
    BY <2>1, ValueTyped DEF Key, Val
  <2>3. e \in Frame /\ e.flow = flowStyle /\ f \in Frame
    BY <1>11, <2>1, <2>2, FramesTyped
  <2>4. f.flow = e.flow
    BY <2>3 DEF Frame
  <2>5. /\ stack' = Append(Below, e) \/ Panic \/ stack' = Append(Below, f)
        /\ UNCHANGED <<graph, flowStyle>>
    BY <1>13 DEF EnterPointer
  <2>. HIDE DEF e, k, f
  <2>6. CASE stack' = Append(Below, e)
    BY <2>1, <2>3, <2>5, <2>6, StyleKept
  <2>7. CASE stack' = Append(Below, f)
    BY <2>1, <2>3, <2>4, <2>5, <2>7, StyleKept
  <2>. QED
    BY <1>2, <2>5, <2>6, <2>7
<1>14. CASE PointerElem
  BY <1>3, <1>7, <1>14 DEF PointerElem, AtElem, state
<1>15. CASE SliceElem
  BY <1>3, <1>7, <1>8, <1>15 DEF SliceElem, AtElem, state
<1>16. CASE FieldAlias
  BY <1>2, <1>3, <1>8, <1>16 DEF FieldAlias
<1>17. CASE FieldAnchor
  BY <1>2, <1>3, <1>6, <1>17 DEF FieldAnchor, AtElem
<1>18. CASE FieldPlain
  BY <1>3, <1>6, <1>18 DEF FieldPlain, AtElem
<1>19. CASE LeaveCollection \/ LeavePointer
  BY <1>19, StyleReturned DEF LeaveCollection, LeavePointer, AtEnd
<1>20. CASE UNCHANGED vars
  BY <1>20 DEF vars, StyleInv, Entered, Top
<1>21. CASE RefuseValue \/ RefuseKey
  BY <1>2, <1>21 DEF RefuseValue, RefuseKey, Refused
<1>. QED
  BY <1>1, <1>9, <1>10, <1>12, <1>13, <1>14, <1>15, <1>16, <1>17, <1>18, <1>19, <1>20, <1>21
     DEF Next

\* An array, map or struct ends in the style it has begun with, whatever the tags of the
\* fields inside it turn on: its brackets match.
THEOREM BracketsAlwaysMatch == Spec => []BracketsMatch
<1>1. ASSUME Init PROVE StyleInv
  <2>1. stack = <<>> /\ Len(stack) = 0 /\ 1..(Len(stack) - 1) = {}
    BY <1>1 DEF Init
  <2>. QED
    BY <2>1 DEF StyleInv
<1>2. StackTyped /\ StackTyped' /\ StyleInv /\ [Next]_vars => StyleInv'
  BY StyleInvStep
<1>3. StyleInv => BracketsMatch
  BY DEF StyleInv, BracketsMatch, AtElem, AtEnd, Running
<1>. QED
  BY <1>1, <1>2, <1>3, AlwaysStackTyped, PTL DEF Spec

-----------------------------------------------------------------------------
(***************************************************************************)
(* RecursionIsBounded, for graphs whose cycles all pass a pointer or map.  *)
(* The pointers and maps on the path come in two sorts.  Those without a   *)
(* key were entered while ptrLevel was at most the threshold, and so few   *)
(* were on the path then (LevelInv); those with a key have different keys  *)
(* (SeenInv), so that they are different values.  Between two of them the  *)
(* rank falls.                                                             *)
(***************************************************************************)
References == {"pointer", "map"}

\* The pointers and maps on the path up to an index
PathUpTo(i) == {j \in PointersOnPath : j <= i}

\* A key is that of the value; up to a pointer without a key the path has no more of them
\* than the threshold; and each of them lets the path get longer by the number of values.
Fits(i) ==
  /\ stack[i].key # NoKey => stack[i].key = Key(stack[i].node)
  /\ i \in PointersOnPath /\ stack[i].key = NoKey =>
       Cardinality(PathUpTo(i)) <= CycleCheckAfter
  /\ \A r \in Ranks(graph) :
       i + r[stack[i].node] <= (Cardinality(PathUpTo(i - 1)) + 1) * Cardinality(Nodes)

PathInv == graph \in Graphs /\ \A i \in 1..Len(stack) : Fits(i)

\* What a step does to the stack
Moves ==
  /\ UNCHANGED graph
  /\ \/ UNCHANGED stack
     \/ stack' \in {<<>>} \cup {<<Call(n)>> : n \in Nodes}
     \/ Running /\ stack' = Below
     \/ /\ Running
        /\ \E f \in Frame :
             /\ f.node = Top.node /\ f.next > 0
             /\ \/ /\ f.key = Top.key /\ (Entered \/ Val.kind \notin References)
                   /\ stack' = Append(Below, f)
                \/ /\ f.key = Top.key /\ Entered
                   /\ \E i \in 1..Len(Val.elems) :
                        stack' = Below \o <<f, Call(Val.elems[i].to)>>
                \/ /\ Val.kind \in References /\ stack' = Append(Below, f)
                   /\ \/ f.key = Key(Top.node)
                      \/ f.key = Top.key /\ ptrLevel' <= CycleCheckAfter
     \/ /\ Running /\ Val.kind \notin References
        /\ \E i \in 1..Len(Val.elems) : stack' = Append(Below, Call(Val.elems[i].to))

\* The path up to an index is finite and no longer than the path.
LEMMA UpToFinite ==
  ASSUME StackTyped, NEW i
  PROVE  /\ IsFiniteSet(PathUpTo(i)) /\ Cardinality(PathUpTo(i)) \in Nat
         /\ Cardinality(PathUpTo(i)) <= Cardinality(PointersOnPath)
<1>1. IsFiniteSet(PointersOnPath) /\ PathUpTo(i) \in SUBSET PointersOnPath
  BY PathFinite DEF PathUpTo
<1>. QED
  BY <1>1, FS_Subset, FS_CardinalityType

\* A frame fits as long as nothing changes from it down.
LEMMA FitsKept ==
  ASSUME StackTyped, StackTyped', UNCHANGED graph, NEW i \in 1..Len(stack), Fits(i),
         i \in 1..Len(stack'), \A j \in 1..i : stack'[j] = stack[j]
  PROVE  Fits(i)'
<1>1. Len(stack) \in Nat /\ Len(stack') \in Nat /\ i \in Int /\ i >= 1
  BY DEF StackTyped
<1>2. stack'[i] = stack[i] /\ \A j \in 1..i : j \in 1..Len(stack) /\ j \in 1..Len(stack')
  BY <1>1
<1>3. /\ \A j \in 1..Len(stack) : j <= i => j \in 1..i
      /\ \A j \in 1..Len(stack') : j <= i => j \in 1..i
      /\ \A j \in 1..Len(stack) : j <= i - 1 => j \in 1..i
      /\ \A j \in 1..Len(stack') : j <= i - 1 => j \in 1..i
  BY <1>1
<1>4. PathUpTo(i)' = PathUpTo(i)
  BY <1>2, <1>3 DEF PathUpTo, PointersOnPath
<1>5. PathUpTo(i - 1)' = PathUpTo(i - 1)
  BY <1>2, <1>3 DEF PathUpTo, PointersOnPath
<1>6. i \in PointersOnPath' <=> i \in PointersOnPath
  BY <1>2 DEF PointersOnPath
<1>7. Key(stack[i].node)' = Key(stack[i].node)
  BY <1>2 DEF Key
<1>. QED
  BY <1>2, <1>4, <1>5, <1>6, <1>7 DEF Fits

\* Nothing changes below the innermost encoder.
LEMMA SameBelow ==
  ASSUME StackTyped, StackTyped', UNCHANGED graph, NEW n \in Nat, n = Len(stack), n >= 1,
         Len(stack') >= n, \A j \in 1..(n - 1) : stack'[j] = stack[j]
  PROVE  PathUpTo(n - 1)' = PathUpTo(n - 1)
<1>1. Len(stack') \in Nat
  BY DEF StackTyped
<1>2. /\ \A j \in 1..Len(stack) : j <= n - 1 => j \in 1..(n - 1)
      /\ \A j \in 1..Len(stack') : j <= n - 1 => j \in 1..(n - 1)
      /\ \A j \in 1..(n - 1) : j \in 1..Len(stack) /\ j \in 1..Len(stack')
  BY <1>1
<1>. QED
  BY <1>2 DEF PathUpTo, PointersOnPath

\* Ranks are natural numbers below the number of values.
LEMMA RankTyped ==
  ASSUME IsFiniteSet(Nodes), NEW g, NEW r \in Ranks(g), NEW n \in Nodes
  PROVE  r[n] \in Nat /\ r[n] + 1 <= Cardinality(Nodes) /\ Cardinality(Nodes) \in Nat
<1>1. Cardinality(Nodes) \in Nat
  BY FS_CardinalityType
<1>2. r[n] \in 0..(Cardinality(Nodes) - 1)
  BY DEF Ranks
<1>. QED
  BY <1>1, <1>2

\* The elements of the innermost value, unless it is a pointer or a map, are below it.
LEMMA RankFalls ==
  ASSUME StackTyped, Running, Val.kind \notin References, NEW i \in 1..Len(Val.elems),
         NEW r \in Ranks(graph)
  PROVE  r[Val.elems[i].to] < r[Top.node]
  BY ValueTyped DEF Ranks, Val, References

\* One more pointer on the path makes room for all values.
LEMMA RoomGrows ==
  ASSUME NEW c \in Nat, NEW n \in Nat
  PROVE  (c + 1 + 1) * n = (c + 1) * n + n
  OBVIOUS

\* The first call of marshal, and the empty stack
LEMMA PathBegins ==
  ASSUME IsFiniteSet(Nodes), StackTyped, StackTyped', PathInv, UNCHANGED graph,
         stack' \in {<<>>} \cup {<<Call(n)>> : n \in Nodes}
  PROVE  PathInv'
<1>1. CASE stack' = <<>>
  BY <1>1 DEF PathInv
<1>2. ASSUME NEW n \in Nodes, stack' = <<Call(n)>>
      PROVE  PathInv'
  <2>1. /\ Len(stack') = 1 /\ stack'[1].key = NoKey /\ stack'[1].node = n
        /\ \A i \in 1..Len(stack') : i = 1
    BY <1>2 DEF Call
  <2>2. PointersOnPath' = {}
    BY <1>2, <2>1 DEF PointersOnPath, Call
  <2>3. PathUpTo(0)' = {} /\ Cardinality({}) = 0
    BY <2>2, FS_EmptySet DEF PathUpTo
  <2>4. \A r \in Ranks(graph) : 1 + r[n] <= (0 + 1) * Cardinality(Nodes)
    BY RankTyped
  <2>5. Fits(1)'
    <3>1. PathUpTo(1 - 1)' = PathUpTo(0)'
      OBVIOUS
    <3>. QED
      BY <2>1, <2>2, <2>3, <2>4, <3>1 DEF Fits
  <2>. QED
    BY <2>1, <2>5 DEF PathInv
<1>. QED
  BY <1>1, <1>2

\* The innermost encoder returns.
LEMMA PathShortens ==
  ASSUME StackTyped, StackTyped', PathInv, Running, UNCHANGED graph, stack' = Below
  PROVE  PathInv'
<1>1. /\ Len(stack) \in Nat /\ Len(stack) >= 1 /\ Len(stack') = Len(stack) - 1
      /\ \A j \in 1..(Len(stack) - 1) : stack'[j] = stack[j]
  BY StackSteps
<1>2. ASSUME NEW i \in 1..Len(stack') PROVE Fits(i)'
  <2>1. i \in 1..Len(stack) /\ \A j \in 1..i : j \in 1..(Len(stack) - 1)
    BY <1>1, <1>2
  <2>2. Fits(i) /\ \A j \in 1..i : stack'[j] = stack[j]
    BY <1>1, <2>1 DEF PathInv
  <2>. QED
    BY <1>2, <2>1, <2>2, FitsKept
<1>. QED
  BY <1>2 DEF PathInv

\* The frames below the innermost one fit as before.
LEMMA FitsBelow ==
  ASSUME StackTyped, StackTyped', PathInv, UNCHANGED graph, NEW n \in Nat, n = Len(stack),
         n >= 1, Len(stack') >= n, \A j \in 1..(n - 1) : stack'[j] = stack[j]
  PROVE  \A i \in 1..(n - 1) : Fits(i)'
<1>. SUFFICES ASSUME NEW i \in 1..(n - 1) PROVE Fits(i)'
  OBVIOUS
<1>1. Len(stack') \in Nat
  BY DEF StackTyped
<1>2. i \in 1..Len(stack) /\ i \in 1..Len(stack') /\ \A j \in 1..i : j \in 1..(n - 1)
  BY <1>1
<1>3. Fits(i) /\ \A j \in 1..i : stack'[j] = stack[j]
  BY <1>2 DEF PathInv
<1>. QED
  BY <1>2, <1>3, FitsKept

\* The innermost encoder goes on, and may call another one.
LEMMA PathGoesOn ==
  ASSUME IsFiniteSet(Nodes), StackTyped, StackTyped', PathInv, UNCHANGED graph, Running,
         NEW f \in Frame, f.node = Top.node, f.key = Top.key, f.next > 0,
         Entered \/ Val.kind \notin References,
         NEW n \in Nat, n = Len(stack), n >= 1, Len(stack') >= n, stack'[n] = f,
         \A j \in 1..(n - 1) : stack'[j] = stack[j]
  PROVE  /\ Fits(n)'
         /\ \A i \in 1..(n - 1) : Fits(i)'
         /\ n \in PointersOnPath' <=> Val.kind \in References
<1>1. Top = stack[n] /\ n \in 1..Len(stack) /\ Len(stack') \in Nat /\ n \in 1..Len(stack')
  BY DEF Top, StackTyped
<1>2. n \in PointersOnPath' <=> Val.kind \in References
  BY <1>1 DEF PointersOnPath, References, Val
<1>3. n \in PointersOnPath' => n \in PointersOnPath
  BY <1>1, <1>2 DEF PointersOnPath, References, Val, Entered
<1>4. PathUpTo(n - 1)' = PathUpTo(n - 1)
  BY SameBelow
<1>5. PathUpTo(n)' \subseteq PathUpTo(n)
  <2>1. \A i \in Int : i <= n <=> i <= n - 1 \/ i = n
    OBVIOUS
  <2>2. PointersOnPath \subseteq Int /\ PointersOnPath' \subseteq Int
    BY DEF PointersOnPath
  <2>. QED
    BY <1>3, <1>4, <2>1, <2>2 DEF PathUpTo
<1>6. Cardinality(PathUpTo(n)') <= Cardinality(PathUpTo(n)) /\ Cardinality(PathUpTo(n)) \in Nat
      /\ Cardinality(PathUpTo(n)') \in Nat
  BY <1>5, UpToFinite, FS_Subset, FS_CardinalityType
<1>7. Fits(n)
  BY <1>1 DEF PathInv
<1>8. stack'[n].key # NoKey => stack'[n].key = Key(stack[n].node)'
  <2>1. Key(stack[n].node)' = Key(stack[n].node)
    BY <1>1 DEF Key
  <2>. QED
    BY <1>1, <1>7, <2>1 DEF Fits
<1>9. n \in PointersOnPath' /\ stack'[n].key = NoKey =>
        Cardinality(PathUpTo(n)') <= CycleCheckAfter
  BY <1>1, <1>3, <1>6, <1>7, CycleCheckAssumption DEF Fits
<1>10. \A r \in Ranks(graph) :
         n + r[stack'[n].node] <= (Cardinality(PathUpTo(n - 1)') + 1) * Cardinality(Nodes)
  BY <1>1, <1>4, <1>7 DEF Fits
<1>11. Fits(n)'
  BY <1>8, <1>9, <1>10 DEF Fits
<1>. QED
  BY <1>2, <1>11, FitsBelow

\* A new call on top, of a value the rank of which is below, or above a pointer or map
LEMMA CallFits ==
  ASSUME StackTyped', UNCHANGED graph, NEW m \in Nat, m >= 1, m = Len(stack'), NEW c \in Nodes,
         stack'[m] = Call(c),
         \A r \in Ranks(graph) : m + r[c] <= (Cardinality(PathUpTo(m - 1)') + 1) * Cardinality(Nodes)
  PROVE  Fits(m)'
<1>1. stack'[m].key = NoKey /\ stack'[m].next = 0 /\ stack'[m].node = c
  BY DEF Call
<1>2. m \notin PointersOnPath'
  BY <1>1 DEF PointersOnPath
<1>. QED
  BY <1>1, <1>2 DEF Fits

\* An element is encoded.
LEMMA PathCalls ==
  ASSUME IsFiniteSet(Nodes), StackTyped, StackTyped', PathInv, UNCHANGED graph, Running, Entered,
         NEW f \in Frame, f.node = Top.node, f.key = Top.key, f.next > 0,
         NEW i \in 1..Len(Val.elems), stack' = Below \o <<f, Call(Val.elems[i].to)>>
  PROVE  PathInv'
<1>. DEFINE c == Val.elems[i].to
            g == Call(c)
<1>1. c \in Nodes
  <2>1. Val.elems \in Seq(Elements)
    BY ValueTyped DEF Value
  <2>2. Val.elems[i] \in Elements
    BY <2>1
  <2>. QED
    BY <2>2 DEF Elements
<1>2. g \in Frame
  BY <1>1, FramesTyped
<1>3. PICK n \in Nat : n = Len(stack) /\ n >= 1
  BY StackSteps
<1>. HIDE DEF g
<1>4. /\ Len(stack') = n + 1 /\ Len(stack') >= n /\ stack'[n] = f /\ stack'[n + 1] = g
      /\ \A j \in 1..(n - 1) : stack'[j] = stack[j]
  BY <1>2, <1>3, StackSteps DEF g
<1>5. /\ Fits(n)' /\ \A j \in 1..(n - 1) : Fits(j)'
      /\ n \in PointersOnPath' <=> Val.kind \in References
  BY <1>3, <1>4, PathGoesOn
<1>6. Top = stack[n] /\ n \in 1..Len(stack) /\ Fits(n) /\ Top.node \in Nodes
  BY <1>3, ValueTyped DEF Top, PathInv
<1>7. /\ PathUpTo(n - 1)' = PathUpTo(n - 1)
      /\ IsFiniteSet(PathUpTo(n - 1)) /\ Cardinality(PathUpTo(n - 1)) \in Nat
  BY <1>3, <1>4, SameBelow, UpToFinite
<1>. DEFINE k == Cardinality(PathUpTo(n - 1))
            N == Cardinality(Nodes)
<1>8. PathUpTo(n)' = IF Val.kind \in References THEN PathUpTo(n - 1) \cup {n} ELSE PathUpTo(n - 1)
  <2>1. \A j \in Int : j <= n <=> j <= n - 1 \/ j = n
    BY <1>3
  <2>2. PointersOnPath' \subseteq Int
    BY DEF PointersOnPath
  <2>3. PathUpTo(n)' = {j \in PointersOnPath' : j <= n}
    BY DEF PathUpTo
  <2>4. PathUpTo(n - 1)' = {j \in PointersOnPath' : j <= n - 1}
    BY DEF PathUpTo
  <2>5. \A j \in PointersOnPath' : j <= n <=> j <= n - 1 \/ j = n
    BY <2>1, <2>2
  <2>. HIDE DEF k, N, c
  <2>. QED
    BY <1>3, <1>5, <1>7, <2>3, <2>4, <2>5
<1>9. n \notin PathUpTo(n - 1)
  BY <1>3 DEF PathUpTo
<1>10. Cardinality(PathUpTo(n)') = IF Val.kind \in References THEN k + 1 ELSE k
  BY <1>7, <1>8, <1>9, FS_AddElement
<1>11. ASSUME NEW r \in Ranks(graph)
       PROVE  n + 1 + r[c] <= (Cardinality(PathUpTo(n)') + 1) * N
  <2>1. n + r[Top.node] <= (k + 1) * N
    BY <1>6, <1>11 DEF Fits
  <2>2. r[Top.node] \in Nat /\ r[c] \in Nat /\ r[c] + 1 <= N /\ N \in Nat
    BY <1>1, <1>6, <1>11, RankTyped
  <2>3. k \in Nat /\ (k + 1) * N \in Nat
    BY <1>7, <2>2
  <2>. HIDE DEF k, N, c
  <2>4. CASE Val.kind \in References
    <3>1. (k + 1 + 1) * N = (k + 1) * N + N
      BY <2>2, <2>3, RoomGrows
    <3>2. n + 1 + r[c] <= (k + 1) * N + N
      BY <1>3, <2>1, <2>2, <2>3
    <3>. QED
      BY <1>10, <2>4, <3>1, <3>2
  <2>5. CASE Val.kind \notin References
    <3>1. r[c] < r[Top.node]
      BY <1>11, <2>5, RankFalls DEF c
    <3>2. n + 1 + r[c] <= (k + 1) * N
      BY <1>3, <2>1, <2>2, <2>3, <3>1
    <3>. QED
      BY <1>10, <2>5, <3>2
  <2>. QED
    BY <2>4, <2>5
<1>12. Fits(n + 1)'
  <2>1. PICK m \in Nat : m = n + 1 /\ m - 1 = n /\ m >= 1
    BY <1>3
  <2>. HIDE DEF c, N
  <2>2. \A r \in Ranks(graph) : m + r[c] <= (Cardinality(PathUpTo(m - 1)') + 1) * Cardinality(Nodes)
    BY <1>11, <2>1 DEF N
  <2>3. Fits(m)'
    BY <1>1, <1>4, <2>1, <2>2, CallFits DEF g
  <2>. QED
    BY <2>1, <2>3
<1>13. \A j \in 1..(n + 1) : j \in 1..(n - 1) \/ j = n \/ j = n + 1
  BY <1>3
<1>14. \A j \in 1..Len(stack') : Fits(j)'
  BY <1>4, <1>5, <1>12, <1>13
<1>. QED
  BY <1>14 DEF PathInv

\* An interface is replaced by the value in it.
LEMMA PathGivenWay ==
  ASSUME IsFiniteSet(Nodes), StackTyped, StackTyped', PathInv, UNCHANGED graph, Running,
         Val.kind \notin References, NEW i \in 1..Len(Val.elems),
         stack' = Append(Below, Call(Val.elems[i].to))
  PROVE  PathInv'
<1>. DEFINE c == Val.elems[i].to
            g == Call(c)
<1>1. c \in Nodes
  <2>1. Val.elems \in Seq(Elements)
    BY ValueTyped DEF Value
  <2>2. Val.elems[i] \in Elements
    BY <2>1
  <2>. QED
    BY <2>2 DEF Elements
<1>2. g \in Frame
  BY <1>1, FramesTyped
<1>3. PICK n \in Nat : n = Len(stack) /\ n >= 1
  BY StackSteps
<1>. HIDE DEF g
<1>4. /\ Len(stack') = n /\ Len(stack') >= n /\ stack'[n] = g
      /\ \A j \in 1..(n - 1) : stack'[j] = stack[j]
  BY <1>2, <1>3, StackSteps DEF g
<1>5. \A j \in 1..(n - 1) : Fits(j)'
  BY <1>3, <1>4, FitsBelow
<1>6. Top = stack[n] /\ n \in 1..Len(stack) /\ Fits(n) /\ Top.node \in Nodes
  BY <1>3, ValueTyped DEF Top, PathInv
<1>7. PathUpTo(n - 1)' = PathUpTo(n - 1) /\ Cardinality(PathUpTo(n - 1)) \in Nat
  BY <1>3, <1>4, SameBelow, UpToFinite
<1>. DEFINE room == (Cardinality(PathUpTo(n - 1)) + 1) * Cardinality(Nodes)
<1>8. \A r \in Ranks(graph) : n + r[c] <= room
  <2>. SUFFICES ASSUME NEW r \in Ranks(graph) PROVE n + r[c] <= room
    OBVIOUS
  <2>1. n + r[Top.node] <= room
    BY <1>6 DEF Fits
  <2>2. r[Top.node] \in Nat /\ r[c] \in Nat /\ Cardinality(Nodes) \in Nat
    BY <1>1, <1>6, RankTyped
  <2>3. room \in Nat
    BY <1>7, <2>2
  <2>4. r[c] < r[Top.node]
    BY RankFalls
  <2>. HIDE DEF room, c
  <2>. QED
    BY <1>3, <2>1, <2>2, <2>3, <2>4
<1>. HIDE DEF c
<1>9. \A r \in Ranks(graph) :
        n + r[c] <= (Cardinality(PathUpTo(n - 1)') + 1) * Cardinality(Nodes)
  BY <1>7, <1>8
<1>10. Fits(n)'
  BY <1>1, <1>3, <1>4, <1>9, CallFits DEF g
<1>11. \A j \in 1..n : j \in 1..(n - 1) \/ j = n
  BY <1>3
<1>12. \A j \in 1..Len(stack') : Fits(j)'
  BY <1>4, <1>5, <1>10, <1>11
<1>. QED
  BY <1>12 DEF PathInv

\* A pointer or map is entered, with its key or while the level is low.
LEMMA PathEnters ==
  ASSUME IsFiniteSet(Nodes), StackTyped, StackTyped', LevelInv', PathInv, UNCHANGED graph, Running,
         NEW f \in Frame, f.node = Top.node, f.next > 0, stack' = Append(Below, f),
         \/ f.key = Key(Top.node) /\ f.key # NoKey
         \/ f.key = Top.key /\ ptrLevel' <= CycleCheckAfter
  PROVE  PathInv'
<1>1. PICK n \in Nat : n = Len(stack) /\ n >= 1
  BY StackSteps
<1>2. /\ Len(stack') = n /\ Len(stack') >= n /\ stack'[n] = f
      /\ \A j \in 1..(n - 1) : stack'[j] = stack[j]
  BY <1>1, StackSteps
<1>3. \A j \in 1..(n - 1) : Fits(j)'
  BY <1>1, <1>2, FitsBelow
<1>4. Top = stack[n] /\ n \in 1..Len(stack) /\ Fits(n)
  BY <1>1 DEF Top, PathInv
<1>5. PathUpTo(n - 1)' = PathUpTo(n - 1)
  BY <1>1, <1>2, SameBelow
<1>6. Key(stack[n].node)' = Key(stack[n].node)
  BY <1>2, <1>4 DEF Key
<1>7. stack'[n].key # NoKey => stack'[n].key = Key(stack[n].node)'
  BY <1>2, <1>4, <1>6 DEF Fits
<1>8. stack'[n].key = NoKey => Cardinality(PathUpTo(n)') <= CycleCheckAfter
  <2>1. /\ Cardinality(PathUpTo(n)') \in Nat /\ Cardinality(PointersOnPath') \in Nat
        /\ Cardinality(PathUpTo(n)') <= Cardinality(PointersOnPath')
    <3>1. IsFiniteSet(PointersOnPath') /\ PathUpTo(n)' \in SUBSET PointersOnPath'
      <4>1. PointersOnPath' \in SUBSET (1..n) /\ PathUpTo(n)' \in SUBSET PointersOnPath'
        BY <1>2 DEF PointersOnPath, PathUpTo
      <4>2. IsFiniteSet(1..n)
        BY FS_Interval
      <4>. QED
        BY <4>1, <4>2, FS_Subset
    <3>. QED
      BY <3>1, FS_Subset, FS_CardinalityType
  <2>2. ptrLevel' \in Nat /\ Cardinality(PointersOnPath') <= ptrLevel'
    BY DEF LevelInv
  <2>3. stack'[n].key = NoKey => ptrLevel' <= CycleCheckAfter
    BY <1>2
  <2>. QED
    BY <2>1, <2>2, <2>3, CycleCheckAssumption
<1>9. \A r \in Ranks(graph) :
        n + r[stack'[n].node] <= (Cardinality(PathUpTo(n - 1)') + 1) * Cardinality(Nodes)
  BY <1>2, <1>4, <1>5 DEF Fits
<1>10. Fits(n)'
  BY <1>7, <1>8, <1>9 DEF Fits
<1>11. \A j \in 1..n : j \in 1..(n - 1) \/ j = n
  BY <1>1
<1>12. \A j \in 1..Len(stack') : Fits(j)'
  BY <1>2, <1>3, <1>10, <1>11
<1>. QED
  BY <1>12 DEF PathInv

\* The innermost encoder goes on without a call.
LEMMA PathAdvances ==
  ASSUME IsFiniteSet(Nodes), StackTyped, StackTyped', PathInv, UNCHANGED graph, Running,
         NEW f \in Frame, f.node = Top.node, f.key = Top.key, f.next > 0,
         Entered \/ Val.kind \notin References, stack' = Append(Below, f)
  PROVE  PathInv'
<1>1. PICK n \in Nat : n = Len(stack) /\ n >= 1
  BY StackSteps
<1>2. /\ Len(stack') = n /\ Len(stack') >= n /\ stack'[n] = f
      /\ \A j \in 1..(n - 1) : stack'[j] = stack[j]
  BY <1>1, StackSteps
<1>3. Fits(n)' /\ \A j \in 1..(n - 1) : Fits(j)'
  BY <1>1, <1>2, PathGoesOn
<1>4. \A j \in 1..n : j \in 1..(n - 1) \/ j = n
  BY <1>1
<1>5. \A j \in 1..Len(stack') : Fits(j)'
  BY <1>2, <1>3, <1>4
<1>. QED
  BY <1>5 DEF PathInv

\* Every step keeps the frames fit.
LEMMA PathInvStep ==
  ASSUME IsFiniteSet(Nodes), StackTyped, StackTyped', LevelInv', PathInv, Moves
  PROVE  PathInv'
<1>1. UNCHANGED graph
  BY DEF Moves
<1>2. CASE UNCHANGED stack
  <2>1. \A i \in 1..Len(stack) : Fits(i)'
    BY <1>1, <1>2, FitsKept DEF PathInv
  <2>. QED
    BY <1>1, <1>2, <2>1 DEF PathInv
<1>3. CASE stack' \in {<<>>} \cup {<<Call(n)>> : n \in Nodes}
  BY <1>1, <1>3, PathBegins
<1>4. CASE Running /\ stack' = Below
  BY <1>1, <1>4, PathShortens
<1>5. ASSUME Running, NEW f \in Frame, f.node = Top.node, f.next > 0, f.key = Top.key,
             Entered \/ Val.kind \notin References, stack' = Append(Below, f)
      PROVE  PathInv'
  BY <1>1, <1>5, PathAdvances
<1>6. ASSUME Running, NEW f \in Frame, f.node = Top.node, f.next > 0, f.key = Top.key, Entered,
             NEW i \in 1..Len(Val.elems), stack' = Below \o <<f, Call(Val.elems[i].to)>>
      PROVE  PathInv'
  BY <1>1, <1>6, PathCalls
<1>7. ASSUME Running, NEW f \in Frame, f.node = Top.node, f.next > 0, stack' = Append(Below, f),
             f.key = Key(Top.node) \/ (f.key = Top.key /\ ptrLevel' <= CycleCheckAfter)
      PROVE  PathInv'
  <2>1. Key(Top.node) # NoKey
    BY DEF Key, NoKey
  <2>. QED
    BY <1>1, <1>7, <2>1, PathEnters
<1>8. ASSUME Running, Val.kind \notin References, NEW i \in 1..Len(Val.elems),
             stack' = Append(Below, Call(Val.elems[i].to))
      PROVE  PathInv'
  BY <1>1, <1>8, PathGivenWay
<1>. QED
  BY <1>2, <1>3, <1>4, <1>5, <1>6, <1>7, <1>8 DEF Moves

\* Every action moves the stack in one of those ways.
LEMMA StepMoves ==
  ASSUME StackTyped, [Next]_vars
  PROVE  Moves
<1>1. ASSUME NEW K, AtElem(K)
      PROVE  /\ Running /\ Entered /\ Top.next \in 1..Len(Val.elems) /\ Val.kind \in K
             /\ Elem = Val.elems[Top.next] /\ Advance \in Frame
             /\ Advance.node = Top.node /\ Advance.key = Top.key /\ Advance.next > 0
  <2>1. Running /\ Entered /\ Top.next <= Len(Val.elems) /\ Val.kind \in K
    BY <1>1 DEF AtElem
  <2>2. Top \in Frame /\ Advance \in Frame /\ Top.next \in Nat /\ Val.elems \in Seq(Elements)
    BY <2>1, StackSteps, FramesTyped, ValueTyped DEF Value
  <2>3. Advance.node = Top.node /\ Advance.key = Top.key /\ Advance.next = Top.next + 1
    BY <2>2 DEF Advance, Frame
  <2>4. Top.next \in 1..Len(Val.elems)
    BY <2>1, <2>2 DEF Entered
  <2>. QED
    BY <2>1, <2>2, <2>3, <2>4 DEF Elem
<1>2. ASSUME NEW K, AtElem(K), stack' = Below \o <<Advance, Call(Elem.to)>>, UNCHANGED graph
      PROVE  Moves
  BY <1>1, <1>2 DEF Moves
<1>3. ASSUME NEW K, AtElem(K), stack' = Append(Below, Advance), UNCHANGED graph
      PROVE  Moves
  BY <1>1, <1>3 DEF Moves
<1>4. ASSUME NEW K, AtElem(K), EncodeField, UNCHANGED graph
      PROVE  Moves
  <2>. DEFINE f == [Advance EXCEPT !.oldFlow = flowStyle]
  <2>1. /\ Running /\ Entered /\ Top.next \in 1..Len(Val.elems) /\ Elem = Val.elems[Top.next]
        /\ Advance \in Frame /\ Advance.node = Top.node /\ Advance.key = Top.key
        /\ Advance.next > 0
    BY <1>1, <1>4
  <2>2. f \in Frame /\ f.node = Advance.node /\ f.key = Advance.key /\ f.next = Advance.next
    BY <2>1 DEF Frame, StackTyped
  <2>3. stack' = Below \o <<f, Call(Elem.to)>>
    BY <1>4 DEF EncodeField
  <2>. HIDE DEF f
  <2>. QED
    BY <1>4, <2>1, <2>2, <2>3 DEF Moves
<1>5. CASE WriteLeaf \/ LeaveCollection \/ LeavePointer
  BY <1>5 DEF WriteLeaf, LeaveCollection, LeavePointer, Entering, AtEnd, Return, Moves
<1>. DEFINE e == [Top EXCEPT !.next = 1, !.flow = flowStyle]
<1>6. Running => /\ e \in Frame /\ e.node = Top.node /\ e.key = Top.key /\ e.next = 1
                 /\ Key(Top.node) \in References \X Nodes => [e EXCEPT !.key = Key(Top.node)] \in Frame
  <2>. SUFFICES ASSUME Running PROVE /\ e \in Frame /\ e.node = Top.node /\ e.key = Top.key
                                     /\ e.next = 1
                                     /\ Key(Top.node) \in References \X Nodes =>
                                          [e EXCEPT !.key = Key(Top.node)] \in Frame
    OBVIOUS
  <2>1. Top \in Frame /\ flowStyle \in BOOLEAN
    BY StackSteps DEF StackTyped
  <2>2. e \in Frame /\ e.node = Top.node /\ e.key = Top.key /\ e.next = 1
    BY <2>1 DEF Frame
  <2>3. \A k \in References \X Nodes : [e EXCEPT !.key = k] \in Frame
    BY <2>2 DEF Frame, References
  <2>. QED
    BY <2>2, <2>3
<1>7. CASE OpenInterface
  <2>1. Running /\ Val.kind = "interface" /\ Val.elems # <<>> /\ UNCHANGED graph
        /\ stack' = Append(Below, Call(Val.elems[1].to))
    BY <1>7 DEF OpenInterface, Entering
  <2>2. 1 \in 1..Len(Val.elems) /\ Val.kind \notin References
    <3>1. Val.elems \in Seq(Elements)
      BY <2>1, ValueTyped DEF Value
    <3>. QED
      BY <2>1, <3>1 DEF References
  <2>. QED
    BY <2>1, <2>2 DEF Moves
<1>8. CASE EnterCollection
  <2>1. /\ Running /\ Val.kind \notin References /\ stack' = Append(Below, e) /\ UNCHANGED graph
    BY <1>8 DEF EnterCollection, Entering, References
  <2>. HIDE DEF e
  <2>2. e \in Frame /\ e.node = Top.node /\ e.key = Top.key /\ e.next > 0
    BY <1>6, <2>1
  <2>. QED
    BY <2>1, <2>2 DEF Moves
<1>9. CASE EnterPointer
  <2>. DEFINE f == [e EXCEPT !.key = Key(Top.node)]
  <2>1. Running /\ Val.kind \in References /\ Val.elems # <<>> /\ UNCHANGED graph
    BY <1>9 DEF EnterPointer, Entering, References
  <2>2. \/ ptrLevel' <= CycleCheckAfter /\ stack' = Append(Below, e)
        \/ Panic
        \/ stack' = Append(Below, f)
    BY <1>9 DEF EnterPointer
  <2>3. Key(Top.node) \in References \X Nodes
    BY <2>1, ValueTyped DEF Key, Val, References
  <2>4. e \in Frame /\ e.node = Top.node /\ e.key = Top.key /\ e.next > 0 /\ f \in Frame
    BY <1>6, <2>1, <2>3
  <2>5. f.node = e.node /\ f.next = e.next /\ f.key = Key(Top.node)
    BY <2>4 DEF Frame
  <2>. HIDE DEF e, f
  <2>. QED
    BY <2>1, <2>2, <2>4, <2>5 DEF Moves, Panic
<1>10. CASE PointerElem
  BY <1>2, <1>10 DEF PointerElem
<1>11. CASE SliceElem
  BY <1>2, <1>3, <1>11 DEF SliceElem
<1>12. CASE FieldAlias
  BY <1>3, <1>12 DEF FieldAlias, Panic, Moves
<1>13. CASE FieldAnchor
  BY <1>4, <1>13 DEF FieldAnchor, Panic, Moves
<1>14. CASE FieldPlain
  BY <1>4, <1>14 DEF FieldPlain
<1>15. CASE RefuseValue \/ RefuseKey
  BY <1>15 DEF RefuseValue, RefuseKey, Refused, Panic, Moves
<1>16. CASE UNCHANGED vars
  BY <1>16 DEF vars, Moves
<1>17. ASSUME NEW n \in Nodes, NEW flow \in BOOLEAN, Marshal(n, flow) PROVE Moves
  BY <1>17 DEF Marshal, Moves
<1>. QED
  BY <1>5, <1>7, <1>8, <1>9, <1>10, <1>11, <1>12, <1>13, <1>14, <1>15, <1>16,
     <1>17 DEF Next

\* The path has no more pointers than the threshold and the number of values.
LEMMA PathBound ==
  ASSUME IsFiniteSet(Nodes), StackTyped, SeenInv, PathInv
  PROVE  Cardinality(PointersOnPath) <= CycleCheckAfter + Cardinality(Nodes)
<1>. DEFINE U == {i \in PointersOnPath : stack[i].key = NoKey}
            K == {i \in PointersOnPath : stack[i].key # NoKey}
            f == [i \in K |-> stack[i].node]
<1>1. /\ IsFiniteSet(PointersOnPath) /\ Cardinality(PointersOnPath) \in Nat
      /\ CycleCheckAfter \in Nat /\ Cardinality(Nodes) \in Nat /\ Len(stack) \in Nat
  BY PathFinite, FS_CardinalityType, CycleCheckAssumption DEF StackTyped
<1>2. U \in SUBSET PointersOnPath /\ K \in SUBSET PointersOnPath
      /\ PointersOnPath = U \cup K /\ U \cap K = {} /\ PointersOnPath \subseteq 1..Len(stack)
  BY DEF PointersOnPath
<1>3. IsFiniteSet(U) /\ IsFiniteSet(K) /\ Cardinality(U) \in Nat /\ Cardinality(K) \in Nat
  BY <1>1, <1>2, FS_Subset, FS_CardinalityType
<1>4. Cardinality(K) <= Cardinality(Nodes)
  <2>a. \A i \in 1..Len(stack) : stack[i] \in Frame
    BY DEF StackTyped
  <2>1. \A i \in 1..Len(stack) : stack[i].node \in Nodes
    BY <2>a DEF Frame
  <2>2. f \in [K -> Nodes]
    BY <1>2, <2>1
  <2>3. ASSUME NEW i \in K, NEW j \in K, f[i] = f[j] PROVE i = j
    <3>1. i \in 1..Len(stack) /\ j \in 1..Len(stack) /\ stack[i].node = stack[j].node
      BY <1>2, <2>3
    <3>2. stack[i].key = Key(stack[i].node) /\ stack[j].key = Key(stack[j].node)
      BY <3>1 DEF PathInv, Fits
    <3>. QED
      BY <3>1, <3>2 DEF SeenInv
  <2>. HIDE DEF f
  <2>4. f \in Injection(K, Nodes)
    BY <2>2, <2>3 DEF Injection, IsInjective
  <2>. HIDE DEF K
  <2>. QED
    BY <2>4, FS_Injection
<1>5. Cardinality(U) <= CycleCheckAfter
  <2>. HIDE DEF U
  <2>1. CASE U = {}
    <3>1. Cardinality({}) = 0
      BY FS_EmptySet
    <3>2. Cardinality(U) = 0
      BY <2>1, <3>1
    <3>. QED
      BY <1>1, <3>2
  <2>2. CASE U # {}
    <3>a. 1..Len(stack) \subseteq 0..Len(stack)
      BY <1>1
    <3>b. U \subseteq PointersOnPath
      BY <1>2
    <3>1. U \subseteq 0..Len(stack)
      BY <1>2, <3>a, <3>b, Zenon
    <3>2. PICK m \in U : \A n \in U : n <= m
      BY <1>1, <2>2, <3>1, GreatestNatural
    <3>. USE DEF U
    <3>3. Cardinality(PathUpTo(m)) <= CycleCheckAfter
      BY <1>2, <3>2 DEF PathInv, Fits
    <3>4. U \in SUBSET PathUpTo(m)
      BY <3>2 DEF PathUpTo
    <3>. HIDE DEF U
    <3>5. /\ Cardinality(U) <= Cardinality(PathUpTo(m)) /\ Cardinality(PathUpTo(m)) \in Nat
      BY <3>4, UpToFinite, FS_Subset
    <3>. QED
      BY <1>1, <1>3, <3>3, <3>5
  <2>. QED
    BY <2>1, <2>2
<1>. HIDE DEF U, K
<1>6. Cardinality(PointersOnPath) = Cardinality(U) + Cardinality(K) - Cardinality({})
  BY <1>2, <1>3, FS_Union
<1>7. Cardinality({}) = 0
  BY FS_EmptySet
<1>. QED
  BY <1>1, <1>3, <1>4, <1>5, <1>6, <1>7

\* Multiplying by a natural number keeps the order.
LEMMA TimesMonotone ==
  ASSUME NEW a \in Nat, NEW b \in Nat, NEW n \in Nat, a <= b
  PROVE  a * n <= b * n
<1>1. b * n = a * n + (b - a) * n /\ b - a \in Nat
  OBVIOUS
<1>2. (b - a) * n \in Nat /\ a * n \in Nat
  BY <1>1
<1>. QED
  BY <1>1, <1>2

\* So the stack is no higher than the ranks allow between so many pointers.
LEMMA DepthBound ==
  ASSUME IsFiniteSet(Nodes), \A g \in Graphs : Ranks(g) # {}, StackTyped, SeenInv, PathInv
  PROVE  RecursionIsBounded
<1>. DEFINE N == Cardinality(Nodes)
            n == Len(stack)
            c == Cardinality(PathUpTo(n - 1))
<1>1. /\ N \in Nat /\ n \in Nat /\ CycleCheckAfter \in Nat /\ c \in Nat
      /\ c <= Cardinality(PointersOnPath) /\ Cardinality(PointersOnPath) \in Nat
  BY UpToFinite, PathFinite, FS_CardinalityType, CycleCheckAssumption DEF StackTyped
<1>2. Cardinality(PointersOnPath) <= CycleCheckAfter + N
  BY PathBound
<1>3. CASE n = 0
  <2>1. (CycleCheckAfter + N + 1) * N \in Nat
    BY <1>1
  <2>. QED
    BY <1>3, <2>1 DEF RecursionIsBounded
<1>4. CASE n > 0
  <2>1. PICK r \in Ranks(graph) : TRUE
    BY DEF PathInv
  <2>a. n \in 1..n
    BY <1>1, <1>4
  <2>b. stack[n] \in Frame
    BY <2>a DEF StackTyped
  <2>2. n \in 1..n /\ stack[n] \in Frame /\ stack[n].node \in Nodes
    BY <2>a, <2>b DEF Frame
  <2>3. n + r[stack[n].node] <= (c + 1) * N
    BY <2>2 DEF PathInv, Fits
  <2>4. r[stack[n].node] \in Nat
    BY <2>1, <2>2, RankTyped
  <2>. HIDE DEF N, n, c
  <2>5. c + 1 <= CycleCheckAfter + N + 1 /\ c + 1 \in Nat /\ CycleCheckAfter + N + 1 \in Nat
    BY <1>1, <1>2
  <2>6. (c + 1) * N <= (CycleCheckAfter + N + 1) * N
    BY <1>1, <2>5, TimesMonotone
  <2>7. (c + 1) * N \in Nat /\ (CycleCheckAfter + N + 1) * N \in Nat
    BY <1>1, <2>5
  <2>8. n <= (CycleCheckAfter + N + 1) * N
    BY <1>1, <2>3, <2>4, <2>6, <2>7
  <2>. QED
    BY <2>8 DEF RecursionIsBounded, N, n
<1>. QED
  BY <1>1, <1>3, <1>4

\* If every cycle of the values passes a pointer or a map, the recursion of Marshal is no
\* deeper than the threshold of ptrEncoder and mapEncoder and the number of values allow:
\* it does not follow a cycle for ever.
THEOREM RecursionEnds ==
  ASSUME IsFiniteSet(Nodes), \A g \in Graphs : Ranks(g) # {}
  PROVE  Spec => []RecursionIsBounded
<1>1. Init => PathInv /\ LevelInv /\ SeenInv
  <2>1. Init => PathInv
    BY DEF Init, PathInv
  <2>2. Init => SeenInv
    BY DEF Init, SeenInv
  <2>. QED
    BY <2>1, <2>2, InitLevel
<1>2. StackTyped /\ StackTyped' /\ PathInv /\ LevelInv /\ SeenInv /\ [Next]_vars =>
        PathInv' /\ LevelInv' /\ SeenInv'
  <2>. SUFFICES ASSUME StackTyped, StackTyped', PathInv, LevelInv, SeenInv, [Next]_vars
                PROVE  PathInv' /\ LevelInv' /\ SeenInv'
    OBVIOUS
  <2>1. LevelInv' /\ SeenInv'
    BY LevelInvStep, SeenInvStep
  <2>2. Moves
    BY StepMoves
  <2>. QED
    BY <2>1, <2>2, PathInvStep
<1>3. StackTyped /\ SeenInv /\ PathInv => RecursionIsBounded
  BY DepthBound
<1>. QED
  BY <1>1, <1>2, <1>3, AlwaysStackTyped, PTL DEF Spec
===============================================================================
