----------------------------- MODULE ValueEncoder -----------------------------
(***************************************************************************)
(* encodeState of encode.go: Marshal walks a Go value and writes it.  The  *)
(* value is a graph (pointers, maps and slices may be shared and may lead  *)
(* back to where they came from), the walk is recursive, and three pieces  *)
(* of state follow it: the anchors given to shared values, the pointers on *)
(* the current path once it is long (ptrLevel, ptrSeen), and the flow      *)
(* style, which a struct field may turn on for its value.  An error panics *)
(* out of the recursion, and the encodeState goes back into its pool.      *)
(*                                                                         *)
(* The encoder of a kind is an action that enters a value of it, actions   *)
(* that go on with its next element and one that leaves it.  Scalars and   *)
(* the text written for a value are left out: out records anchors and      *)
(* aliases.                                                                *)
(***************************************************************************)
EXTENDS Integers, Sequences, FiniteSets

CONSTANTS
  Names,       \* anchor names
  Suffixes,    \* Suffixes[n]: n followed by 1, 2, ... 99
  Addresses,   \* addresses of values, without 0
  Nodes,       \* the values of a graph
  Graphs,      \* the graphs given to Marshal: functions from Nodes to values
  CycleCheckAfter  \* startDetectingCyclesAfter (1000 in the code)

ASSUME NamesAssumption     == Suffixes \in [Names -> Seq(Names)]
ASSUME AddressesAssumption == Addresses \subseteq Nat \ {0}
ASSUME CycleCheckAssumption == CycleCheckAfter \in Nat

NoName == ""

(***************************************************************************)
(* A value: its kind, its address (of what a pointer to it points to, and  *)
(* of the data of a map or slice; 0 for a nil one) and its elements.  A    *)
(* pointer or interface has one element, or none if it is nil.  An element *)
(* of a struct is a field with the options of its yaml tag.                *)
(***************************************************************************)
Kinds    == {"scalar", "pointer", "interface", "map", "slice", "struct"}
Elements == [to : Nodes, anchor : Names \cup {NoName}, alias : Names \cup {NoName}, flow : BOOLEAN]
Value    == [kind : Kinds, addr : Addresses \cup {0}, elems : Seq(Elements)]

ASSUME GraphsAssumption == Graphs \subseteq [Nodes -> Value]

VARIABLES
  graph,        \* the values Marshal is given
  stack,        \* the encoders being run, outermost first
  ptrLevel, ptrSeen, anchors, anchorNames, flowStyle,   \* encodeState
  out,          \* the anchors and aliases written
  result        \* "ready", "encoding", or what the last Marshal returned

state == <<ptrLevel, ptrSeen, anchors, anchorNames, flowStyle>>
vars  == <<graph, stack, ptrLevel, ptrSeen, anchors, anchorNames, flowStyle, out, result>>

Empty == [x \in {} |-> x]

Store(f, x, y) == [z \in DOMAIN f \cup {x} |-> IF z = x THEN y ELSE f[z]]

\* newEncodeState without an encodeState in the pool
Init ==
  /\ graph \in Graphs
  /\ stack = <<>> /\ out = <<>> /\ result = "ready"
  /\ ptrLevel = 0 /\ ptrSeen = {} /\ anchors = Empty /\ anchorNames = Empty
  /\ flowStyle = FALSE

-----------------------------------------------------------------------------
(***************************************************************************)
(* The encoders being run.  A frame has the index of its next element, the *)
(* key it has put into ptrSeen, if any, the flow style it was entered with *)
(* (which wrote its opening bracket or none) and oldFlow, the style a      *)
(* struct goes back to after a field.                                      *)
(***************************************************************************)
NoKey == <<"none", 0>>

Call(n) == [node |-> n, next |-> 0, key |-> NoKey,
            flow |-> FALSE, oldFlow |-> FALSE]

Top     == stack[Len(stack)]
Below   == SubSeq(stack, 1, Len(stack) - 1)
Val     == graph[Top.node]
Entered == Top.next > 0
Elem    == Val.elems[Top.next]

Running == result = "encoding" /\ stack # <<>>

Entering(kinds) == Running /\ ~Entered /\ Val.kind \in kinds
AtElem(kinds)   == Running /\ Entered /\ Val.kind \in kinds /\ Top.next <= Len(Val.elems)
AtEnd(kinds)    == Running /\ Entered /\ Val.kind \in kinds /\ Top.next > Len(Val.elems)

Advance == [Top EXCEPT !.next = @ + 1]

\* v.Pointer() of a reference: a pointer, map or slice
IsReference(n) == graph[n].kind \in {"pointer", "map", "slice"}

Ref(n) ==
  IF graph[n].kind = "pointer"
  THEN IF graph[n].elems = <<>> THEN 0 ELSE graph[graph[n].elems[1].to].addr
  ELSE graph[n].addr

\* The key of ptrSeen: the address of the map, or the pointer, which has a type.  The
\* pointers to one value have one type here (and not P as well, type P *T), so that the
\* value tells them.
Key(n) == IF graph[n].kind = "pointer" THEN <<"pointer", graph[n].elems[1].to>> ELSE <<"map", n>>

\* e.error: the panic runs the deferred deletes of all frames, and marshal returns
\* the error.  That the maps count ptrLevel down in deferred calls as well is left
\* out: nothing reads ptrLevel before newEncodeState clears it.
Deferred == {stack[i].key : i \in 1..Len(stack)}

\* Mutant of Panic: the deletes are not deferred.
PanicKeepsSeen == stack' = <<>> /\ result' = "error" /\ UNCHANGED ptrSeen

Panic ==
  /\ stack' = <<>> /\ result' = "error"
  /\ ptrSeen' = ptrSeen \ Deferred

\* marshal, with an encodeState from the pool: newEncodeState clears everything but
\* ptrSeen, which it expects to be empty.
Marshal(n, flow) ==
  /\ result # "encoding"
  /\ stack' = <<Call(n)>> /\ out' = <<>> /\ result' = "encoding"
  /\ ptrLevel' = 0 /\ anchors' = Empty /\ anchorNames' = Empty /\ flowStyle' = flow
  /\ UNCHANGED <<graph, ptrSeen>>

\* The innermost encoder returns; the outermost ends marshal, and a struct puts the
\* flow style back.
Caller == Below[Len(Below)]

\* Mutant of Return: the flow style of a field stays on.
ReturnKeepsFlow ==
  /\ stack' = Below
  /\ result' = IF Below = <<>> THEN "ok" ELSE "encoding"
  /\ UNCHANGED flowStyle

Return ==
  /\ stack' = Below
  /\ result' = IF Below = <<>> THEN "ok" ELSE "encoding"
  /\ flowStyle' = IF Below # <<>> /\ graph[Caller.node].kind = "struct"
                  THEN Caller.oldFlow ELSE flowStyle

-----------------------------------------------------------------------------
\* A scalar, a nil reference, an empty map or slice: written at once.
WriteLeaf ==
  /\ Entering(Kinds \ {"struct"}) /\ Val.elems = <<>>
  /\ Return
  /\ UNCHANGED <<graph, ptrLevel, ptrSeen, anchors, anchorNames, out>>

\* The error of a value that cannot be written: its type is not supported, or its
\* marshaler fails.
Refused == Panic /\ UNCHANGED <<graph, ptrLevel, anchors, anchorNames, flowStyle, out>>

RefuseValue == Entering({"scalar"}) /\ Val.elems = <<>> /\ Refused

\* interfaceEncoder: the value in the interface is encoded in its place.
OpenInterface ==
  /\ Entering({"interface"}) /\ Val.elems # <<>>
  /\ stack' = Append(Below, Call(Val.elems[1].to))
  /\ UNCHANGED <<graph, state, out, result>>

\* arrayEncoder and structEncoder
EnterCollection ==
  /\ Entering({"slice", "struct"}) /\ (Val.kind = "slice" => Val.elems # <<>>)
  /\ stack' = Append(Below, [Top EXCEPT !.next = 1, !.flow = flowStyle])
  /\ UNCHANGED <<graph, state, out, result>>

\* Mutant of EnterPointer: the pointer is not put into ptrSeen.
EnterPointerUnseen ==
  /\ Entering({"pointer", "map"}) /\ Val.elems # <<>>
  /\ ptrLevel' = ptrLevel + 1
  /\ IF ptrLevel' > CycleCheckAfter /\ Key(Top.node) \in ptrSeen THEN Panic
     ELSE /\ stack' = Append(Below, [Top EXCEPT !.next = 1, !.flow = flowStyle])
          /\ UNCHANGED <<ptrSeen, result>>
  /\ UNCHANGED <<graph, anchors, anchorNames, flowStyle, out>>

\* ptrEncoder and mapEncoder: past the threshold the path is checked for the pointer.
EnterPointer ==
  /\ Entering({"pointer", "map"}) /\ Val.elems # <<>>
  /\ ptrLevel' = ptrLevel + 1
  /\ LET entered == [Top EXCEPT !.next = 1, !.flow = flowStyle]
         k       == Key(Top.node)
     IN  \/ /\ ptrLevel' <= CycleCheckAfter
            /\ stack' = Append(Below, entered)
            /\ UNCHANGED <<ptrSeen, result>>
         \/ /\ ptrLevel' > CycleCheckAfter /\ k \in ptrSeen
            /\ Panic
         \/ /\ ptrLevel' > CycleCheckAfter /\ k \notin ptrSeen
            /\ stack' = Append(Below, [entered EXCEPT !.key = k])
            /\ ptrSeen' = ptrSeen \cup {k}
            /\ UNCHANGED result
  /\ UNCHANGED <<graph, anchors, anchorNames, flowStyle, out>>

-----------------------------------------------------------------------------
\* ptrEncoder and mapEncoder encode their elements without looking for anchors.
PointerElem ==
  /\ AtElem({"pointer", "map"})
  /\ stack' = Below \o <<Advance, Call(Elem.to)>>
  /\ UNCHANGED <<graph, state, out, result>>

\* resolveKeyName fails on a key of a map, which is in ptrSeen by then.
RefuseKey == AtElem({"map"}) /\ Top.next = 1 /\ Refused

\* Mutant of Anchored: the anchors of maps and slices are not looked up.
AnchoredPointer(n) == graph[n].kind = "pointer" /\ Ref(n) \in DOMAIN anchors

Anchored(n) == IsReference(n) /\ Ref(n) \in DOMAIN anchors

Alias(n)     == [is |-> "alias", name |-> anchors[Ref(n)], addr |-> Ref(n)]
Anchor(n, a) == [is |-> "anchor", name |-> a, addr |-> Ref(n)]

\* arrayEncoder writes an alias for an element that has an anchor.
SliceElem ==
  /\ AtElem({"slice"})
  /\ IF Anchored(Elem.to)
     THEN out' = Append(out, Alias(Elem.to)) /\ stack' = Append(Below, Advance)
     ELSE stack' = Below \o <<Advance, Call(Elem.to)>> /\ UNCHANGED out
  /\ UNCHANGED <<graph, state, result>>

\* encodeAlias: a field whose value has an anchor is written as its alias; an
\* alias option with another name is an error.
FieldAlias ==
  /\ AtElem({"struct"}) /\ Anchored(Elem.to)
  /\ IF Elem.alias \in {NoName, anchors[Ref(Elem.to)]}
     THEN /\ out' = Append(out, Alias(Elem.to))
          /\ stack' = Append(Below, Advance)
          /\ UNCHANGED <<ptrSeen, result>>
     ELSE Panic /\ UNCHANGED out
  /\ UNCHANGED <<graph, ptrLevel, anchors, anchorNames, flowStyle>>

\* uniqueAnchorName
UniqueName(base) ==
  LET free == {i \in 1..Len(Suffixes[base]) : Suffixes[base][i] \notin DOMAIN anchorNames}
  IN  IF free = {} THEN NoName
      ELSE Suffixes[base][CHOOSE i \in free : \A j \in free : i <= j]

\* Mutant of AnchorName: a name that is in use is used again.
AnchorNameTaken(addr, name) == IF addr = 0 THEN NoName ELSE name

\* The name storeAnchor gives to the value at addr, for the anchor option name
AnchorName(addr, name) ==
  IF addr = 0 THEN NoName
  ELSE IF name \in DOMAIN anchorNames /\ anchorNames[name] # addr THEN UniqueName(name)
  ELSE name

\* The value of a field is encoded, with f.flow in the flow style.
EncodeField ==
  /\ stack' = Below \o <<[Advance EXCEPT !.oldFlow = flowStyle], Call(Elem.to)>>
  /\ flowStyle' = (flowStyle \/ Elem.flow)
  /\ UNCHANGED <<ptrSeen, result>>

\* Mutant of FieldAnchor: the empty name is written.
FieldAnchorUnchecked ==
  /\ AtElem({"struct"}) /\ IsReference(Elem.to) /\ ~Anchored(Elem.to) /\ Elem.anchor # NoName
  /\ LET addr == Ref(Elem.to)
         name == AnchorName(addr, Elem.anchor)
     IN  /\ IF addr = 0 THEN UNCHANGED <<anchors, anchorNames>>
            ELSE anchors' = Store(anchors, addr, name) /\ anchorNames' = Store(anchorNames, name, addr)
         /\ EncodeField /\ out' = Append(out, Anchor(Elem.to, name))
  /\ UNCHANGED <<graph, ptrLevel>>

\* encodeAnchor and storeAnchor: the anchor option names a reference, and a nil
\* one, or a name used a hundred times, is an error.
FieldAnchor ==
  /\ AtElem({"struct"}) /\ IsReference(Elem.to) /\ ~Anchored(Elem.to) /\ Elem.anchor # NoName
  /\ LET addr == Ref(Elem.to)
         name == AnchorName(addr, Elem.anchor)
     IN  /\ IF addr = 0 THEN UNCHANGED <<anchors, anchorNames>>
            ELSE anchors' = Store(anchors, addr, name) /\ anchorNames' = Store(anchorNames, name, addr)
         /\ IF name = NoName
            THEN Panic /\ UNCHANGED <<flowStyle, out>>
            ELSE EncodeField /\ out' = Append(out, Anchor(Elem.to, name))
  /\ UNCHANGED <<graph, ptrLevel>>

FieldPlain ==
  /\ AtElem({"struct"}) /\ ~Anchored(Elem.to)
  /\ IsReference(Elem.to) => Elem.anchor = NoName
  /\ EncodeField
  /\ UNCHANGED <<graph, ptrLevel, anchors, anchorNames, out>>

-----------------------------------------------------------------------------
LeaveCollection ==
  /\ AtEnd({"slice", "struct"})
  /\ Return
  /\ UNCHANGED <<graph, ptrLevel, ptrSeen, anchors, anchorNames, out>>

\* Mutant of LeavePointer: the level is counted down at the end and in a deferred call.
LeavePointerTwice ==
  /\ AtEnd({"pointer", "map"})
  /\ Return
  /\ ptrSeen' = ptrSeen \ {Top.key}
  /\ ptrLevel' = ptrLevel - (IF Top.key # NoKey THEN 2 ELSE 1)
  /\ UNCHANGED <<graph, anchors, anchorNames, out>>

\* ptrEncoder counts its level down at the end; mapEncoder does so in a deferred call
\* that it makes only past the threshold.
LeavePointer ==
  /\ AtEnd({"pointer", "map"})
  /\ Return
  /\ ptrSeen' = ptrSeen \ {Top.key}
  /\ ptrLevel' = IF Val.kind = "pointer" \/ Top.key # NoKey THEN ptrLevel - 1 ELSE ptrLevel
  /\ UNCHANGED <<graph, anchors, anchorNames, out>>

Next ==
  \/ \E n \in Nodes, flow \in BOOLEAN : Marshal(n, flow)
  \/ WriteLeaf \/ OpenInterface \/ EnterCollection \/ EnterPointer
  \/ PointerElem \/ SliceElem \/ FieldAlias \/ FieldAnchor \/ FieldPlain
  \/ LeaveCollection \/ LeavePointer \/ RefuseValue \/ RefuseKey

Spec == Init /\ [][Next]_vars

-----------------------------------------------------------------------------
Frame == [node : Nodes, next : Nat, key : {NoKey} \cup ({"pointer", "map"} \X Nodes),
          flow : BOOLEAN, oldFlow : BOOLEAN]

Written == [is : {"anchor", "alias"}, name : Names, addr : Addresses]

TypeOK ==
  /\ graph \in [Nodes -> Value] /\ stack \in Seq(Frame)
  /\ ptrLevel \in Nat
  /\ \A k \in ptrSeen : k \in {"pointer", "map"} \X Nodes
  /\ \A a \in DOMAIN anchors : a \in Addresses /\ anchors[a] \in Names \cup {NoName}
  /\ \A n \in DOMAIN anchorNames : n \in Names \cup {NoName} /\ anchorNames[n] \in Addresses
  /\ flowStyle \in BOOLEAN /\ out \in Seq(Written)
  /\ result \in {"ready", "encoding", "ok", "error"}

\* anchors and anchorNames are inverse to each other: a value has one name and a name
\* one value.  storeAnchor alone does not see to that: it would give a second name to a
\* value that has one, if encodeAlias had not been asked first.
AnchorsInverse ==
  /\ \A a \in DOMAIN anchors :
       anchors[a] \in DOMAIN anchorNames /\ anchorNames[anchors[a]] = a
  /\ \A n \in DOMAIN anchorNames :
       anchorNames[n] \in DOMAIN anchors /\ anchors[anchorNames[n]] = n

\* An alias follows the anchor of its name, on the same value, and no two anchors of
\* a document have the same name: the text says which value an alias stands for.  The
\* anchored value need not have ended there; the decoder of this package knows an
\* anchor only when it has (decode.go:396).
AliasesResolve ==
  /\ \A i \in 1..Len(out) : out[i].is = "alias" =>
       \E j \in 1..(i - 1) : out[j] = [out[i] EXCEPT !.is = "anchor"]
  /\ \A i, j \in 1..Len(out) :
       out[i].is = "anchor" /\ out[j].is = "anchor" /\ out[i].name = out[j].name => i = j

\* ptrSeen holds what the encoders being run have put there, each its own key; so it is
\* empty when the encodeState is back in the pool ("ptrEncoder.encode should have
\* emptied ptrSeen via defers", encode.go:247), after an error too.
SeenIsPath ==
  /\ ptrSeen = Deferred \ {NoKey}
  /\ \A i, j \in 1..Len(stack) : stack[i].key = stack[j].key /\ stack[i].key # NoKey => i = j

\* ptrLevel is never less than the number of pointers and maps on the path: cycle
\* detection does not start late, and the unsigned level never wraps around.
PointersOnPath ==
  {i \in 1..Len(stack) : graph[stack[i].node].kind \in {"pointer", "map"} /\ stack[i].next > 0}

LevelCoversPath == ptrLevel >= Cardinality(PointersOnPath)

\* A collection ends in the style it has begun with: its closing bracket is written
\* exactly if its opening bracket was, whatever its fields turned on.
BracketsMatch == (AtElem(Kinds) \/ AtEnd(Kinds)) => flowStyle = Top.flow

\* Every cycle of a graph passes a pointer or a map: the other values can be ranked above
\* their elements.  It is not so for a slice that is its own element, which the cycle
\* check of ptrEncoder and mapEncoder never sees.
Ranks(g) ==
  {r \in [Nodes -> 0..(Cardinality(Nodes) - 1)] :
     \A n \in Nodes : g[n].kind \notin {"pointer", "map"} =>
       \A i \in 1..Len(g[n].elems) : r[g[n].elems[i].to] < r[n]}

\* "Passing cyclic structures to Marshal will result in an error" (encode.go:146): the
\* recursion ends before it has gone through the graph more often than the threshold
\* and every pointer of the graph allow.
RecursionIsBounded ==
  Len(stack) <= (CycleCheckAfter + Cardinality(Nodes) + 1) * Cardinality(Nodes)
===============================================================================
