-------------------------------- MODULE Parser --------------------------------
(***************************************************************************)
(* Unmarshal: checkValid scans the whole text, and decodeState scans one   *)
(* document of it again while it builds a value.  calls is the stack of Go *)
(* calls of value, array and object (with a target type) and of            *)
(* valueInterface, arrayInterface and objectInterface (iface, in the code  *)
(* for an empty interface).  One action is the code between two of those   *)
(* calls; ret is what the last call that returned has returned.            *)
(***************************************************************************)
EXTENDS ParserOps, Values

\* What becomes of a literal is not the concern of this module: Literals has what the
\* code does.  The results are records of a value and how the call ended.
CONSTANTS
  ZeroOf(_),               \* v.SetZero: from a type to its value
  StoreLiteral(_, _, _),   \* storeLiteral: the anchors, a text, the type of the target
  LiteralInterface(_, _),  \* literalInterface: the anchors, a text
  Unquote(_)               \* unquote

CONSTANT Inputs   \* records: the text, and the type of the target

ASSUME InputsAssumption == \A i \in Inputs : i.text \in Seq(Byte) /\ Kind(i.type) \in Kinds

VARIABLES
  input,    \* the arguments of Unmarshal
  d,        \* the decodeState
  calls,    \* the calls that have not returned, the innermost last
  ret,      \* the value last returned
  outcome   \* "called", "running", "ok", "error", "panic" or "invalid"

vars == <<input, d, calls, ret, outcome>>

Init ==
  /\ input \in Inputs /\ d = NewState(<<>>) /\ calls = <<>> /\ ret = Nil
  /\ outcome = "called"

-----------------------------------------------------------------------------
(***************************************************************************)
(* Calls.  type is the type of the target, AnyType for the code for an     *)
(* empty interface.  acc is the collection so far.                         *)
(***************************************************************************)
ValueCall(type, iface) ==
  [fn |-> "value", at |-> "begin", type |-> type, iface |-> iface,
   depth |-> 0, anchor |-> <<>>, key |-> <<>>, acc |-> Nil]

\* array and object with a target that is an empty interface are the code for it.
LoopCall(fn, type, iface, depth, acc) ==
  [fn |-> fn, at |-> "head", type |-> type, iface |-> iface,
   depth |-> depth, anchor |-> <<>>, key |-> <<>>, acc |-> acc]

Top     == calls[Len(calls)]
Callers == SubSeq(calls, 1, Len(calls) - 1)
Runs(fn, at) == outcome = "running" /\ calls # <<>> /\ Top.fn = fn /\ Top.at = at

\* The running call goes on to state "at", and calls c.
Call(e, frame, c) ==
  /\ d' = e /\ calls' = Callers \o <<frame, c>> /\ UNCHANGED <<input, ret, outcome>>

Continue(e, frame) ==
  /\ d' = e /\ calls' = Append(Callers, frame) /\ UNCHANGED <<input, ret, outcome>>

\* The running call returns val.
Return(e, val) ==
  /\ d' = e /\ ret' = val /\ calls' = Callers /\ UNCHANGED input
  /\ outcome' = IF Callers # <<>> THEN outcome ELSE IF e.savedError THEN "error" ELSE "ok"

\* An error goes through all calls; a panic is recovered by unmarshal.
Abort(e, how) ==
  /\ d' = e /\ calls' = <<>> /\ UNCHANGED <<input, ret>>
  /\ outcome' = IF how = "panic" THEN "panic" ELSE "error"

\* What a call returns: the state after it, a value, and how it ended.
Ends(e, val, how) == [d |-> e, val |-> val, how |-> how]

\* The result r of a literal, in state e
EndsWith(e, r) ==
  IF r.how = "saved" THEN Ends(SaveError(e), r.val, "ok") ELSE Ends(e, r.val, r.how)

ReturnOf(r) == IF r.how = "ok" THEN Return(r.d, r.val) ELSE Abort(r.d, r.how)

\* Unmarshal
Unmarshal ==
  /\ outcome = "called"
  /\ IF ~checkValid(input.text)
     THEN outcome' = "invalid" /\ UNCHANGED <<input, d, calls, ret>>
     ELSE /\ d' = scanWhile(NewState(Document(input.text)), "SkipSpace")
          /\ calls' = <<ValueCall(input.type, FALSE)>>
          /\ outcome' = "running" /\ UNCHANGED <<input, ret>>

-----------------------------------------------------------------------------
(***************************************************************************)
(* value and valueInterface.                                               *)
(***************************************************************************)
Scanned(f) ==
  IF d.opcode = "BeginLiteral" /\ (f.iface => InBlock(d.scan)) THEN quickScan(d) ELSE d

Anchor(f) ==
  IF d.opcode = "BeginLiteral" /\ (f.iface => InBlock(d.scan)) THEN QuickAnchor(d) ELSE <<>>

\* The deferred function stores the anchor; without a target there is nothing to
\* store.
Anchored(f, e, val) ==
  CASE f.anchor = <<>> -> e
    [] f.anchor # <<>> /\ f.type = Invalid -> SaveError(e)
    [] OTHER ->
         [e EXCEPT !.anchors =
            Put(@, f.anchor, [type |-> IF f.iface THEN ConcreteType(val) ELSE f.type, val |-> val])]

ReturnAnchored(f, r) == ReturnOf([r EXCEPT !.d = Anchored(f, r.d, r.val)])

\* After a collection, or after what was skipped: the closing bracket.
Closing == [array |-> "]", object |-> "}"]

PastBracket(e, fn) ==
  IF ByteIsIn(e) /\ LastByte(e) = Closing[fn] THEN scanNext(e) ELSE e

\* What array and object can be called with; other targets save an error and skip.
Holds(fn, type) ==
  Kind(type) \in IF fn = "array" THEN {"any", "slice", "array"} ELSE {"any", "mapping", "struct"}

\* Mutant of EmptyAcc: a nil map is not made before it is filled.
EmptyAccNil(fn, type) == IF fn = "array" THEN List(<<>>) ELSE ZeroOf(type)

\* The target is new: what a repeated key of a struct has stored is not filled further.
EmptyAcc(fn, type) ==
  CASE fn = "array"   -> List(<<>>)
    [] fn = "object" -> IF Kind(type) # "struct" THEN Mapping(<<>>)
                       ELSE Mapping([name \in DOMAIN type[2] |-> ZeroOf(type[2][name])])

\* Mutant of LoopDepth: a flow collection too.
LoopDepthAlways(fn, e) == Depth(e) + 1

\* A block collection pushes its frame after its first key or "- ".
LoopDepth(fn, e) ==
  IF fn = "array" /\ LastState(e.scan) # "FlowArrayValue" THEN Depth(e) + 1 ELSE Depth(e)

\* What is skipped for want of a target is no error.
Skipped(f, e) == IF f.type = Invalid THEN e ELSE SaveError(e)

\* skip goes back a byte at the end of the data: of one byte, and the bracket after
\* the collection is looked for at index -1.
PastSkipped(f, e, fn) ==
  Ends(PastBracket(Skipped(f, e), fn), ZeroOf(f.type), IF e.off = 0 THEN "panic" ELSE "ok")

BeginCollection(f, fn, e) ==
  IF Holds(fn, f.type)
  THEN Call(e, [f EXCEPT !.at = fn],
            LoopCall(fn, f.type, f.type = AnyType, LoopDepth(fn, e), EmptyAcc(fn, f.type)))
  ELSE \E t \in {skip(e)} : ReturnAnchored(f, PastSkipped(f, t, fn))

\* The literal is scanned again, and is its text; without a target it is dropped.
StoreItem(f, r, item) ==
  CASE f.iface -> EndsWith(r, LiteralInterface(r.anchors, item))
    [] ~f.iface /\ f.type = Invalid -> Ends(r, Nil, "ok")
    [] OTHER -> EndsWith(r, StoreLiteral(r.anchors, item, f.type))

BeginLiteral(f, e) ==
  \E r \in {rescanLiteral(e)} : \E result \in {StoreItem(f, r, Item(e, r))} : ReturnAnchored(f, result)

ValueBegin ==
  /\ Runs("value", "begin")
  /\ \E e \in {Scanned(Top)} : \E f \in {[Top EXCEPT !.anchor = Anchor(Top)]} :
       CASE e.opcode = "End" -> ReturnAnchored(f, Ends(e, ZeroOf(f.type), "ok"))
         [] e.opcode = "BeginArray" -> BeginCollection(f, "array", e)
         [] e.opcode \in {"BeginObject", "ObjectKey"} -> BeginCollection(f, "object", e)
         [] e.opcode = "BeginLiteral" -> BeginLiteral(f, e)
         [] e.opcode = "ObjectValue" /\ ~f.iface ->
              ReturnAnchored(f, Ends(e, ZeroOf(f.type), "ok"))
         [] OTHER -> Abort(e, IF f.type = Invalid THEN "panic" ELSE "error")

\* The collection the call has begun is complete.
ValueEnd ==
  /\ \E fn \in DOMAIN Closing :
       /\ Runs("value", fn)
       /\ ReturnAnchored(Top, Ends(PastBracket(d, fn), ret, "ok"))

-----------------------------------------------------------------------------
(***************************************************************************)
(* array and arrayInterface.                                               *)
(***************************************************************************)
\* Mutant of Ended: the end of the text ends nothing.
EndedByBracket(e, end) == e.opcode = end

\* The collection is over, by its bracket or with the text.
Ended(e, end) == e.opcode \in {end, "End"}

EndsArray(e, f) == Ended(e, "EndArray") \/ Depth(e) < f.depth

\* The elements of an array that were not met are zero; a slice or an array has no
\* elements but those.
ArrayValue(f) ==
  IF Kind(f.type) = "array"
  THEN List([i \in 1..f.type[3] |-> IF i <= Len(f.acc[2]) THEN f.acc[2][i] ELSE ZeroOf(f.type[2])])
  ELSE f.acc

ElementType(f) ==
  CASE f.iface -> AnyType
    [] ~f.iface /\ Kind(f.type) = "array" /\ Len(f.acc[2]) >= f.type[3] -> Invalid
    [] OTHER -> f.type[2]

\* Mutant of HyphenAgain: a "- " that follows a block literal is a value.
HyphenAgainNever(f) == d

\* After a block literal a "- " has been scanned as a literal (array only).
HyphenAgain(f) ==
  IF ~f.iface /\ LastState(d.scan) = "ArrayValue" /\ d.opcode = "BeginLiteral" /\ LastByte(d) = "-"
  THEN quickScan(d) ELSE d

\* Mutant of ToElement: what begins the array is read again as its element.
ToElementNot(e) == e

\* Past the "- ", bracket or comma
ToElement(e) ==
  IF e.opcode \in {"BeginArray", "ArrayValue"} \/ LastState(e.scan) = "FlowArrayValue"
  THEN scanWhile(e, "SkipSpace") ELSE e

ArrayNext ==
  /\ Runs("array", "head")
  /\ \E e \in {ToElement(HyphenAgain(Top))} :
       IF EndsArray(e, Top) THEN Return(e, ArrayValue(Top))
       ELSE Call(e, [Top EXCEPT !.at = "stored"], ValueCall(ElementType(Top), Top.iface))

\* The test after an element
LastElement(e, f) ==
  \/ Ended(e, "EndArray")
  \/ IF f.iface THEN Depth(e) < f.depth ELSE LastState(e.scan) \notin {"ArrayValue", "FlowArrayValue"}

ArrayStored ==
  /\ Runs("array", "stored")
  /\ \E e \in {PastSpace(d)} :
     \E f \in {[Top EXCEPT !.at = "head", !.acc = List(Append(@[2], ret))]} :
       IF LastElement(e, f) THEN Return(e, ArrayValue(f)) ELSE Continue(e, f)

-----------------------------------------------------------------------------
(***************************************************************************)
(* object and objectInterface.                                             *)
(***************************************************************************)
EndsObject(e, depth) == Ended(e, "EndObject") \/ Depth(e) < depth

\* The text of a key.  An alias is one by its first byte, in objectInterface before
\* the quotes are taken off, in object after.  fmt writes an anchored value.
Formatted(val) == IF val[1] \in {"str", "num"} THEN val[2] ELSE <<"%v">>

UnquotedKey(e, item) == Ends(e, Unquote(item).val[2], Unquote(item).how)

InterfaceKey(e, item) ==
  CASE item = <<>> -> Ends(e, <<>>, "panic")
    [] item # <<>> /\ item[1] = "*" ->
         IF Tail(item) \in DOMAIN e.anchors THEN Ends(e, Formatted(e.anchors[Tail(item)].val), "ok")
         ELSE Ends(e, <<>>, "error")
    [] OTHER -> UnquotedKey(e, item)

Key(f, e, item) == IF f.iface THEN InterfaceKey(e, item) ELSE UnquotedKey(e, item)

FieldType(f, key) ==
  CASE Kind(f.type) = "any" -> AnyType
    [] Kind(f.type) = "mapping" -> f.type[2]
    [] Kind(f.type) = "struct" /\ key \in DOMAIN f.type[2] -> f.type[2][key]
    [] OTHER -> Invalid

\* In a map the key of an alias is the anchored value itself, and nothing is stored
\* for a key without text, unless it is quoted.
With(acc, key, val) == Mapping(Put(acc[2], key, val))

Stored(f, e, val) ==
  CASE Kind(f.type) = "struct" ->
         IF f.key.text \in DOMAIN f.type[2] THEN Ends(e, With(f.acc, f.key.text, val), "ok")
         ELSE Ends(e, f.acc, "ok")
    [] Kind(f.type) = "mapping" /\ f.key.text = <<>> ->
         Ends(e, IF f.key.quoted THEN With(f.acc, <<>>, val) ELSE f.acc, "ok")
    [] Kind(f.type) = "mapping" /\ f.key.text # <<>> /\ f.key.text[1] = "*" ->
         LET name == Tail(f.key.text)
         IN  IF name \notin DOMAIN e.anchors THEN Ends(e, f.acc, "error")
             ELSE CASE e.anchors[name].type = Invalid -> Ends(e, f.acc, "ok")
                    [] e.anchors[name].type = StringType ->
                         Ends(e, With(f.acc, e.anchors[name].val[2], val), "ok")
                    [] OTHER -> Ends(e, f.acc, "panic")
    [] OTHER -> Ends(e, With(f.acc, f.key.text, val), "ok")

\* The loop goes on after a value: in object the frame of the scanner as it was at
\* the ':' must still be there.
AfterValue(f, e, val) ==
  \E r \in {Stored(f, e, val)} : \E s \in {PastSpace(r.d)} :
    CASE r.how # "ok" -> Abort(r.d, r.how)
      [] r.how = "ok" /\ EndsObject(s, f.depth) -> Return(s, r.val)
      [] OTHER -> Continue(s, [f EXCEPT !.at = "head", !.acc = r.val])

\* Read ':' before the value.
NoValue(f, c, v) ==
  \/ Depth(v) < Depth(c)
  \/ ~f.iface /\ Depth(v) = Depth(c) /\ LastState(v.scan) = "ObjectKey"

\* c is the state at the ':' and v after it.  An empty value ends objectInterface.
ReadValue(f, c, v, type) ==
  CASE NoValue(f, c, v) /\ type = Invalid -> Abort(v, "panic")
    [] NoValue(f, c, v) /\ f.iface -> Return(v, With(f.acc, f.key.text, Nil))
    [] NoValue(f, c, v) /\ ~f.iface /\ type # Invalid ->
         AfterValue([f EXCEPT !.depth = Depth(c)], v, ZeroOf(type))
    [] OTHER -> Call(v, [f EXCEPT !.depth = Depth(c), !.at = "stored"], ValueCall(type, f.iface))

ReadColon(f, e) ==
  \E c \in {PastSpace(e)} :
    IF c.opcode \in {"ObjectKey"} \cup IF f.iface THEN {} ELSE {"End"}
    THEN \E v \in {scanWhile(c, "SkipSpace")} : ReadValue(f, c, v, FieldType(f, f.key.text))
    ELSE Abort(c, IF ByteIsIn(c) THEN "error" ELSE "panic")

\* One turn of the loop up to the value
ReadItem(f, e, item) ==
  \E key \in {Key(f, e, item)} :
    IF key.how # "ok" THEN Abort(e, key.how)
    ELSE ReadColon([f EXCEPT !.key = [text |-> key.val, quoted |-> item # <<>> /\ item[1] \in {"dq", "sq"}]], e)

ReadKey(f, e) ==
  CASE f.iface /\ e.opcode \notin {"BeginLiteral", "BeginObject", "ObjectKey"} -> Abort(e, "error")
    [] ~ByteIsIn(e) -> Abort(e, "panic")
    [] OTHER -> \E r \in {rescanLiteral(e)} : ReadItem(f, r, Item(e, r))

ObjectNext ==
  /\ Runs("object", "head")
  /\ IF ~ByteIsIn(d) THEN Abort(d, "panic")
     ELSE \E e \in {IF LastByte(d) \in {",", "{", "}"} \cup White THEN scanWhile(d, "SkipSpace") ELSE d} :
            IF EndsObject(e, Depth(d)) THEN Return(e, Top.acc) ELSE ReadKey(Top, e)

ObjectStored == Runs("object", "stored") /\ AfterValue(Top, d, ret)

Next ==
  \/ Unmarshal \/ ValueBegin \/ ValueEnd \/ ArrayNext \/ ArrayStored \/ ObjectNext \/ ObjectStored

Spec == Init /\ [][Next]_vars

-----------------------------------------------------------------------------
(***************************************************************************)
(* Properties                                                              *)
(***************************************************************************)
Collections == {i \in DOMAIN calls : calls[i].fn \in {"array", "object"}}

\* The calls alternate between value and a loop, the read index stays in the text,
\* and what has been collected is a value of the kind the call returns.
TypeOK ==
  /\ d.off \in 0..(Len(d.data) + 1)
  /\ \A i \in DOMAIN calls :
       /\ calls[i].fn = "value" <=> i % 2 = 1
       /\ calls[i].fn = "array"  => calls[i].acc[1] = "list"
       /\ calls[i].fn = "object" => calls[i].acc[1] = "map"
       /\ i < Len(calls) => calls[i].at = IF i % 2 = 1 THEN calls[i + 1].fn ELSE "stored"
  /\ calls = <<>> <=> outcome # "running"

\* Each call of array or object that is running has taken a byte of the text: the
\* recursion of the decoder ends, and is no deeper than the text is long.  (The limit
\* on the stack of the scanner is no bound for it: NestingIsLimited in ParserClaims.)
RecursionFollowsText == outcome = "running" => Cardinality(Collections) <= d.off

\* An element of an array has taken a byte of the text: no turn of the loops of
\* array and arrayInterface reads nothing, so they end and the target is no longer
\* than the text.
ElementsWereRead ==
  \A i \in Collections : calls[i].fn = "array" => Len(calls[i].acc[2]) <= d.off

\* Unmarshal reports success only when the value it has built stands for the whole
\* document: value returns at the end of the data, with nothing left unread.  (A
\* typed target may skip, and skip sets the read index back by a byte.  It is said of
\* texts without comments and explicit types: README, "Known limits".)
NothingUnread ==
  outcome = "ok" /\ input.type = AnyType => d.off > Len(d.data) \/ d.opcode = "End"
===============================================================================
