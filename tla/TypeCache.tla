------------------------------- MODULE TypeCache -------------------------------
(***************************************************************************)
(* typeEncoder of encode.go: the encoders of types are built once and kept *)
(* in encoderCache, a sync.Map shared by all goroutines.  The encoder of a *)
(* type needs those of its element types, and types may be recursive: the  *)
(* cache is filled with an indirect function first, whose sync.OnceValue   *)
(* builds the encoder when it is called.  Each goroutine encodes one value *)
(* after another: it asks for the encoder of the type and calls it, and    *)
(* for that of the dynamic type where the walk meets an interface.         *)
(*                                                                         *)
(* Operations of sync.Map and sync.OnceValue are atomic steps; between two *)
(* of them any other goroutine may run.                                    *)
(***************************************************************************)
EXTENDS Naturals, Sequences, FiniteSets

CONSTANTS
  Goroutines,
  Types,
  Elems,       \* newTypeEncoder(t) asks for the encoders of Elems[t], in this order
  Interfaces,  \* the interface types, whose encoder is interfaceEncoder
  MaxDepth     \* bound on the depth of the encoded values

ASSUME ElemsAssumption == Elems \in [Types -> Seq(Types)]
ASSUME InterfacesAssumption == Interfaces \subseteq Types /\ \A t \in Interfaces : Elems[t] = <<>>
ASSUME DepthAssumption == MaxDepth \in Nat

VARIABLES
  cache,    \* encoderCache: the function stored for a type
  once,     \* the OnceValue objects, in the order of their creation
  stack     \* per goroutine, the calls it is in, outermost first

vars == <<cache, once, stack>>

(***************************************************************************)
(* An encoderFunc is the indirect function around a once object, or the    *)
(* encoder that object has built (direct).  A once object is for a type    *)
(* and ends up with the functions of the elements.                         *)
(***************************************************************************)
Missing     == [id |-> 0, direct |-> FALSE]
Indirect(o) == [id |-> o, direct |-> FALSE]
Direct(o)   == [id |-> o, direct |-> TRUE]
Func        == [id : 1..Len(once), direct : BOOLEAN]

OnceOf(t) == [type |-> t, state |-> "new", runs |-> 0, elems |-> <<>>]

(***************************************************************************)
(* A call on a stack.  "lookup": typeEncoder(type) before its Load;        *)
(* "store": before its LoadOrStore; "publish": before its Store; "once": a *)
(* call of the once object id; "build": in newTypeEncoder, with the        *)
(* functions it has so far; "encode": the function fn encodes a value, its *)
(* next element after next.                                                *)
(***************************************************************************)
Call(at, t, o) == [at |-> at, type |-> t, id |-> o, fn |-> Missing, elems |-> <<>>, next |-> 0]

Init ==
  /\ cache = [t \in Types |-> Missing]
  /\ once = <<>>
  /\ stack = [g \in Goroutines |-> <<>>]

Top(g)    == stack[g][Len(stack[g])]
At(g, at) == stack[g] # <<>> /\ Top(g).at = at

\* The calls below the innermost one
Below(g) == SubSeq(stack[g], 1, Len(stack[g]) - 1)

Become(g, calls) == stack' = [stack EXCEPT ![g] = Below(g) \o calls]

\* Mutants of Receive: the functions of the elements end up in reverse; an indirect
\* function goes on with itself in place of what its once object has built.
ReceiveItself(call, f) ==
  IF call.at = "build" THEN [call EXCEPT !.elems = Append(@, f)]
  ELSE IF call.fn = Missing THEN [call EXCEPT !.fn = f] ELSE call

ReceiveReversed(call, f) ==
  IF call.at = "build" THEN [call EXCEPT !.elems = <<f>> \o @] ELSE [call EXCEPT !.fn = f]

\* The innermost call returns the function f to the call below it.
Receive(call, f) ==
  IF call.at = "build" THEN [call EXCEPT !.elems = Append(@, f)] ELSE [call EXCEPT !.fn = f]

Return(g, f) ==
  LET n == Len(stack[g]) - 1
  IN  stack' = [stack EXCEPT ![g] = Append(SubSeq(@, 1, n - 1), Receive(@[n], f))]

\* reflectValue: the function of type t is asked for, and called.
ReflectValue(t) == <<Call("encode", t, 0), Call("lookup", t, 0)>>

\* What reflection calls the type of a value is never an interface.
Dynamic == Types \ Interfaces

\* marshal: the goroutine has a value of type t to encode.
Begin(g, t) ==
  /\ stack[g] = <<>>
  /\ stack' = [stack EXCEPT ![g] = ReflectValue(t)]
  /\ UNCHANGED <<cache, once>>

\* Mutant of Load: a function under construction is resolved at once.
LoadResolved(g) ==
  /\ At(g, "lookup")
  /\ LET t == Top(g).type
     IN  CASE cache[t] = Missing -> Become(g, <<Call("store", t, 0)>>)
           [] cache[t].direct    -> Return(g, cache[t])
           [] OTHER              -> Become(g, <<Call("once", t, cache[t].id)>>)
  /\ UNCHANGED <<cache, once>>

\* encoderCache.Load
Load(g) ==
  /\ At(g, "lookup")
  /\ LET t == Top(g).type
     IN  IF cache[t] # Missing THEN Return(g, cache[t]) ELSE Become(g, <<Call("store", t, 0)>>)
  /\ UNCHANGED <<cache, once>>

\* Mutants of LoadOrStore: Store, which has no loser; a once object that is not made;
\* what is stored does not wait for the build.
StoreAlways(g) ==
  /\ At(g, "store")
  /\ LET t == Top(g).type
         o == Len(once) + 1
     IN  /\ once' = Append(once, OnceOf(t))
         /\ cache' = [cache EXCEPT ![t] = Indirect(o)]
         /\ Become(g, <<Call("publish", t, o), Call("once", t, o)>>)

StoreNothing(g) ==
  /\ At(g, "store")
  /\ LET t == Top(g).type
         o == Len(once) + 1
     IN  /\ cache' = [cache EXCEPT ![t] = Indirect(o)]
         /\ Become(g, <<Call("publish", t, o), Call("once", t, o)>>)
  /\ UNCHANGED once

StoreUnbuilt(g) ==
  /\ At(g, "store") /\ cache[Top(g).type] = Missing
  /\ LET t == Top(g).type
         o == Len(once) + 1
     IN  /\ once' = Append(once, OnceOf(t))
         /\ cache' = [cache EXCEPT ![t] = Direct(o)]
         /\ Become(g, <<Call("publish", t, o), Call("once", t, o)>>)

\* sync.OnceValue and encoderCache.LoadOrStore: the loser drops its once object,
\* the winner calls its own.
LoadOrStore(g) ==
  /\ At(g, "store")
  /\ LET t == Top(g).type
         o == Len(once) + 1
     IN  IF cache[t] # Missing
         THEN Return(g, cache[t]) /\ UNCHANGED <<cache, once>>
         ELSE /\ once' = Append(once, OnceOf(t))
              /\ cache' = [cache EXCEPT ![t] = Indirect(o)]
              /\ Become(g, <<Call("publish", t, o), Call("once", t, o)>>)

\* indirect(): the first caller runs newTypeEncoder, ...
RunOnce(g) ==
  /\ At(g, "once") /\ once[Top(g).id].state = "new"
  /\ once' = [once EXCEPT ![Top(g).id].state = "running", ![Top(g).id].runs = @ + 1]
  /\ Become(g, <<Call("build", Top(g).type, Top(g).id)>>)
  /\ UNCHANGED cache

\* ... the others wait for it to be done.
AwaitOnce(g) ==
  /\ At(g, "once") /\ once[Top(g).id].state = "done"
  /\ Return(g, Direct(Top(g).id))
  /\ UNCHANGED <<cache, once>>

\* newTypeEncoder asks for the function of the next element; it does not call it.
BuildElem(g) ==
  /\ At(g, "build")
  /\ LET i == Len(Top(g).elems) + 1
     IN  /\ i <= Len(Elems[Top(g).type])
         /\ Become(g, <<Top(g), Call("lookup", Elems[Top(g).type][i], 0)>>)
  /\ UNCHANGED <<cache, once>>

FinishBuild(g) ==
  /\ At(g, "build") /\ Len(Top(g).elems) = Len(Elems[Top(g).type])
  /\ once' = [once EXCEPT ![Top(g).id].state = "done", ![Top(g).id].elems = Top(g).elems]
  /\ Return(g, Direct(Top(g).id))
  /\ UNCHANGED cache

\* encoderCache.Store(t, f)
Publish(g) ==
  /\ At(g, "publish")
  /\ cache' = [cache EXCEPT ![Top(g).type] = Top(g).fn]
  /\ Return(g, Top(g).fn)
  /\ UNCHANGED once

\* A call of an indirect function calls its once object, ...
CallIndirect(g) ==
  /\ At(g, "encode") /\ ~Top(g).fn.direct
  /\ Become(g, <<Top(g), Call("once", Top(g).type, Top(g).fn.id)>>)
  /\ UNCHANGED <<cache, once>>

\* ... and a direct one calls the functions of its elements where the value has
\* any: a pointer may be nil, a slice empty.
EncodeElem(g) ==
  /\ At(g, "encode") /\ Top(g).fn.direct
  /\ LET elems == once[Top(g).fn.id].elems
         i     == Top(g).next + 1
         here  == [Top(g) EXCEPT !.next = i]
         elem  == [Call("encode", Elems[Top(g).type][i], 0) EXCEPT !.fn = elems[i]]
     IN  /\ i <= Len(elems)
         /\ \/ Become(g, <<here>>)
            \/ Len(stack[g]) < MaxDepth /\ Become(g, <<here, elem>>)
  /\ UNCHANGED <<cache, once>>

\* An interface that is not nil holds a value of some type t, whose function is asked
\* for only now, in the middle of the walk.
EncodeInterface(g, t) ==
  /\ At(g, "encode") /\ Top(g).fn.direct
  /\ Top(g).type \in Interfaces /\ Top(g).next = 0
  /\ Len(stack[g]) < MaxDepth
  /\ Become(g, <<[Top(g) EXCEPT !.next = 1]>> \o ReflectValue(t))
  /\ UNCHANGED <<cache, once>>

EncodeEnd(g) ==
  /\ At(g, "encode") /\ Top(g).fn.direct
  /\ Top(g).next >= Len(once[Top(g).fn.id].elems)
  /\ Become(g, <<>>)
  /\ UNCHANGED <<cache, once>>

Step(g) ==
  \/ Load(g) \/ LoadOrStore(g) \/ RunOnce(g) \/ AwaitOnce(g) \/ BuildElem(g)
  \/ FinishBuild(g) \/ Publish(g) \/ CallIndirect(g) \/ EncodeElem(g) \/ EncodeEnd(g)
  \/ \E t \in Dynamic : EncodeInterface(g, t)

Next == \E g \in Goroutines : Step(g) \/ \E t \in Dynamic : Begin(g, t)

\* A goroutine that can go on does: the Go scheduler runs every runnable one.
Spec == Init /\ [][Next]_vars /\ \A g \in Goroutines : WF_vars(Step(g))

-----------------------------------------------------------------------------
TypeOK ==
  /\ cache \in [Types -> Func \cup {Missing}]
  /\ \A o \in 1..Len(once) :
       once[o] \in [type : Types, state : {"new", "running", "done"}, runs : Nat, elems : Seq(Func)]
  /\ \A g \in Goroutines : \A i \in 1..Len(stack[g]) :
       stack[g][i] \in [at : {"encode", "lookup", "store", "once", "build", "publish"},
                        type : Types, id : 0..Len(once), fn : Func \cup {Missing},
                        elems : Seq(Func), next : Nat]

\* The encoder of a type is built at most once, however many goroutines ask for it
\* at the same time and however the types refer to each other.
BuiltOnce ==
  /\ \A o \in 1..Len(once) : once[o].runs <= 1
  /\ \A o, p \in 1..Len(once) : once[o].type = once[p].type => o = p

\* What is called for a value encodes values of its type, and so does every
\* function an encoder was built with.
Encodes(f, t) == f # Missing => once[f.id].type = t

RightEncoder ==
  /\ \A t \in Types : Encodes(cache[t], t)
  /\ \A g \in Goroutines : \A i \in 1..Len(stack[g]) :
       stack[g][i].at = "encode" => Encodes(stack[g][i].fn, stack[g][i].type)
  /\ \A o \in 1..Len(once) : \A i \in 1..Len(once[o].elems) :
       Encodes(once[o].elems[i], Elems[once[o].type][i])

\* A direct encoder is stored, or called, only when it has been built.
Built(f) == f.direct => once[f.id].state = "done"

DirectIsBuilt ==
  /\ \A t \in Types : Built(cache[t])
  /\ \A g \in Goroutines : \A i \in 1..Len(stack[g]) : Built(stack[g][i].fn)

\* No goroutine waits, directly or through others, for a once object it runs
\* itself: sync.OnceValue would block it for ever.
Runs(g, o)  == \E i \in 1..Len(stack[g]) : stack[g][i].at = "build" /\ stack[g][i].id = o
Waits(g, o) == At(g, "once") /\ Top(g).id = o /\ once[o].state = "running"
WaitsFor(g, h) == \E o \in 1..Len(once) : Waits(g, o) /\ Runs(h, o)

NoWaitingCycle ==
  \A S \in (SUBSET Goroutines) \ {{}} :
    \E g \in S : \A h \in S : ~WaitsFor(g, h)

\* Every call of an encoder comes to an end.
CallsReturn == \A g \in Goroutines : stack[g] # <<>> ~> stack[g] = <<>>
===============================================================================
