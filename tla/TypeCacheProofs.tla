---------------------------- MODULE TypeCacheProofs ----------------------------
(***************************************************************************)
(* Theorems about the cache of type encoders, for any set of goroutines,   *)
(* any types, however they refer to each other, and values of any depth.   *)
(*                                                                         *)
(* Inv says what the functions in the cache, in the once objects and on    *)
(* the stacks of the goroutines are, and which call may stand on which.    *)
(* The once objects only grow (Grows), so what a goroutine knows of them   *)
(* stays true while the others run.                                        *)
(***************************************************************************)
EXTENDS TypeCache, SequenceFacts

AnyFunc == [id : Nat, direct : BOOLEAN]
Places  == {"encode", "lookup", "store", "once", "build", "publish"}
AnyCall == [at : Places, type : Types, id : Nat, fn : AnyFunc, elems : Seq(AnyFunc), next : Nat]
AnyOnce == [type : Types, state : {"new", "running", "done"}, runs : Nat, elems : Seq(AnyFunc)]

\* f encodes values of type t; if it is an encoder, the encoder has been built.
Good(f, t, oo) ==
  /\ f.id \in 1..Len(oo) /\ oo[f.id].type = t
  /\ f.direct => oo[f.id].state = "done"

\* The functions of the first elements of type t
GoodElems(e, t, oo) ==
  /\ Len(e) <= Len(Elems[t])
  /\ \A i \in 1..Len(e) : Good(e[i], Elems[t][i], oo)

GoodOnce(x, oo) ==
  /\ x.runs <= 1 /\ (x.state = "new" => x.runs = 0)
  /\ GoodElems(x.elems, x.type, oo)

GoodCall(c, oo) ==
  /\ c.id <= Len(oo)
  /\ c.fn = Missing \/ Good(c.fn, c.type, oo)
  /\ c.at \in {"once", "build"} => c.id \in 1..Len(oo) /\ oo[c.id].type = c.type
  /\ GoodElems(c.elems, c.type, oo)

\* The call d was made by the call c.
Over(c, d) ==
  /\ c.at \in {"encode", "build", "publish"}
  /\ c.at = "encode" => IF d.at = "encode" THEN c.fn # Missing ELSE d.type = c.type
  /\ c.at = "publish" => d.at \in {"once", "build"} /\ d.type = c.type
  /\ c.at = "build" => /\ d.at \in {"lookup", "store", "publish"}
                       /\ Len(c.elems) < Len(Elems[c.type])
                       /\ d.type = Elems[c.type][Len(c.elems) + 1]

\* Values are encoded below everything else, and the once object that a call on top
\* runs, or waits for, is younger than those that are run below it.
Ordered(c, d) ==
  /\ d.at = "encode" => c.at = "encode"
  /\ c.at \in {"once", "build"} /\ d.at \in {"once", "build"} => c.id < d.id

Calls(st, oo) ==
  /\ \A i \in 1..Len(st) : GoodCall(st[i], oo)
  /\ st # <<>> => st[1].at = "encode"
  /\ \A i \in 1..(Len(st) - 1) : Over(st[i], st[i + 1])
  /\ \A i, j \in 1..Len(st) : i < j => Ordered(st[i], st[j])

\* A call that can go on has the function it needs.
Supplied(c) == c.at \in {"encode", "publish"} => c.fn # Missing

GoodStack(st, oo) == Calls(st, oo) /\ (st # <<>> => Supplied(st[Len(st)]))

GoodCache(ca, oo) == \A t \in Types : ca[t] = Missing \/ Good(ca[t], t, oo)

GoodOnces(oo, ca) ==
  /\ \A o \in 1..Len(oo) : GoodOnce(oo[o], oo) /\ ca[oo[o].type] # Missing
  /\ \A o, p \in 1..Len(oo) : oo[o].type = oo[p].type => o = p

\* The inductive invariant
Typed ==
  /\ once \in Seq(AnyOnce)
  /\ cache \in [Types -> AnyFunc]
  /\ stack \in [Goroutines -> Seq(AnyCall)]

Inv ==
  /\ Typed
  /\ GoodOnces(once, cache)
  /\ GoodCache(cache, once)
  /\ \A g \in Goroutines : GoodStack(stack[g], once)

-----------------------------------------------------------------------------
(***************************************************************************)
(* The once objects grow.                                                  *)
(***************************************************************************)
Grows(oo, pp) ==
  /\ Len(oo) \in Nat /\ Len(pp) \in Nat /\ Len(oo) <= Len(pp)
  /\ \A o \in 1..Len(oo) : /\ pp[o].type = oo[o].type
                           /\ oo[o].state = "done" => pp[o].state = "done"

\* A function stays good, ...
LEMMA GoodGrows ==
  ASSUME NEW oo, NEW pp, Grows(oo, pp), NEW f, NEW t, Good(f, t, oo)
  PROVE  Good(f, t, pp)
BY DEF Good, Grows

\* ... and so do the functions of the elements ...
LEMMA ElemsGrow ==
  ASSUME NEW oo, NEW pp, Grows(oo, pp), NEW e, NEW t, GoodElems(e, t, oo)
  PROVE  GoodElems(e, t, pp)
BY GoodGrows DEF GoodElems

\* ... and the calls of a goroutine.
LEMMA StackGrows ==
  ASSUME NEW oo, NEW pp, Grows(oo, pp), NEW st \in Seq(AnyCall), GoodStack(st, oo)
  PROVE  GoodStack(st, pp)
<1>1. ASSUME NEW c \in AnyCall, GoodCall(c, oo) PROVE GoodCall(c, pp)
  <2>1. c.id <= Len(oo) => c.id <= Len(pp)
    BY DEF AnyCall, Grows
  <2>2. c.id \in 1..Len(oo) /\ oo[c.id].type = c.type
          => c.id \in 1..Len(pp) /\ pp[c.id].type = c.type
    BY DEF Grows
  <2>3. c.fn = Missing \/ Good(c.fn, c.type, pp)
    BY <1>1, GoodGrows DEF GoodCall
  <2>4. GoodElems(c.elems, c.type, pp)
    BY <1>1, ElemsGrow DEF GoodCall
  <2>. QED
    BY <1>1, <2>1, <2>2, <2>3, <2>4 DEF GoodCall
<1>2. \A i \in 1..Len(st) : st[i] \in AnyCall
  BY ElementOfSeq
<1>. QED
  BY <1>1, <1>2 DEF GoodStack, Calls

-----------------------------------------------------------------------------
(***************************************************************************)
(* The stack of a goroutine.                                               *)
(***************************************************************************)
\* What is below the innermost call
LEMMA BelowCalls ==
  ASSUME NEW st \in Seq(AnyCall), NEW oo, Calls(st, oo), NEW n \in 0..Len(st)
  PROVE  /\ SubSeq(st, 1, n) \in Seq(AnyCall) /\ Len(SubSeq(st, 1, n)) = n
         /\ \A i \in 1..n : SubSeq(st, 1, n)[i] = st[i] /\ st[i] \in AnyCall
         /\ Calls(SubSeq(st, 1, n), oo)
<1>. DEFINE b == SubSeq(st, 1, n)
<1>1. Len(st) \in Nat /\ n \in Nat /\ n <= Len(st)
  BY LenProperties
<1>2. \A i \in 1..n : i \in 1..Len(st) /\ st[i] \in AnyCall
  BY <1>1, ElementOfSeq
<1>3. b \in Seq(AnyCall) /\ Len(b) = n /\ \A i \in 1..n : b[i] = st[i]
  BY <1>1, <1>2, SubSeqProperties
<1>. HIDE DEF b
<1>4. b # <<>> => n >= 1
  BY <1>1, <1>3
<1>5. n >= 1 => st # <<>> /\ 1 \in 1..n
  BY <1>1
<1>6. \A i \in 1..(n - 1) : i \in 1..n /\ i + 1 \in 1..n /\ i \in 1..(Len(st) - 1)
  BY <1>1
<1>7. Calls(b, oo)
  BY <1>2, <1>3, <1>4, <1>5, <1>6 DEF Calls
<1>. QED
  BY <1>2, <1>3, <1>7 DEF b

\* A call is made.
LEMMA PushCall ==
  ASSUME NEW st \in Seq(AnyCall), NEW oo, Calls(st, oo), NEW c \in AnyCall, GoodCall(c, oo),
         st = <<>> => c.at = "encode",
         st # <<>> => Over(st[Len(st)], c),
         \A i \in 1..Len(st) : Ordered(st[i], c)
  PROVE  /\ Append(st, c) \in Seq(AnyCall) /\ Calls(Append(st, c), oo)
         /\ Append(st, c) # <<>> /\ Len(Append(st, c)) = Len(st) + 1
         /\ \A i \in 1..Len(st) : Append(st, c)[i] = st[i]
         /\ Append(st, c)[Len(st) + 1] = c
         /\ Append(st, c)[Len(Append(st, c))] = c
<1>. DEFINE q == Append(st, c)
<1>1. /\ q \in Seq(AnyCall) /\ q # <<>> /\ Len(q) = Len(st) + 1
      /\ \A i \in 1..Len(st) : q[i] = st[i]
      /\ q[Len(st) + 1] = c
  BY AppendProperties
<1>2. Len(st) \in Nat
  BY LenProperties
<1>. HIDE DEF q
<1>3. \A i \in 1..Len(q) : i \in 1..Len(st) \/ i = Len(st) + 1
  BY <1>1, <1>2
<1>4. \A i \in 1..Len(q) : GoodCall(q[i], oo)
  BY <1>1, <1>3 DEF Calls
<1>5. q[1].at = "encode"
  <2>1. CASE st = <<>>
    BY <1>1, <1>2, <2>1
  <2>2. CASE st # <<>>
    <3>1. 1 \in 1..Len(st)
      BY <2>2, <1>2, EmptySeq
    <3>. QED
      BY <2>2, <3>1, <1>1 DEF Calls
  <2>. QED
    BY <2>1, <2>2
<1>6. ASSUME NEW i \in 1..(Len(q) - 1) PROVE Over(q[i], q[i + 1])
  <2>1. i \in 1..Len(st) /\ st # <<>>
    BY <1>1, <1>2
  <2>2. CASE i = Len(st)
    BY <1>1, <2>1, <2>2
  <2>3. CASE i # Len(st)
    <3>1. i \in 1..(Len(st) - 1) /\ i + 1 \in 1..Len(st)
      BY <1>2, <2>1, <2>3
    <3>. QED
      BY <1>1, <2>1, <3>1 DEF Calls
  <2>. QED
    BY <2>2, <2>3
<1>7. ASSUME NEW i \in 1..Len(q), NEW j \in 1..Len(q), i < j PROVE Ordered(q[i], q[j])
  <2>1. i \in 1..Len(st)
    BY <1>1, <1>2, <1>7
  <2>2. CASE j \in 1..Len(st)
    BY <1>1, <1>7, <2>1, <2>2 DEF Calls
  <2>3. CASE j = Len(st) + 1
    BY <1>1, <2>1, <2>3
  <2>. QED
    BY <1>3, <2>2, <2>3
<1>8. Calls(q, oo)
  BY <1>4, <1>5, <1>6, <1>7 DEF Calls
<1>. QED
  BY <1>1, <1>8 DEF q

\* What is known of the innermost call and of the one that made it
LEMMA Innermost ==
  ASSUME NEW st \in Seq(AnyCall), NEW oo, Calls(st, oo), st # <<>>
  PROVE  LET n == Len(st)
         IN  /\ n \in Nat /\ n >= 1 /\ n - 1 \in 0..n /\ n \in 1..n
             /\ st[n] \in AnyCall /\ GoodCall(st[n], oo)
             /\ n = 1 => st[n].at = "encode"
             /\ n > 1 => /\ n - 1 \in 1..n /\ st[n - 1] \in AnyCall
                         /\ Over(st[n - 1], st[n])
             /\ \A i \in 1..(n - 1) : i \in 1..n /\ Ordered(st[i], st[n])
<1>. DEFINE n == Len(st)
<1>1. n \in Nat /\ n >= 1
  BY EmptySeq
<1>. HIDE DEF n
<1>2. n \in 1..n /\ n - 1 \in 0..n
  BY <1>1
<1>3. st[n] \in AnyCall /\ GoodCall(st[n], oo)
  BY <1>2, ElementOfSeq DEF Calls, n
<1>4. n = 1 => st[n].at = "encode"
  BY DEF Calls, n
<1>5. n > 1 => n - 1 \in 1..n /\ n - 1 \in 1..(n - 1) /\ (n - 1) + 1 = n
  BY <1>1
<1>6. n > 1 => st[n - 1] \in AnyCall
  BY <1>5, ElementOfSeq DEF n
<1>7. n > 1 => Over(st[n - 1], st[n])
  BY <1>5 DEF Calls, n
<1>8. \A i \in 1..(n - 1) : i \in 1..n /\ i < n
  BY <1>1
<1>9. \A i \in 1..(n - 1) : Ordered(st[i], st[n])
  BY <1>2, <1>8 DEF Calls, n
<1>. QED
  BY <1>1, <1>2, <1>3, <1>4, <1>5, <1>6, <1>7, <1>8, <1>9 DEF n

\* The innermost call is replaced by another one, ...
LEMMA ReplaceCall ==
  ASSUME NEW st \in Seq(AnyCall), NEW oo, Calls(st, oo), st # <<>>,
         NEW c \in AnyCall, GoodCall(c, oo),
         Len(st) = 1 => c.at = "encode",
         Len(st) > 1 => Over(st[Len(st) - 1], c),
         \A i \in 1..(Len(st) - 1) : Ordered(st[i], c)
  PROVE  LET b == SubSeq(st, 1, Len(st) - 1) q == b \o <<c>>
         IN  /\ b \in Seq(AnyCall) /\ q = Append(b, c)
             /\ q \in Seq(AnyCall) /\ Calls(q, oo) /\ q # <<>>
             /\ Len(q) = Len(st) /\ q[Len(q)] = c /\ q[Len(st)] = c
             /\ \A i \in 1..(Len(st) - 1) : q[i] = st[i]
<1>. DEFINE n == Len(st)
            b == SubSeq(st, 1, n - 1)
<1>1. n \in Nat /\ n >= 1 /\ n - 1 \in 0..n
  BY Innermost
<1>2. /\ b \in Seq(AnyCall) /\ Len(b) = n - 1 /\ Calls(b, oo)
      /\ \A i \in 1..(n - 1) : b[i] = st[i]
  BY <1>1, BelowCalls
<1>3. /\ b = <<>> => c.at = "encode"
      /\ b # <<>> => Over(b[Len(b)], c)
      /\ \A i \in 1..Len(b) : Ordered(b[i], c)
  <2>1. b = <<>> <=> n = 1
    <3>. HIDE DEF b
    <3>. QED
      BY <1>1, <1>2, EmptySeq
  <2>2. n > 1 => n - 1 \in 1..(n - 1)
    BY <1>1
  <2>3. b # <<>> => n > 1 /\ b[n - 1] = st[n - 1]
    BY <1>1, <1>2, <2>1, <2>2
  <2>. QED
    BY <1>2, <2>1, <2>3
<1>. HIDE DEF b
<1>4. b \o <<c>> = Append(b, c)
  BY <1>2, AppendIsConcat
<1>5. /\ Append(b, c) \in Seq(AnyCall) /\ Calls(Append(b, c), oo)
      /\ Append(b, c) # <<>> /\ Len(Append(b, c)) = Len(b) + 1
      /\ \A i \in 1..Len(b) : Append(b, c)[i] = b[i]
      /\ Append(b, c)[Len(b) + 1] = c
      /\ Append(b, c)[Len(Append(b, c))] = c
  BY <1>2, <1>3, PushCall
<1>6. Len(b) + 1 = n
  BY <1>1, <1>2
<1>. QED
  BY <1>2, <1>4, <1>5, <1>6 DEF b

\* ... which makes a call.
LEMMA ReplaceAndCall ==
  ASSUME NEW st \in Seq(AnyCall), NEW oo, Calls(st, oo), st # <<>>,
         NEW c \in AnyCall, GoodCall(c, oo),
         Len(st) = 1 => c.at = "encode",
         Len(st) > 1 => Over(st[Len(st) - 1], c),
         \A i \in 1..(Len(st) - 1) : Ordered(st[i], c),
         NEW d \in AnyCall, GoodCall(d, oo), Supplied(d), Over(c, d), Ordered(c, d),
         \A i \in 1..(Len(st) - 1) : Ordered(st[i], d)
  PROVE  LET q == SubSeq(st, 1, Len(st) - 1) \o <<c, d>>
         IN  q \in Seq(AnyCall) /\ GoodStack(q, oo)
<1>. DEFINE b == SubSeq(st, 1, Len(st) - 1)
            p == b \o <<c>>
<1>1. /\ b \in Seq(AnyCall) /\ p = Append(b, c)
      /\ p \in Seq(AnyCall) /\ Calls(p, oo) /\ p # <<>>
      /\ Len(p) = Len(st) /\ p[Len(p)] = c /\ p[Len(st)] = c
      /\ \A i \in 1..(Len(st) - 1) : p[i] = st[i]
  BY ReplaceCall
<1>2. b \o <<c, d>> = Append(p, d)
  <2>. HIDE DEF b
  <2>1. <<c>> \in Seq(AnyCall) /\ <<c, d>> = Append(<<c>>, d)
    OBVIOUS
  <2>2. <<c, d>> = <<c>> \o <<d>>
    BY <2>1, AppendIsConcat
  <2>3. <<d>> \in Seq(AnyCall)
    OBVIOUS
  <2>4. b \o (<<c>> \o <<d>>) = (b \o <<c>>) \o <<d>>
    BY <1>1, <2>1, <2>3, ConcatAssociative
  <2>5. Append(p, d) = p \o <<d>>
    BY <1>1, AppendIsConcat
  <2>. QED
    BY <2>2, <2>4, <2>5
<1>3. Len(st) \in Nat /\ Len(st) >= 1
  BY Innermost
<1>. HIDE DEF p, b
<1>4. \A i \in 1..Len(p) : Ordered(p[i], d)
  <2>1. \A i \in 1..Len(p) : i \in 1..(Len(st) - 1) \/ i = Len(st)
    BY <1>1, <1>3
  <2>. QED
    BY <1>1, <2>1
<1>5. /\ Append(p, d) \in Seq(AnyCall) /\ Calls(Append(p, d), oo)
      /\ Append(p, d)[Len(Append(p, d))] = d
  BY <1>1, <1>4, PushCall
<1>. QED
  BY <1>2, <1>5 DEF GoodStack, b

\* The innermost call returns a function of its type: the call that made it goes on.
LEMMA Returned ==
  ASSUME NEW st \in Seq(AnyCall), NEW oo, GoodStack(st, oo), st # <<>>,
         st[Len(st)].at # "encode",
         NEW f \in AnyFunc, Good(f, st[Len(st)].type, oo)
  PROVE  LET n == Len(st) - 1
             q == Append(SubSeq(st, 1, n - 1), Receive(st[n], f))
         IN  q \in Seq(AnyCall) /\ GoodStack(q, oo)
<1>. DEFINE n == Len(st) - 1
            top == st[Len(st)]
            d == st[n]
            r == Receive(d, f)
<1>1. /\ Calls(st, oo) /\ Len(st) \in Nat /\ Len(st) > 1 /\ n \in 0..Len(st)
      /\ n \in 1..Len(st) /\ d \in AnyCall /\ Over(d, top)
  <2>1. Calls(st, oo)
    BY DEF GoodStack
  <2>2. /\ Len(st) \in Nat /\ Len(st) >= 1 /\ Len(st) - 1 \in 0..Len(st)
        /\ Len(st) # 1
        /\ Len(st) > 1 => /\ Len(st) - 1 \in 1..Len(st) /\ st[Len(st) - 1] \in AnyCall
                          /\ Over(st[Len(st) - 1], st[Len(st)])
    BY <2>1, Innermost
  <2>3. Len(st) > 1
    <3>1. Len(st) \in Nat /\ Len(st) >= 1 /\ Len(st) # 1
      BY <2>2
    <3>. HIDE DEF n, top, d, r
    <3>. QED
      BY <3>1
  <2>4. /\ n \in 0..Len(st) /\ n \in 1..Len(st)
        /\ d \in AnyCall
    BY <2>2, <2>3
  <2>5. Over(d, top)
    BY <2>2, <2>3
  <2>. QED
    BY <2>1, <2>2, <2>3, <2>4, <2>5
<1>2. GoodCall(d, oo)
  BY <1>1 DEF Calls
<1>3. f # Missing
  BY DEF Good, Missing
<1>4. /\ r \in AnyCall /\ GoodCall(r, oo) /\ Supplied(r)
      /\ r.at = d.at /\ r.type = d.type /\ r.id = d.id
      /\ d.at # "build" => r.fn = f
      /\ d.at = "build" => r.fn = d.fn
  <2>. HIDE DEF d, top
  <2>1. CASE d.at = "build"
    <3>. DEFINE e == Append(d.elems, f)
    <3>1. /\ d.elems \in Seq(AnyFunc)
          /\ GoodElems(d.elems, d.type, oo) /\ Len(d.elems) < Len(Elems[d.type])
          /\ top.type = Elems[d.type][Len(d.elems) + 1]
      BY <1>1, <1>2, <2>1 DEF AnyCall, GoodCall, Over
    <3>2. d.type \in Types /\ Elems[d.type] \in Seq(Types)
      BY <1>1, ElemsAssumption DEF AnyCall
    <3>3. /\ e \in Seq(AnyFunc) /\ Len(e) = Len(d.elems) + 1
          /\ \A i \in 1..Len(d.elems) : e[i] = d.elems[i]
          /\ e[Len(d.elems) + 1] = f
      BY <3>1, AppendProperties
    <3>4. Len(d.elems) \in Nat /\ Len(Elems[d.type]) \in Nat
      BY <3>1, <3>2, LenProperties
    <3>5. r = [d EXCEPT !.elems = e]
      BY <2>1 DEF Receive
    <3>. HIDE DEF e, r
    <3>6. /\ r \in AnyCall /\ r.at = d.at /\ r.type = d.type /\ r.id = d.id
          /\ r.fn = d.fn /\ r.elems = e
      BY <1>1, <3>3, <3>5 DEF AnyCall
    <3>7. GoodElems(e, d.type, oo)
      <4>1. \A i \in 1..Len(e) : i \in 1..Len(d.elems) \/ i = Len(d.elems) + 1
        BY <3>3, <3>4
      <4>2. Good(f, top.type, oo)
        BY DEF top
      <4>. QED
        BY <3>1, <3>3, <3>4, <4>1, <4>2 DEF GoodElems
    <3>. QED
      BY <1>2, <2>1, <3>6, <3>7 DEF GoodCall, Supplied
  <2>2. CASE d.at # "build"
    <3>1. r = [d EXCEPT !.fn = f]
      BY <2>2 DEF Receive
    <3>. HIDE DEF r
    <3>2. /\ r \in AnyCall /\ r.at = d.at /\ r.type = d.type /\ r.id = d.id
          /\ r.fn = f /\ r.elems = d.elems
      BY <1>1, <3>1 DEF AnyCall
    <3>3. top.type = d.type
      BY <1>1, <2>2 DEF Over, top
    <3>4. Good(f, d.type, oo)
      BY <3>3 DEF top
    <3>. QED
      BY <1>2, <1>3, <2>2, <3>2, <3>4 DEF GoodCall, Supplied
  <2>. QED
    BY <2>1, <2>2
<1>. DEFINE b == SubSeq(st, 1, n)
<1>5. /\ b \in Seq(AnyCall) /\ Len(b) = n /\ Calls(b, oo)
      /\ \A i \in 1..n : b[i] = st[i]
  BY <1>1, BelowCalls
<1>6. b # <<>> /\ b[n] = d /\ n >= 1 /\ n \in Nat /\ n \in 1..n
  <2>1. n >= 1 /\ n \in Nat /\ n \in 1..n
    BY <1>1
  <2>. HIDE DEF b, n
  <2>. QED
    BY <1>5, <2>1, EmptySeq DEF n
<1>7. /\ n = 1 => d.at = "encode"
      /\ n > 1 => Over(b[n - 1], d)
      /\ \A i \in 1..(n - 1) : Ordered(b[i], d)
  <2>. HIDE DEF b, d, n
  <2>. QED
    BY <1>5, <1>6, Innermost
<1>. HIDE DEF r
<1>8. /\ n = 1 => r.at = "encode"
      /\ n > 1 => Over(b[n - 1], r)
      /\ \A i \in 1..(n - 1) : Ordered(b[i], r)
  BY <1>4, <1>7 DEF Over, Ordered
<1>9. LET c == SubSeq(b, 1, n - 1) q == c \o <<r>>
      IN  /\ c \in Seq(AnyCall) /\ q = Append(c, r)
          /\ q \in Seq(AnyCall) /\ Calls(q, oo) /\ q # <<>>
          /\ q[Len(q)] = r
  <2>. HIDE DEF b, d, n
  <2>. QED
    BY <1>4, <1>5, <1>6, <1>8, ReplaceCall
<1>10. SubSeq(b, 1, n - 1) = SubSeq(st, 1, n - 1)
  <2>1. n - 1 \in 0..Len(st) /\ n - 1 \in 0..n
    BY <1>1, <1>6
  <2>2. /\ SubSeq(st, 1, n - 1) \in Seq(AnyCall) /\ Len(SubSeq(st, 1, n - 1)) = n - 1
        /\ \A i \in 1..(n - 1) : SubSeq(st, 1, n - 1)[i] = st[i]
    BY <1>1, <2>1, BelowCalls
  <2>3. /\ SubSeq(b, 1, n - 1) \in Seq(AnyCall) /\ Len(SubSeq(b, 1, n - 1)) = n - 1
        /\ \A i \in 1..(n - 1) : SubSeq(b, 1, n - 1)[i] = b[i]
    <3>. HIDE DEF b, n
    <3>. QED
      BY <1>5, <2>1, BelowCalls
  <2>4. \A i \in 1..(n - 1) : i \in 1..n
    BY <1>6
  <2>. HIDE DEF b, n
  <2>. QED
    BY <1>5, <2>2, <2>3, <2>4, SeqEqual
<1>. QED
  BY <1>4, <1>9, <1>10 DEF GoodStack, r

-----------------------------------------------------------------------------
(***************************************************************************)
(* New calls and the once objects.                                         *)
(***************************************************************************)
\* A call that has only begun
LEMMA NewCall ==
  ASSUME NEW oo, Len(oo) \in Nat, NEW at \in Places, NEW t \in Types, NEW o \in Nat,
         o <= Len(oo), at \in {"once", "build"} => o >= 1 /\ oo[o].type = t
  PROVE  LET c == Call(at, t, o)
         IN  /\ c \in AnyCall /\ GoodCall(c, oo)
             /\ c.at = at /\ c.type = t /\ c.id = o /\ c.fn = Missing /\ c.elems = <<>>
<1>. DEFINE c == Call(at, t, o)
<1>1. Missing \in AnyFunc /\ <<>> \in Seq(AnyFunc) /\ Len(<<>>) = 0
  BY EmptySeq DEF Missing, AnyFunc
<1>2. c \in AnyCall
  BY <1>1 DEF Call, AnyCall
<1>3. c.at = at /\ c.type = t /\ c.id = o /\ c.fn = Missing /\ c.elems = <<>>
  BY DEF Call
<1>. HIDE DEF c
<1>4. Elems[t] \in Seq(Types) /\ Len(Elems[t]) \in Nat
  BY ElemsAssumption, LenProperties
<1>5. GoodElems(<<>>, t, oo)
  BY <1>1, <1>4 DEF GoodElems
<1>6. GoodCall(c, oo)
  BY <1>3, <1>5 DEF GoodCall
<1>. QED
  BY <1>2, <1>3, <1>6 DEF c

\* LoadOrStore adds a once object.
LEMMA NewOnce ==
  ASSUME NEW oo \in Seq(AnyOnce), NEW ca \in [Types -> AnyFunc], NEW t \in Types,
         GoodOnces(oo, ca), ca[t] = Missing
  PROVE  LET pp == Append(oo, OnceOf(t))
             o  == Len(oo) + 1
             cb == [ca EXCEPT ![t] = Indirect(o)]
         IN  /\ pp \in Seq(AnyOnce) /\ Len(pp) = o /\ Len(oo) \in Nat
             /\ pp[o].type = t /\ Grows(oo, pp)
             /\ cb \in [Types -> AnyFunc] /\ Good(Indirect(o), t, pp)
             /\ GoodOnces(pp, cb)
<1>. DEFINE x == OnceOf(t)
            pp == Append(oo, x)
            o  == Len(oo) + 1
            cb == [ca EXCEPT ![t] = Indirect(o)]
<1>1. x \in AnyOnce /\ x.type = t /\ x.runs = 0 /\ x.elems = <<>>
  BY EmptySeq DEF OnceOf, AnyOnce
<1>. HIDE DEF x
<1>2. /\ pp \in Seq(AnyOnce) /\ Len(pp) = Len(oo) + 1
      /\ \A i \in 1..Len(oo) : pp[i] = oo[i] /\ oo[i] \in AnyOnce
      /\ pp[Len(oo) + 1] = x
  BY <1>1, AppendProperties, ElementOfSeq
<1>3. Len(oo) \in Nat
  BY LenProperties
<1>4. Indirect(o) \in AnyFunc /\ Indirect(o).id = o /\ Indirect(o) # Missing
      /\ ~Indirect(o).direct
  BY <1>3 DEF Indirect, AnyFunc, Missing
<1>. HIDE DEF pp
<1>5. Grows(oo, pp)
  BY <1>2, <1>3 DEF Grows
<1>6. Good(Indirect(o), t, pp)
  BY <1>1, <1>2, <1>3, <1>4 DEF Good
<1>7. cb \in [Types -> AnyFunc] /\ cb[t] # Missing /\ \A u \in Types : u # t => cb[u] = ca[u]
  BY <1>4
<1>. HIDE DEF cb
<1>8. \A i \in 1..Len(pp) : i \in 1..Len(oo) \/ i = Len(oo) + 1
  BY <1>2, <1>3
<1>9. \A i \in 1..Len(oo) : oo[i].type \in Types /\ oo[i].type # t
  BY <1>2 DEF GoodOnces, AnyOnce
<1>10. ASSUME NEW i \in 1..Len(pp) PROVE GoodOnce(pp[i], pp) /\ cb[pp[i].type] # Missing
  <2>1. CASE i \in 1..Len(oo)
    <3>1. GoodOnce(oo[i], oo) /\ ca[oo[i].type] # Missing
      BY <2>1 DEF GoodOnces
    <3>2. GoodElems(oo[i].elems, oo[i].type, pp)
      BY <3>1, <1>5, ElemsGrow DEF GoodOnce
    <3>. QED
      BY <2>1, <3>1, <3>2, <1>2, <1>7, <1>9 DEF GoodOnce
  <2>2. CASE i = Len(oo) + 1
    <3>1. Len(Elems[t]) \in Nat
      BY ElemsAssumption, LenProperties
    <3>2. GoodElems(<<>>, t, pp)
      BY <3>1, EmptySeq DEF GoodElems
    <3>. QED
      BY <2>2, <3>2, <1>1, <1>2, <1>7 DEF GoodOnce
  <2>. QED
    BY <1>8, <2>1, <2>2
<1>11. \A i, j \in 1..Len(pp) : pp[i].type = pp[j].type => i = j
  BY <1>1, <1>2, <1>8, <1>9 DEF GoodOnces
<1>. QED
  BY <1>1, <1>2, <1>3, <1>5, <1>6, <1>7, <1>10, <1>11 DEF GoodOnces, pp, cb, x

\* A once object runs, or is done.
LEMMA OnceChanges ==
  ASSUME NEW oo \in Seq(AnyOnce), NEW ca, GoodOnces(oo, ca), NEW o \in 1..Len(oo),
         NEW x \in AnyOnce, x.type = oo[o].type,
         oo[o].state = "done" => x.state = "done",
         x.runs <= 1, x.state # "new", GoodElems(x.elems, x.type, oo)
  PROVE  LET pp == [oo EXCEPT ![o] = x]
         IN  /\ pp \in Seq(AnyOnce) /\ Len(pp) = Len(oo) /\ Grows(oo, pp)
             /\ GoodOnces(pp, ca) /\ pp[o] = x
<1>. DEFINE pp == [oo EXCEPT ![o] = x]
<1>1. /\ pp \in Seq(AnyOnce) /\ Len(pp) = Len(oo)
      /\ \A i \in 1..Len(oo) : pp[i] = IF i = o THEN x ELSE oo[i]
  BY ExceptSeq
<1>2. Len(oo) \in Nat
  BY LenProperties
<1>. HIDE DEF pp
<1>3. Grows(oo, pp)
  BY <1>1, <1>2 DEF Grows
<1>4. \A i \in 1..Len(oo) : pp[i].type = oo[i].type
  BY <1>1
<1>5. ASSUME NEW i \in 1..Len(oo) PROVE GoodOnce(pp[i], pp)
  <2>1. CASE i = o
    <3>1. GoodElems(x.elems, x.type, pp)
      BY <1>3, ElemsGrow
    <3>. QED
      BY <1>1, <2>1, <3>1 DEF GoodOnce
  <2>2. CASE i # o
    <3>1. GoodOnce(oo[i], oo)
      BY DEF GoodOnces
    <3>2. GoodElems(oo[i].elems, oo[i].type, pp)
      BY <1>3, <3>1, ElemsGrow DEF GoodOnce
    <3>. QED
      BY <1>1, <2>2, <3>1, <3>2 DEF GoodOnce
  <2>. QED
    BY <2>1, <2>2
<1>6. GoodOnces(pp, ca)
  BY <1>1, <1>4, <1>5 DEF GoodOnces
<1>. QED
  BY <1>1, <1>3, <1>6 DEF pp

\* One goroutine moves, the others keep what they know.
LEMMA OthersStay ==
  ASSUME Inv, Grows(once, once'), NEW g \in Goroutines, NEW q \in Seq(AnyCall),
         GoodStack(q, once'), stack' = [stack EXCEPT ![g] = q]
  PROVE  /\ stack' \in [Goroutines -> Seq(AnyCall)]
         /\ \A h \in Goroutines : GoodStack(stack'[h], once')
<1>1. stack \in [Goroutines -> Seq(AnyCall)] /\ \A h \in Goroutines : GoodStack(stack[h], once)
  BY DEF Inv, Typed
<1>2. stack' \in [Goroutines -> Seq(AnyCall)]
  BY <1>1
<1>3. \A h \in Goroutines : stack'[h] = IF h = g THEN q ELSE stack[h]
  BY <1>1
<1>4. ASSUME NEW h \in Goroutines PROVE GoodStack(stack[h], once')
  <2>1. stack[h] \in Seq(AnyCall) /\ GoodStack(stack[h], once)
    BY <1>1
  <2>. QED
    BY <2>1, StackGrows
<1>. QED
  BY <1>2, <1>3, <1>4

\* The cache keeps good functions.
LEMMA CacheGrows ==
  ASSUME NEW oo, NEW pp, Grows(oo, pp), NEW ca, GoodCache(ca, oo)
  PROVE  GoodCache(ca, pp)
BY GoodGrows DEF GoodCache

\* Once objects that do not change have grown by none.
LEMMA SameGrows ==
  ASSUME Inv
  PROVE  Grows(once, once) /\ Len(once) \in Nat
BY LenProperties DEF Inv, Typed, Grows

-----------------------------------------------------------------------------
(***************************************************************************)
(* The steps.                                                              *)
(***************************************************************************)
\* A step of goroutine g that changes the once objects or the cache
LEMMA Changed ==
  ASSUME Inv, Grows(once, once'), once' \in Seq(AnyOnce), cache' \in [Types -> AnyFunc],
         GoodOnces(once', cache'), GoodCache(cache', once'),
         NEW g \in Goroutines, NEW q \in Seq(AnyCall), GoodStack(q, once'),
         stack' = [stack EXCEPT ![g] = q]
  PROVE  Inv'
BY OthersStay DEF Inv, Typed

\* A step that changes its stack only
LEMMA Moved ==
  ASSUME Inv, UNCHANGED <<cache, once>>,
         NEW g \in Goroutines, NEW q \in Seq(AnyCall), GoodStack(q, once),
         stack' = [stack EXCEPT ![g] = q]
  PROVE  Inv'
<1>1. Grows(once, once')
  BY SameGrows
<1>2. /\ once' \in Seq(AnyOnce) /\ cache' \in [Types -> AnyFunc]
      /\ GoodOnces(once', cache') /\ GoodCache(cache', once') /\ GoodStack(q, once')
  BY DEF Inv, Typed
<1>. QED
  BY <1>1, <1>2, Changed

\* What is known of a goroutine that is in a call
LEMMA Here ==
  ASSUME Inv, NEW g \in Goroutines, stack[g] # <<>>
  PROVE  /\ stack[g] \in Seq(AnyCall) /\ GoodStack(stack[g], once) /\ Calls(stack[g], once)
         /\ Top(g) = stack[g][Len(stack[g])]
         /\ Below(g) = SubSeq(stack[g], 1, Len(stack[g]) - 1)
         /\ Top(g) \in AnyCall /\ GoodCall(Top(g), once) /\ Supplied(Top(g))
         /\ Len(stack[g]) \in Nat /\ Len(stack[g]) >= 1
         /\ Len(stack[g]) = 1 => Top(g).at = "encode"
         /\ Len(stack[g]) > 1 => /\ stack[g][Len(stack[g]) - 1] \in AnyCall
                                 /\ Over(stack[g][Len(stack[g]) - 1], Top(g))
         /\ \A i \in 1..(Len(stack[g]) - 1) :
              i \in 1..Len(stack[g]) /\ Ordered(stack[g][i], Top(g))
<1>1. stack[g] \in Seq(AnyCall) /\ GoodStack(stack[g], once)
  BY DEF Inv, Typed
<1>2. Calls(stack[g], once) /\ Supplied(stack[g][Len(stack[g])])
  BY <1>1 DEF GoodStack
<1>3. Top(g) = stack[g][Len(stack[g])] /\ Below(g) = SubSeq(stack[g], 1, Len(stack[g]) - 1)
  BY DEF Top, Below
<1>. QED
  BY <1>1, <1>2, <1>3, Innermost

\* A call returns a good function.
LEMMA ReturnStep ==
  ASSUME Inv, NEW g \in Goroutines, stack[g] # <<>>, Top(g).at # "encode",
         Grows(once, once'), once' \in Seq(AnyOnce), cache' \in [Types -> AnyFunc],
         GoodOnces(once', cache'), GoodCache(cache', once'),
         NEW f \in AnyFunc, Good(f, Top(g).type, once'), Return(g, f)
  PROVE  Inv'
<1>. DEFINE st == stack[g]
            n  == Len(st) - 1
            q  == Append(SubSeq(st, 1, n - 1), Receive(st[n], f))
<1>1. st \in Seq(AnyCall) /\ GoodStack(st, once) /\ Top(g) = st[Len(st)]
  BY Here
<1>2. GoodStack(st, once')
  BY <1>1, StackGrows
<1>3. q \in Seq(AnyCall) /\ GoodStack(q, once')
  BY <1>1, <1>2, Returned
<1>4. stack' = [stack EXCEPT ![g] = q]
  BY DEF Return
<1>. QED
  BY <1>3, <1>4, Changed

\* The innermost call goes on as c, which may stand where it stood.
Replaces(c, top) ==
  /\ c.type = top.type
  /\ \/ c.at = top.at /\ c.id = top.id
     \/ top.at \in {"lookup", "store"} /\ c.at \in {"store", "publish"}
     \/ top.at = "once" /\ c.at = "build" /\ c.id = top.id

\* A call that replaces the innermost one stands where that stood.
LEMMA InPlace ==
  ASSUME Inv, NEW g \in Goroutines, stack[g] # <<>>, NEW c \in AnyCall, Replaces(c, Top(g))
  PROVE  /\ Len(stack[g]) = 1 => c.at = "encode"
         /\ Len(stack[g]) > 1 => Over(stack[g][Len(stack[g]) - 1], c)
         /\ \A i \in 1..(Len(stack[g]) - 1) : Ordered(stack[g][i], c)
<1>1. Len(stack[g]) = 1 => c.at = "encode"
  BY Here DEF Replaces
<1>2. Len(stack[g]) > 1 => Over(stack[g][Len(stack[g]) - 1], c)
  <2>1. ASSUME NEW d, Over(d, Top(g)) PROVE Over(d, c)
    BY <2>1 DEF Replaces, Over
  <2>. QED
    BY <2>1, Here
<1>3. \A i \in 1..(Len(stack[g]) - 1) : Ordered(stack[g][i], c)
  <2>1. ASSUME NEW d, Ordered(d, Top(g)) PROVE Ordered(d, c)
    BY <2>1 DEF Replaces, Ordered
  <2>. QED
    BY <2>1, Here
<1>. QED
  BY <1>1, <1>2, <1>3

\* The innermost call goes on as c, ...
LEMMA BecomeStep ==
  ASSUME Inv, NEW g \in Goroutines, stack[g] # <<>>,
         Grows(once, once'), once' \in Seq(AnyOnce), cache' \in [Types -> AnyFunc],
         GoodOnces(once', cache'), GoodCache(cache', once'),
         NEW c \in AnyCall, Replaces(c, Top(g)), GoodCall(c, once'), Supplied(c),
         Become(g, <<c>>)
  PROVE  Inv'
<1>. DEFINE st == stack[g]
            q  == SubSeq(st, 1, Len(st) - 1) \o <<c>>
<1>1. st \in Seq(AnyCall) /\ GoodStack(st, once) /\ stack' = [stack EXCEPT ![g] = q]
  BY Here DEF Become
<1>2. Calls(st, once')
  BY <1>1, StackGrows DEF GoodStack
<1>3. /\ Len(st) = 1 => c.at = "encode"
      /\ Len(st) > 1 => Over(st[Len(st) - 1], c)
      /\ \A i \in 1..(Len(st) - 1) : Ordered(st[i], c)
  BY InPlace
<1>4. q \in Seq(AnyCall) /\ Calls(q, once') /\ q[Len(q)] = c
  BY <1>1, <1>2, <1>3, ReplaceCall
<1>5. GoodStack(q, once')
  BY <1>4 DEF GoodStack
<1>. QED
  BY <1>1, <1>4, <1>5, Changed

\* ... and makes the call d.
LEMMA CallStep ==
  ASSUME Inv, NEW g \in Goroutines, stack[g] # <<>>,
         Grows(once, once'), once' \in Seq(AnyOnce), cache' \in [Types -> AnyFunc],
         GoodOnces(once', cache'), GoodCache(cache', once'),
         NEW c \in AnyCall, Replaces(c, Top(g)), GoodCall(c, once'),
         NEW d \in AnyCall, GoodCall(d, once'), Supplied(d), Over(c, d), Ordered(c, d),
         \A i \in 1..(Len(stack[g]) - 1) : Ordered(stack[g][i], d),
         Become(g, <<c, d>>)
  PROVE  Inv'
<1>. DEFINE st == stack[g]
            q  == SubSeq(st, 1, Len(st) - 1) \o <<c, d>>
<1>1. st \in Seq(AnyCall) /\ GoodStack(st, once) /\ stack' = [stack EXCEPT ![g] = q]
  BY Here DEF Become
<1>2. Calls(st, once')
  BY <1>1, StackGrows DEF GoodStack
<1>3. /\ Len(st) = 1 => c.at = "encode"
      /\ Len(st) > 1 => Over(st[Len(st) - 1], c)
      /\ \A i \in 1..(Len(st) - 1) : Ordered(st[i], c)
  BY InPlace
<1>4. q \in Seq(AnyCall) /\ GoodStack(q, once')
  BY <1>1, <1>2, <1>3, ReplaceAndCall
<1>. QED
  BY <1>1, <1>4, Changed

\* What a step that leaves the cache and the once objects alone knows of them
LEMMA SameOnces ==
  ASSUME Inv, UNCHANGED <<cache, once>>
  PROVE  /\ Grows(once, once') /\ once' \in Seq(AnyOnce) /\ cache' \in [Types -> AnyFunc]
         /\ GoodOnces(once', cache') /\ GoodCache(cache', once')
BY SameGrows DEF Inv, Typed

\* A goroutine encodes a value: the encoder of its type is asked for first.
LEMMA BeginInv ==
  ASSUME Inv, NEW g \in Goroutines, NEW t \in Types, Begin(g, t)
  PROVE  Inv'
<1>. DEFINE c == Call("encode", t, 0)
            d == Call("lookup", t, 0)
<1>1. Len(once) \in Nat
  BY SameGrows
<1>2. {"encode", "lookup"} \subseteq Places
  BY DEF Places
<1>3. /\ c \in AnyCall /\ GoodCall(c, once) /\ c.at = "encode" /\ c.type = t
      /\ d \in AnyCall /\ GoodCall(d, once) /\ d.at = "lookup" /\ d.type = t
  BY <1>1, <1>2, NewCall
<1>. HIDE DEF c, d
<1>4. Calls(<<>>, once) /\ <<>> \in Seq(AnyCall) /\ Len(<<>>) = 0
  BY EmptySeq DEF Calls
<1>5. LET p == Append(<<>>, c)
      IN  p \in Seq(AnyCall) /\ Calls(p, once) /\ p # <<>> /\ Len(p) = 1 /\ p[1] = c
  <2>. DEFINE e == <<>>
  <2>1. /\ e \in Seq(AnyCall) /\ Calls(e, once) /\ Len(e) = 0 /\ e = <<>>
        /\ \A i \in 1..Len(e) : Ordered(e[i], c)
    BY <1>4
  <2>. HIDE DEF e
  <2>2. e = <<>> => c.at = "encode"
    BY <1>3
  <2>3. e # <<>> => Over(e[Len(e)], c)
    BY <2>1
  <2>4. /\ Append(e, c) \in Seq(AnyCall) /\ Calls(Append(e, c), once)
        /\ Append(e, c) # <<>> /\ Len(Append(e, c)) = Len(e) + 1
        /\ Append(e, c)[Len(e) + 1] = c
    <3>1. c \in AnyCall /\ GoodCall(c, once)
      BY <1>3
    <3>2. /\ e \in Seq(AnyCall) /\ Calls(e, once)
          /\ \A i \in 1..Len(e) : Ordered(e[i], c)
      BY <2>1
    <3>. QED
      BY <2>2, <2>3, <3>1, <3>2, PushCall
  <2>. QED
    BY <2>1, <2>4
<1>6. Over(c, d) /\ Ordered(c, d) /\ Supplied(d)
  BY <1>3 DEF Over, Ordered, Supplied
<1>7. LET q == Append(Append(<<>>, c), d)
      IN  q \in Seq(AnyCall) /\ Calls(q, once) /\ q[Len(q)] = d
  <2>. DEFINE p == Append(<<>>, c)
  <2>1. /\ p \in Seq(AnyCall) /\ Calls(p, once) /\ p # <<>> /\ Len(p) = 1 /\ p[Len(p)] = c
        /\ \A i \in 1..Len(p) : p[i] = c
    BY <1>5
  <2>. HIDE DEF p
  <2>2. /\ Over(p[Len(p)], d)
        /\ \A i \in 1..Len(p) : Ordered(p[i], d)
    BY <1>6, <2>1
  <2>3. /\ Append(p, d) \in Seq(AnyCall) /\ Calls(Append(p, d), once)
        /\ Append(p, d)[Len(Append(p, d))] = d
    BY <1>3, <2>1, <2>2, PushCall
  <2>. QED
    BY <2>3 DEF p
<1>8. Append(Append(<<>>, c), d) = <<c, d>>
  <2>1. Append(<<>>, c) = <<c>>
    OBVIOUS
  <2>2. <<c>> \in Seq(AnyCall) /\ <<c, d>> = Append(<<c>>, d)
    BY <1>3
  <2>. QED
    BY <2>1, <2>2
<1>9. <<c, d>> \in Seq(AnyCall) /\ GoodStack(<<c, d>>, once)
  BY <1>6, <1>7, <1>8 DEF GoodStack
<1>10. stack' = [stack EXCEPT ![g] = <<c, d>>] /\ UNCHANGED <<cache, once>>
  BY DEF Begin, ReflectValue, c, d
<1>. QED
  BY <1>9, <1>10, Moved

\* encoderCache.Load: a stored function is returned, a missing one is to be stored.
LEMMA LoadInv ==
  ASSUME Inv, NEW g \in Goroutines, Load(g)
  PROVE  Inv'
<1>. DEFINE t == Top(g).type
            c == Call("store", t, 0)
<1>1. stack[g] # <<>> /\ Top(g).at = "lookup" /\ UNCHANGED <<cache, once>>
  BY DEF Load, At
<1>2. /\ t \in Types /\ cache[t] \in AnyFunc
      /\ cache[t] # Missing => Good(cache[t], t, once')
  BY <1>1, Here DEF AnyCall, Inv, Typed, GoodCache
<1>3. CASE cache[t] # Missing
  <2>1. Return(g, cache[t])
    BY <1>3 DEF Load
  <2>. QED
    BY <1>1, <1>2, <1>3, <2>1, SameOnces, ReturnStep
<1>4. CASE cache[t] = Missing
  <2>1. Len(once) \in Nat /\ "store" \in Places
    BY SameGrows DEF Places
  <2>2. c \in AnyCall /\ GoodCall(c, once) /\ c.at = "store" /\ c.type = t
    BY <1>2, <2>1, NewCall
  <2>3. Become(g, <<c>>)
    BY <1>4 DEF Load
  <2>. HIDE DEF c
  <2>4. Replaces(c, Top(g)) /\ Supplied(c) /\ GoodCall(c, once')
    BY <1>1, <2>2 DEF Replaces, Supplied
  <2>. QED
    BY <1>1, <2>2, <2>3, <2>4, SameOnces, BecomeStep
<1>. QED
  BY <1>3, <1>4

\* encoderCache.LoadOrStore: the goroutine that stores its indirect function builds.
LEMMA LoadOrStoreInv ==
  ASSUME Inv, NEW g \in Goroutines, LoadOrStore(g)
  PROVE  Inv'
<1>. DEFINE t == Top(g).type
            o == Len(once) + 1
            c == Call("publish", t, o)
            d == Call("once", t, o)
<1>1. stack[g] # <<>> /\ Top(g).at = "store"
  BY DEF LoadOrStore, At
<1>2. /\ t \in Types /\ cache[t] \in AnyFunc
      /\ cache[t] # Missing => Good(cache[t], t, once)
  BY <1>1, Here DEF AnyCall, Inv, Typed, GoodCache
<1>3. CASE cache[t] # Missing
  <2>1. Return(g, cache[t]) /\ UNCHANGED <<cache, once>>
    BY <1>3 DEF LoadOrStore
  <2>. QED
    BY <1>1, <1>2, <1>3, <2>1, SameOnces, ReturnStep
<1>4. CASE cache[t] = Missing
  <2>1. /\ once' = Append(once, OnceOf(t))
        /\ cache' = [cache EXCEPT ![t] = Indirect(o)]
        /\ Become(g, <<c, d>>)
    BY <1>4 DEF LoadOrStore
  <2>2. /\ once \in Seq(AnyOnce) /\ cache \in [Types -> AnyFunc] /\ GoodOnces(once, cache)
        /\ GoodCache(cache, once)
    BY DEF Inv, Typed
  <2>3. /\ once' \in Seq(AnyOnce) /\ Len(once') = o /\ Len(once) \in Nat
        /\ once'[o].type = t /\ Grows(once, once')
        /\ cache' \in [Types -> AnyFunc] /\ Good(Indirect(o), t, once')
        /\ GoodOnces(once', cache')
    BY <1>2, <1>4, <2>1, <2>2, NewOnce
  <2>4. GoodCache(cache', once')
    <3>1. GoodCache(cache, once')
      BY <2>2, <2>3, CacheGrows
    <3>. QED
      BY <1>2, <2>1, <2>2, <2>3, <3>1 DEF GoodCache
  <2>5. /\ c \in AnyCall /\ GoodCall(c, once') /\ c.at = "publish" /\ c.type = t /\ c.id = o
        /\ d \in AnyCall /\ GoodCall(d, once') /\ d.at = "once" /\ d.type = t /\ d.id = o
    <3>1. {"publish", "once"} \subseteq Places
      BY DEF Places
    <3>2. o \in Nat /\ o >= 1 /\ Len(once') \in Nat /\ o <= Len(once')
      BY <2>3
    <3>. HIDE DEF o
    <3>3. /\ c \in AnyCall /\ GoodCall(c, once')
          /\ c.at = "publish" /\ c.type = t /\ c.id = o
      BY <1>2, <2>3, <3>1, <3>2, NewCall
    <3>4. /\ d \in AnyCall /\ GoodCall(d, once')
          /\ d.at = "once" /\ d.type = t /\ d.id = o
      BY <1>2, <2>3, <3>1, <3>2, NewCall
    <3>. QED
      BY <3>3, <3>4
  <2>. HIDE DEF c, d
  <2>6. Replaces(c, Top(g)) /\ Supplied(d) /\ Over(c, d) /\ Ordered(c, d)
    BY <1>1, <2>5 DEF Replaces, Supplied, Over, Ordered
  <2>7. \A i \in 1..(Len(stack[g]) - 1) : Ordered(stack[g][i], d)
    <3>1. ASSUME NEW i \in 1..(Len(stack[g]) - 1) PROVE Ordered(stack[g][i], d)
      <4>1. i \in 1..Len(stack[g]) /\ stack[g] \in Seq(AnyCall) /\ Calls(stack[g], once)
        BY <1>1, Here
      <4>2. stack[g][i] \in AnyCall /\ GoodCall(stack[g][i], once)
        BY <4>1, ElementOfSeq DEF Calls
      <4>3. stack[g][i].id \in Nat /\ stack[g][i].id <= Len(once)
        BY <4>2 DEF AnyCall, GoodCall
      <4>4. stack[g][i].id < o
        BY <2>3, <4>3
      <4>. HIDE DEF o
      <4>. QED
        BY <2>5, <4>4 DEF Ordered
    <3>. QED
      BY <3>1
  <2>. QED
    BY <1>1, <2>1, <2>3, <2>4, <2>5, <2>6, <2>7, CallStep
<1>. QED
  BY <1>3, <1>4

\* once.Do by the first goroutine: it runs newTypeEncoder.
LEMMA RunOnceInv ==
  ASSUME Inv, NEW g \in Goroutines, RunOnce(g)
  PROVE  Inv'
<1>. DEFINE o == Top(g).id
            t == Top(g).type
            x == [once[o] EXCEPT !.state = "running", !.runs = @ + 1]
            c == Call("build", t, o)
<1>1. stack[g] # <<>> /\ Top(g).at = "once" /\ once[o].state = "new" /\ UNCHANGED cache
  BY DEF RunOnce, At
<1>2. t \in Types /\ o \in 1..Len(once) /\ o \in Nat /\ o >= 1 /\ once[o].type = t
  <2>1. Top(g) \in AnyCall /\ GoodCall(Top(g), once)
    BY <1>1, Here
  <2>2. Len(once) \in Nat
    BY SameGrows
  <2>. QED
    BY <1>1, <2>1, <2>2 DEF AnyCall, GoodCall
<1>3. /\ once \in Seq(AnyOnce) /\ cache \in [Types -> AnyFunc] /\ GoodOnces(once, cache)
      /\ GoodCache(cache, once)
  BY DEF Inv, Typed
<1>4. once[o] \in AnyOnce /\ GoodOnce(once[o], once)
  BY <1>2, <1>3, ElementOfSeq DEF GoodOnces
<1>5. /\ x \in AnyOnce /\ x.type = t /\ x.runs = 1 /\ x.state = "running"
      /\ x.elems = once[o].elems
  <2>1. once[o].runs = 0
    BY <1>1, <1>4 DEF GoodOnce
  <2>. DEFINE y == once[o]
  <2>2. y \in AnyOnce /\ y.runs = 0 /\ y.type = t
    BY <1>2, <1>4, <2>1
  <2>3. x = [y EXCEPT !.state = "running", !.runs = 1]
    BY <2>2
  <2>. HIDE DEF x, y
  <2>4. x \in AnyOnce
    BY <2>2, <2>3 DEF AnyOnce
  <2>5. x.type = y.type /\ x.state = "running" /\ x.elems = y.elems /\ x.runs = 1
    BY <2>2, <2>3 DEF AnyOnce
  <2>. QED
    BY <2>2, <2>4, <2>5 DEF y
<1>6. once' = [once EXCEPT ![o] = x]
  BY <1>2, <1>3, <1>4 DEF RunOnce
<1>. HIDE DEF x
<1>7. /\ once' \in Seq(AnyOnce) /\ Len(once') = Len(once) /\ Grows(once, once')
      /\ GoodOnces(once', cache) /\ once'[o] = x
  <2>1. GoodElems(x.elems, x.type, once)
    BY <1>2, <1>4, <1>5 DEF GoodOnce
  <2>2. /\ o \in 1..Len(once) /\ x \in AnyOnce /\ x.type = once[o].type
        /\ x.runs <= 1 /\ x.state # "new" /\ (once[o].state = "done" => x.state = "done")
    BY <1>1, <1>2, <1>5
  <2>. HIDE DEF o, t
  <2>3. LET pp == [once EXCEPT ![o] = x]
        IN  /\ pp \in Seq(AnyOnce) /\ Len(pp) = Len(once) /\ Grows(once, pp)
            /\ GoodOnces(pp, cache) /\ pp[o] = x
    BY <1>3, <2>1, <2>2, OnceChanges
  <2>. QED
    BY <1>6, <2>3
<1>8. GoodCache(cache', once') /\ GoodOnces(once', cache') /\ cache' \in [Types -> AnyFunc]
  BY <1>1, <1>3, <1>7, CacheGrows
<1>9. c \in AnyCall /\ GoodCall(c, once') /\ c.at = "build" /\ c.type = t /\ c.id = o
  <2>1. "build" \in Places /\ Len(once') \in Nat /\ o <= Len(once') /\ once'[o].type = t
    BY <1>2, <1>5, <1>7, SameGrows DEF Places
  <2>. HIDE DEF o
  <2>. QED
    BY <1>2, <2>1, NewCall
<1>. HIDE DEF c
<1>10. Replaces(c, Top(g)) /\ Supplied(c) /\ Become(g, <<c>>)
  BY <1>1, <1>9 DEF Replaces, Supplied, RunOnce, c
<1>. QED
  BY <1>1, <1>7, <1>8, <1>9, <1>10, BecomeStep

\* once.Do by another goroutine, which goes on when the encoder is built.
LEMMA AwaitOnceInv ==
  ASSUME Inv, NEW g \in Goroutines, AwaitOnce(g)
  PROVE  Inv'
<1>. DEFINE o == Top(g).id
<1>1. /\ stack[g] # <<>> /\ Top(g).at = "once" /\ once[o].state = "done"
      /\ UNCHANGED <<cache, once>> /\ Return(g, Direct(o))
  BY DEF AwaitOnce, At
<1>2. o \in 1..Len(once) /\ o \in Nat /\ once[o].type = Top(g).type
  <2>1. Top(g) \in AnyCall /\ GoodCall(Top(g), once)
    BY <1>1, Here
  <2>. QED
    BY <1>1, <2>1 DEF AnyCall, GoodCall
<1>3. Direct(o) \in AnyFunc /\ Good(Direct(o), Top(g).type, once')
  BY <1>1, <1>2 DEF Direct, AnyFunc, Good
<1>. QED
  BY <1>1, <1>3, SameOnces, ReturnStep

\* newTypeEncoder asks for the encoder of the next element.
LEMMA BuildElemInv ==
  ASSUME Inv, NEW g \in Goroutines, BuildElem(g)
  PROVE  Inv'
<1>. DEFINE c == Top(g)
            i == Len(c.elems) + 1
            t == Elems[c.type][i]
            d == Call("lookup", t, 0)
<1>1. /\ stack[g] # <<>> /\ c.at = "build" /\ UNCHANGED <<cache, once>>
      /\ i <= Len(Elems[c.type]) /\ Become(g, <<c, d>>)
  BY DEF BuildElem, At
<1>2. c \in AnyCall /\ GoodCall(c, once)
  BY <1>1, Here
<1>3. Len(c.elems) \in Nat /\ Elems[c.type] \in Seq(Types) /\ Len(Elems[c.type]) \in Nat
  BY <1>2, ElemsAssumption, LenProperties DEF AnyCall
<1>4. t \in Types
  <2>1. i \in 1..Len(Elems[c.type])
    BY <1>1, <1>3
  <2>. HIDE DEF i
  <2>. QED
    BY <1>3, <2>1, ElementOfSeq
<1>5. d \in AnyCall /\ GoodCall(d, once) /\ d.at = "lookup" /\ d.type = t
  <2>1. Len(once) \in Nat /\ "lookup" \in Places
    BY SameGrows DEF Places
  <2>. HIDE DEF t
  <2>. QED
    BY <1>4, <2>1, NewCall
<1>. HIDE DEF d
<1>6. Over(c, d)
  BY <1>1, <1>3, <1>5 DEF Over
<1>7. /\ Ordered(c, d) /\ Supplied(d) /\ Replaces(c, c)
      /\ \A j \in 1..(Len(stack[g]) - 1) : Ordered(stack[g][j], d)
  BY <1>5 DEF Ordered, Supplied, Replaces
<1>8. GoodCall(c, once') /\ GoodCall(d, once')
  BY <1>1, <1>2, <1>5
<1>. HIDE DEF c
<1>. QED
  BY <1>1, <1>2, <1>5, <1>6, <1>7, <1>8, SameOnces, CallStep DEF c

\* newTypeEncoder returns: the once object is done.
LEMMA FinishBuildInv ==
  ASSUME Inv, NEW g \in Goroutines, FinishBuild(g)
  PROVE  Inv'
<1>. DEFINE o == Top(g).id
            t == Top(g).type
            x == [once[o] EXCEPT !.state = "done", !.elems = Top(g).elems]
<1>1. /\ stack[g] # <<>> /\ Top(g).at = "build" /\ UNCHANGED cache /\ Return(g, Direct(o))
  BY DEF FinishBuild, At
<1>2. /\ t \in Types /\ o \in 1..Len(once) /\ o \in Nat /\ once[o].type = t
      /\ Top(g).elems \in Seq(AnyFunc) /\ GoodElems(Top(g).elems, t, once)
  <2>1. Top(g) \in AnyCall /\ GoodCall(Top(g), once)
    BY <1>1, Here
  <2>. QED
    BY <1>1, <2>1 DEF AnyCall, GoodCall
<1>3. /\ once \in Seq(AnyOnce) /\ cache \in [Types -> AnyFunc] /\ GoodOnces(once, cache)
      /\ GoodCache(cache, once)
  BY DEF Inv, Typed
<1>4. once[o] \in AnyOnce /\ GoodOnce(once[o], once)
  BY <1>2, <1>3, ElementOfSeq DEF GoodOnces
<1>5. /\ x \in AnyOnce /\ x.type = t /\ x.runs <= 1 /\ x.state = "done"
      /\ x.elems = Top(g).elems
  BY <1>1, <1>2, <1>4 DEF AnyOnce, GoodOnce
<1>6. once' = [once EXCEPT ![o] = x]
  BY <1>2, <1>3, <1>4 DEF FinishBuild
<1>. HIDE DEF x
<1>7. /\ once' \in Seq(AnyOnce) /\ Len(once') = Len(once) /\ Grows(once, once')
      /\ GoodOnces(once', cache) /\ once'[o] = x
  <2>1. GoodElems(x.elems, x.type, once)
    BY <1>2, <1>5
  <2>2. /\ o \in 1..Len(once) /\ x \in AnyOnce /\ x.type = once[o].type
        /\ x.runs <= 1 /\ x.state # "new" /\ (once[o].state = "done" => x.state = "done")
    BY <1>1, <1>2, <1>5
  <2>. HIDE DEF o, t
  <2>3. LET pp == [once EXCEPT ![o] = x]
        IN  /\ pp \in Seq(AnyOnce) /\ Len(pp) = Len(once) /\ Grows(once, pp)
            /\ GoodOnces(pp, cache) /\ pp[o] = x
    BY <1>3, <2>1, <2>2, OnceChanges
  <2>. QED
    BY <1>6, <2>3
<1>8. GoodCache(cache', once') /\ GoodOnces(once', cache') /\ cache' \in [Types -> AnyFunc]
  BY <1>1, <1>3, <1>7, CacheGrows
<1>9. Direct(o) \in AnyFunc /\ Good(Direct(o), t, once')
  BY <1>2, <1>5, <1>7 DEF Direct, AnyFunc, Good
<1>. HIDE DEF o
<1>. QED
  BY <1>1, <1>7, <1>8, <1>9, ReturnStep

\* encoderCache.Store replaces the indirect function by the encoder.
LEMMA PublishInv ==
  ASSUME Inv, NEW g \in Goroutines, Publish(g)
  PROVE  Inv'
<1>. DEFINE t == Top(g).type
            f == Top(g).fn
<1>1. /\ stack[g] # <<>> /\ Top(g).at = "publish" /\ UNCHANGED once /\ Return(g, f)
      /\ cache' = [cache EXCEPT ![t] = f]
  BY DEF Publish, At
<1>2. t \in Types /\ f \in AnyFunc /\ f # Missing /\ Good(f, t, once)
  <2>1. Top(g) \in AnyCall /\ GoodCall(Top(g), once) /\ Supplied(Top(g))
    BY <1>1, Here
  <2>. QED
    BY <1>1, <2>1 DEF AnyCall, GoodCall, Supplied
<1>3. /\ once \in Seq(AnyOnce) /\ cache \in [Types -> AnyFunc] /\ GoodOnces(once, cache)
      /\ GoodCache(cache, once)
  BY DEF Inv, Typed
<1>. HIDE DEF f, t
<1>4. /\ cache' \in [Types -> AnyFunc]
      /\ \A u \in Types : cache'[u] = IF u = t THEN f ELSE cache[u]
  BY <1>1, <1>2, <1>3
<1>5. GoodCache(cache', once)
  BY <1>2, <1>3, <1>4 DEF GoodCache
<1>6. GoodOnces(once, cache')
  <2>1. \A o \in 1..Len(once) : once[o].type \in Types
    <3>1. \A o \in 1..Len(once) : once[o] \in AnyOnce
      BY <1>3, ElementOfSeq
    <3>. QED
      BY <3>1 DEF AnyOnce
  <2>. QED
    BY <1>2, <1>3, <1>4, <2>1 DEF GoodOnces
<1>7. /\ Grows(once, once') /\ once' \in Seq(AnyOnce)
      /\ GoodOnces(once', cache') /\ GoodCache(cache', once') /\ Good(f, t, once')
  BY <1>1, <1>2, <1>3, <1>5, <1>6, SameGrows
<1>. QED
  BY <1>1, <1>2, <1>4, <1>7, ReturnStep DEF t

\* An indirect function waits for the once object before it calls the encoder.
LEMMA CallIndirectInv ==
  ASSUME Inv, NEW g \in Goroutines, CallIndirect(g)
  PROVE  Inv'
<1>. DEFINE c == Top(g)
            t == c.type
            o == c.fn.id
            d == Call("once", t, o)
<1>1. /\ stack[g] # <<>> /\ c.at = "encode" /\ UNCHANGED <<cache, once>>
      /\ Become(g, <<c, d>>)
  BY DEF CallIndirect, At
<1>2. c \in AnyCall /\ GoodCall(c, once) /\ c.fn # Missing /\ Good(c.fn, t, once)
  <2>1. c \in AnyCall /\ GoodCall(c, once) /\ Supplied(c)
    BY <1>1, Here
  <2>. QED
    BY <1>1, <2>1 DEF GoodCall, Supplied
<1>3. /\ t \in Types /\ o \in Nat /\ o <= Len(once) /\ o >= 1 /\ once[o].type = t
      /\ Len(once) \in Nat
  BY <1>2, SameGrows DEF AnyCall, AnyFunc, Good
<1>4. \A j \in 1..(Len(stack[g]) - 1) : Ordered(stack[g][j], c)
  BY <1>1, Here
<1>5. d \in AnyCall /\ GoodCall(d, once) /\ d.at = "once" /\ d.type = t
  <2>1. "once" \in Places
    BY DEF Places
  <2>. HIDE DEF o, t
  <2>. QED
    BY <1>3, <2>1, NewCall
<1>. HIDE DEF d
<1>6. /\ Over(c, d) /\ Ordered(c, d) /\ Supplied(d) /\ Replaces(c, c)
      /\ \A j \in 1..(Len(stack[g]) - 1) : Ordered(stack[g][j], d)
  BY <1>1, <1>4, <1>5 DEF Over, Ordered, Supplied, Replaces
<1>7. GoodCall(c, once') /\ GoodCall(d, once')
  BY <1>1, <1>2, <1>5
<1>. HIDE DEF c
<1>. QED
  BY <1>1, <1>2, <1>5, <1>6, <1>7, SameOnces, CallStep DEF c

\* An encoder calls the function it holds for the next element.
LEMMA EncodeElemInv ==
  ASSUME Inv, NEW g \in Goroutines, EncodeElem(g)
  PROVE  Inv'
<1>. DEFINE top   == Top(g)
            elems == once[top.fn.id].elems
            i     == top.next + 1
            t     == Elems[top.type][i]
            c     == [top EXCEPT !.next = i]
            d     == [Call("encode", t, 0) EXCEPT !.fn = elems[i]]
<1>1. /\ stack[g] # <<>> /\ top.at = "encode" /\ UNCHANGED <<cache, once>>
      /\ i <= Len(elems)
      /\ Become(g, <<c>>) \/ Become(g, <<c, d>>)
  BY DEF EncodeElem, At
<1>2. top \in AnyCall /\ GoodCall(top, once) /\ top.fn # Missing /\ Good(top.fn, top.type, once)
  <2>1. top \in AnyCall /\ GoodCall(top, once) /\ Supplied(top)
    BY <1>1, Here
  <2>. QED
    BY <1>1, <2>1 DEF GoodCall, Supplied
<1>3. /\ top.type \in Types /\ i \in Nat /\ i >= 1
      /\ elems \in Seq(AnyFunc) /\ GoodElems(elems, top.type, once)
  <2>1. once \in Seq(AnyOnce) /\ GoodOnces(once, cache)
    BY DEF Inv, Typed
  <2>2. top.fn.id \in 1..Len(once) /\ once[top.fn.id].type = top.type
    BY <1>2 DEF Good
  <2>3. once[top.fn.id] \in AnyOnce /\ GoodOnce(once[top.fn.id], once)
    BY <2>1, <2>2, ElementOfSeq DEF GoodOnces
  <2>. HIDE DEF top
  <2>. QED
    BY <1>2, <2>2, <2>3 DEF AnyCall, AnyOnce, GoodOnce
<1>. HIDE DEF elems, i
<1>4. /\ i \in 1..Len(elems) /\ elems[i] \in AnyFunc /\ Good(elems[i], t, once)
      /\ t \in Types
  <2>1. Len(elems) \in Nat /\ Len(Elems[top.type]) \in Nat /\ Elems[top.type] \in Seq(Types)
    BY <1>3, ElemsAssumption, LenProperties
  <2>2. i \in 1..Len(elems) /\ Len(elems) <= Len(Elems[top.type])
    BY <1>1, <1>3, <2>1 DEF GoodElems
  <2>3. i \in 1..Len(Elems[top.type])
    BY <2>1, <2>2
  <2>. HIDE DEF top
  <2>. QED
    BY <1>3, <2>1, <2>2, <2>3, ElementOfSeq DEF GoodElems
<1>. HIDE DEF t
<1>5. /\ c \in AnyCall /\ c.at = top.at /\ c.id = top.id /\ c.type = top.type
      /\ c.fn = top.fn /\ c.elems = top.elems
  <2>. HIDE DEF top
  <2>. QED
    BY <1>2, <1>3 DEF AnyCall
<1>6. d \in AnyCall /\ GoodCall(d, once) /\ d.at = "encode" /\ d.type = t /\ d.fn # Missing
  <2>. DEFINE e == Call("encode", t, 0)
  <2>1. "encode" \in Places /\ Len(once) \in Nat
    BY SameGrows DEF Places
  <2>2. /\ e \in AnyCall /\ GoodCall(e, once) /\ e.at = "encode" /\ e.type = t
    BY <1>4, <2>1, NewCall
  <2>. HIDE DEF e
  <2>3. d = [e EXCEPT !.fn = elems[i]]
    BY DEF e
  <2>. HIDE DEF d
  <2>4. /\ d \in AnyCall /\ d.at = "encode" /\ d.type = t /\ d.fn = elems[i] /\ d.id = e.id
        /\ d.elems = e.elems
    BY <1>4, <2>2, <2>3 DEF AnyCall
  <2>5. d.fn # Missing
    BY <1>4, <2>4 DEF Good, Missing
  <2>. QED
    BY <1>4, <2>2, <2>4, <2>5 DEF GoodCall
<1>. HIDE DEF c, d
<1>7. /\ GoodCall(c, once') /\ GoodCall(d, once')
      /\ Replaces(c, top) /\ Supplied(c) /\ Supplied(d) /\ Over(c, d) /\ Ordered(c, d)
  BY <1>1, <1>2, <1>5, <1>6 DEF GoodCall, Replaces, Supplied, Over, Ordered
<1>8. \A j \in 1..(Len(stack[g]) - 1) : Ordered(stack[g][j], d)
  <2>1. \A j \in 1..(Len(stack[g]) - 1) : Ordered(stack[g][j], top)
    BY <1>1, Here
  <2>. QED
    BY <1>1, <1>6, <2>1 DEF Ordered
<1>9. CASE Become(g, <<c>>)
  BY <1>1, <1>5, <1>7, <1>9, SameOnces, BecomeStep
<1>10. CASE Become(g, <<c, d>>)
  BY <1>1, <1>5, <1>6, <1>7, <1>8, <1>10, SameOnces, CallStep
<1>. QED
  BY <1>1, <1>9, <1>10

\* interfaceEncoder goes on with what the interface holds: two calls are made at once.
LEMMA EncodeInterfaceInv ==
  ASSUME Inv, NEW g \in Goroutines, NEW t \in Types, EncodeInterface(g, t)
  PROVE  Inv'
<1>. DEFINE st == stack[g]
            c  == [Top(g) EXCEPT !.next = 1]
            d  == Call("encode", t, 0)
            e  == Call("lookup", t, 0)
            b  == SubSeq(st, 1, Len(st) - 1)
            p  == b \o <<c>>
<1>1. /\ st # <<>> /\ Top(g).at = "encode" /\ UNCHANGED <<cache, once>>
      /\ stack' = [stack EXCEPT ![g] = b \o (<<c>> \o <<d, e>>)]
  BY DEF EncodeInterface, At, Become, Below, ReflectValue
<1>2. /\ st \in Seq(AnyCall) /\ Calls(st, once) /\ Len(st) \in Nat /\ Len(st) >= 1
      /\ Top(g) \in AnyCall /\ GoodCall(Top(g), once) /\ Top(g).fn # Missing
      /\ \A i \in 1..(Len(st) - 1) : Ordered(st[i], Top(g))
  BY <1>1, Here DEF Supplied
<1>3. /\ c \in AnyCall /\ GoodCall(c, once) /\ Replaces(c, Top(g)) /\ c.at = "encode"
      /\ c.fn # Missing
  <2>1. /\ c \in AnyCall /\ c.at = Top(g).at /\ c.type = Top(g).type /\ c.id = Top(g).id
        /\ c.fn = Top(g).fn /\ c.elems = Top(g).elems
    BY <1>2 DEF AnyCall
  <2>. QED
    BY <1>1, <1>2, <2>1 DEF GoodCall, Replaces
<1>4. /\ d \in AnyCall /\ GoodCall(d, once) /\ d.at = "encode" /\ d.type = t
      /\ e \in AnyCall /\ GoodCall(e, once) /\ e.at = "lookup" /\ e.type = t
  BY SameGrows, NewCall DEF Places
<1>5. /\ b \in Seq(AnyCall) /\ p \in Seq(AnyCall) /\ Calls(p, once) /\ p # <<>>
      /\ Len(p) = Len(st) /\ p[Len(p)] = c
      /\ \A i \in 1..(Len(st) - 1) : p[i] = st[i]
  <2>. HIDE DEF c
  <2>1. /\ Len(st) = 1 => c.at = "encode"
        /\ Len(st) > 1 => Over(st[Len(st) - 1], c)
        /\ \A i \in 1..(Len(st) - 1) : Ordered(st[i], c)
    BY <1>1, <1>3, InPlace
  <2>. QED
    BY <1>1, <1>2, <1>3, <2>1, ReplaceCall
<1>. HIDE DEF c, d, e
<1>6. b \o (<<c>> \o <<d, e>>) = Append(Append(p, d), e)
  <2>. HIDE DEF b
  <2>1. <<c>> \in Seq(AnyCall) /\ <<d, e>> \in Seq(AnyCall) /\ <<d>> \in Seq(AnyCall)
        /\ <<d, e>> = Append(<<d>>, e)
    BY <1>3, <1>4
  <2>2. b \o (<<c>> \o <<d, e>>) = p \o <<d, e>>
    BY <1>5, <2>1, ConcatAssociative
  <2>3. <<e>> \in Seq(AnyCall) /\ <<d, e>> = <<d>> \o <<e>>
    <3>. DEFINE u == <<d>>
    <3>1. u \in Seq(AnyCall)
      BY <2>1
    <3>. HIDE DEF u
    <3>2. Append(u, e) = u \o <<e>>
      BY <1>4, <3>1, AppendIsConcat
    <3>. QED
      BY <1>4, <2>1, <3>2 DEF u
  <2>. HIDE DEF p
  <2>4. p \o (<<d>> \o <<e>>) = (p \o <<d>>) \o <<e>>
    BY <1>5, <2>1, <2>3, ConcatAssociative
  <2>5. p \o <<d>> = Append(p, d) /\ Append(p, d) \in Seq(AnyCall)
    BY <1>4, <1>5, AppendIsConcat, AppendProperties
  <2>6. Append(p, d) \o <<e>> = Append(Append(p, d), e)
    BY <1>4, <2>5, AppendIsConcat
  <2>. QED
    BY <2>2, <2>3, <2>4, <2>5, <2>6
<1>. HIDE DEF b, p
<1>7. \A i \in 1..Len(p) : p[i].at = "encode"
  <2>1. \A i \in 1..Len(p) : i \in 1..(Len(st) - 1) \/ i = Len(p)
    BY <1>2, <1>5
  <2>. QED
    BY <1>1, <1>2, <1>3, <1>5, <2>1 DEF Ordered
<1>8. LET q == Append(p, d)
      IN  /\ q \in Seq(AnyCall) /\ Calls(q, once) /\ q # <<>> /\ q[Len(q)] = d
          /\ Len(q) = Len(p) + 1 /\ \A i \in 1..Len(p) : q[i] = p[i]
          /\ q[Len(p) + 1] = d
  <2>1. Over(p[Len(p)], d)
    BY <1>3, <1>4, <1>5 DEF Over
  <2>2. \A i \in 1..Len(p) : Ordered(p[i], d)
    BY <1>4, <1>7 DEF Ordered
  <2>. QED
    BY <1>4, <1>5, <2>1, <2>2, PushCall
<1>. DEFINE q == Append(p, d)
<1>9. Append(q, e) \in Seq(AnyCall) /\ GoodStack(Append(q, e), once)
  <2>1. q \in Seq(AnyCall) /\ Calls(q, once) /\ q # <<>> /\ Over(q[Len(q)], e)
    BY <1>4, <1>8 DEF Over
  <2>2. \A i \in 1..Len(q) : Ordered(q[i], e)
    BY <1>4 DEF Ordered
  <2>. HIDE DEF q
  <2>3. /\ Append(q, e) \in Seq(AnyCall) /\ Calls(Append(q, e), once)
        /\ Append(q, e)[Len(Append(q, e))] = e
    BY <1>4, <2>1, <2>2, PushCall
  <2>. QED
    BY <1>4, <2>3 DEF GoodStack, Supplied
<1>. QED
  BY <1>1, <1>6, <1>9, Moved

\* An encoder has written the value and returns.
LEMMA EncodeEndInv ==
  ASSUME Inv, NEW g \in Goroutines, EncodeEnd(g)
  PROVE  Inv'
<1>. DEFINE st == stack[g]
            n  == Len(st) - 1
            b  == SubSeq(st, 1, n)
<1>1. /\ st # <<>> /\ Top(g).at = "encode" /\ UNCHANGED <<cache, once>>
      /\ stack' = [stack EXCEPT ![g] = Below(g) \o <<>>] /\ Below(g) = b
  BY DEF EncodeEnd, At, Become, Below
<1>2. /\ st \in Seq(AnyCall) /\ Calls(st, once) /\ Len(st) \in Nat /\ Len(st) >= 1
      /\ Len(st) > 1 => Over(st[Len(st) - 1], Top(g))
      /\ \A i \in 1..(Len(st) - 1) : Ordered(st[i], Top(g))
  BY <1>1, Here
<1>3. n \in 0..Len(st) /\ (n >= 1 => n \in 1..n /\ Len(st) > 1)
  BY <1>2
<1>4. /\ b \in Seq(AnyCall) /\ Len(b) = n /\ Calls(b, once)
      /\ \A i \in 1..n : b[i] = st[i]
  BY <1>2, <1>3, BelowCalls
<1>5. n >= 1 => Supplied(st[n])
  BY <1>1, <1>2, <1>3 DEF Over, Ordered, Supplied
<1>. HIDE DEF b
<1>6. b # <<>> => n >= 1
  BY <1>3, <1>4, EmptySeq
<1>7. GoodStack(b, once)
  BY <1>3, <1>4, <1>5, <1>6 DEF GoodStack
<1>8. b \o <<>> = b
  BY <1>4, ConcatEmptySeq
<1>. QED
  BY <1>1, <1>4, <1>7, <1>8, Moved

\* At first nothing is stored and no goroutine encodes.
LEMMA InitInv == Init => Inv
<1>. SUFFICES ASSUME Init PROVE Inv
  OBVIOUS
<1>1. Missing \in AnyFunc /\ once = <<>> /\ Len(once) = 0
  BY EmptySeq DEF Init, Missing, AnyFunc
<1>2. Typed
  BY <1>1, EmptySeq DEF Init, Typed
<1>3. GoodOnces(once, cache) /\ GoodCache(cache, once)
  BY <1>1 DEF GoodOnces, GoodCache, Init
<1>4. \A g \in Goroutines : stack[g] = <<>> /\ Len(stack[g]) = 0
  BY EmptySeq DEF Init
<1>5. \A g \in Goroutines : GoodStack(stack[g], once)
  BY <1>4 DEF GoodStack, Calls
<1>. QED
  BY <1>2, <1>3, <1>5 DEF Inv

\* Every step of every goroutine keeps the inductive invariant.
LEMMA NextInv == Inv /\ [Next]_vars => Inv'
<1>. SUFFICES ASSUME Inv, [Next]_vars PROVE Inv'
  OBVIOUS
<1>1. ASSUME NEW g \in Goroutines, Step(g) PROVE Inv'
  BY <1>1, LoadInv, LoadOrStoreInv, RunOnceInv, AwaitOnceInv, BuildElemInv, FinishBuildInv,
     PublishInv, CallIndirectInv, EncodeElemInv, EncodeEndInv, EncodeInterfaceInv
     DEF Step, Dynamic
<1>2. ASSUME NEW g \in Goroutines, NEW t \in Dynamic, Begin(g, t) PROVE Inv'
  BY <1>2, BeginInv DEF Dynamic
<1>3. CASE UNCHANGED vars
  BY <1>3 DEF vars, Inv, Typed
<1>. QED
  BY <1>1, <1>2, <1>3 DEF Next

\* The inductive invariant holds in every reachable state.
THEOREM TypeCacheInvariant == Spec => []Inv
<1>. QED
  BY InitInv, NextInv, PTL DEF Spec

-----------------------------------------------------------------------------
(***************************************************************************)
(* The invariants of TypeCache.                                            *)
(***************************************************************************)
\* A sequence whose elements lie in T is a sequence over T.
LEMMA SeqInto ==
  ASSUME NEW S, NEW s \in Seq(S), NEW T, \A i \in 1..Len(s) : s[i] \in T
  PROVE  s \in Seq(T)
<1>1. Range(s) = {s[i] : i \in 1..Len(s)}
  BY RangeEquality
<1>2. Range(s) \subseteq T
  BY <1>1
<1>3. s \in Seq(Range(s))
  BY SeqOfRange
<1>. HIDE <1>1
<1>. QED
  BY <1>2, <1>3, SeqMonotonic

\* Every function in the cache, in a once object and on a stack belongs to a once
\* object that exists.
THEOREM TypeCacheTypeOK == Spec => []TypeOK
<1>1. Inv => TypeOK
  <2>. SUFFICES ASSUME Inv PROVE TypeOK
    OBVIOUS
  <2>1. Len(once) \in Nat
    BY SameGrows
  <2>2. \A f \in AnyFunc : f = Missing \/ f.id \in 1..Len(once) => f \in Func \cup {Missing}
    BY DEF AnyFunc, Func
  <2>3. ASSUME NEW e \in Seq(AnyFunc), NEW t, GoodElems(e, t, once) PROVE e \in Seq(Func)
    <3>1. \A i \in 1..Len(e) : e[i] \in AnyFunc /\ e[i].id \in 1..Len(once)
      BY <2>3, ElementOfSeq DEF GoodElems, Good
    <3>2. \A i \in 1..Len(e) : e[i] \in Func
      BY <3>1 DEF AnyFunc, Func
    <3>. QED
      BY <3>2, SeqInto
  <2>4. cache \in [Types -> Func \cup {Missing}]
    <3>1. \A t \in Types : cache[t] \in AnyFunc /\ (cache[t] = Missing \/ cache[t].id \in 1..Len(once))
      BY DEF Inv, Typed, GoodCache, Good
    <3>. QED
      BY <2>2, <3>1 DEF Inv, Typed
  <2>5. ASSUME NEW o \in 1..Len(once)
        PROVE  once[o] \in [type : Types, state : {"new", "running", "done"}, runs : Nat,
                            elems : Seq(Func)]
    <3>1. once[o] \in AnyOnce /\ GoodElems(once[o].elems, once[o].type, once)
      BY ElementOfSeq DEF Inv, Typed, GoodOnces, GoodOnce
    <3>2. once[o].elems \in Seq(Func)
      BY <2>3, <3>1 DEF AnyOnce
    <3>. QED
      BY <3>1, <3>2 DEF AnyOnce
  <2>6. ASSUME NEW g \in Goroutines, NEW i \in 1..Len(stack[g])
        PROVE  stack[g][i] \in [at : Places, type : Types, id : 0..Len(once),
                                fn : Func \cup {Missing}, elems : Seq(Func), next : Nat]
    <3>. DEFINE c == stack[g][i]
    <3>1. stack[g] \in Seq(AnyCall) /\ Calls(stack[g], once)
      BY DEF Inv, Typed, GoodStack
    <3>2. c \in AnyCall /\ GoodCall(c, once)
      BY <3>1, ElementOfSeq DEF Calls
    <3>. HIDE DEF c
    <3>3. c.elems \in Seq(Func)
      BY <2>3, <3>2 DEF AnyCall, GoodCall
    <3>4. c.fn \in Func \cup {Missing}
      BY <2>2, <3>2 DEF AnyCall, GoodCall, Good
    <3>5. c.id \in 0..Len(once)
      BY <2>1, <3>2 DEF AnyCall, GoodCall
    <3>6. c \in [at : Places, type : Types, id : 0..Len(once),
                 fn : Func \cup {Missing}, elems : Seq(Func), next : Nat]
      BY <3>2, <3>3, <3>4, <3>5 DEF AnyCall
    <3>. QED
      BY <3>6 DEF c
  <2>. QED
    BY <2>4, <2>5, <2>6 DEF TypeOK, Places
<1>. QED
  BY <1>1, TypeCacheInvariant, PTL

\* newTypeEncoder runs at most once for a type, however many goroutines race for it.
THEOREM TypeCacheBuiltOnce == Spec => []BuiltOnce
<1>1. Inv => BuiltOnce
  BY DEF Inv, GoodOnces, GoodOnce, BuiltOnce
<1>. QED
  BY <1>1, TypeCacheInvariant, PTL

\* Whatever is stored or called for a type encodes values of that type.
THEOREM TypeCacheRightEncoder == Spec => []RightEncoder
<1>1. Inv => RightEncoder
  <2>. SUFFICES ASSUME Inv PROVE RightEncoder
    OBVIOUS
  <2>1. \A t \in Types : Encodes(cache[t], t)
    BY DEF Inv, GoodCache, Good, Encodes
  <2>2. \A g \in Goroutines : \A i \in 1..Len(stack[g]) :
          stack[g][i].at = "encode" => Encodes(stack[g][i].fn, stack[g][i].type)
    BY DEF Inv, GoodStack, Calls, GoodCall, Good, Encodes
  <2>3. \A o \in 1..Len(once) : \A i \in 1..Len(once[o].elems) :
          Encodes(once[o].elems[i], Elems[once[o].type][i])
    BY DEF Inv, GoodOnces, GoodOnce, GoodElems, Good, Encodes
  <2>. QED
    BY <2>1, <2>2, <2>3 DEF RightEncoder
<1>. QED
  BY <1>1, TypeCacheInvariant, PTL

\* No goroutine can see a direct encoder that is still being built.
THEOREM TypeCacheDirectIsBuilt == Spec => []DirectIsBuilt
<1>1. Inv => DirectIsBuilt
  <2>. SUFFICES ASSUME Inv PROVE DirectIsBuilt
    OBVIOUS
  <2>1. ~Missing.direct
    BY DEF Missing
  <2>2. \A t \in Types : Built(cache[t])
    BY <2>1 DEF Inv, GoodCache, Good, Built
  <2>3. \A g \in Goroutines : \A i \in 1..Len(stack[g]) : Built(stack[g][i].fn)
    BY <2>1 DEF Inv, GoodStack, Calls, GoodCall, Good, Built
  <2>. QED
    BY <2>2, <2>3 DEF DirectIsBuilt
<1>. QED
  BY <1>1, TypeCacheInvariant, PTL

\* Goroutines that build types which refer to each other never wait in a circle: a
\* goroutine waits for a once object that is younger than those it runs itself, so the
\* one that waits for the youngest does not wait for any of the others.
THEOREM TypeCacheNoWaitingCycle == Spec => []NoWaitingCycle
<1>1. ASSUME Inv, NEW h \in Goroutines, NEW o, NEW p, Runs(h, o), Waits(h, p)
      PROVE  o < p
  <2>1. PICK i \in 1..Len(stack[h]) : stack[h][i].at = "build" /\ stack[h][i].id = o
    BY <1>1 DEF Runs
  <2>2. stack[h] # <<>> /\ Top(h).at = "once" /\ Top(h).id = p
    BY <1>1 DEF Waits, At
  <2>3. /\ Top(h) = stack[h][Len(stack[h])] /\ Len(stack[h]) \in Nat
        /\ \A j \in 1..(Len(stack[h]) - 1) : Ordered(stack[h][j], Top(h))
    BY <1>1, <2>2, Here
  <2>4. i # Len(stack[h])
    BY <2>1, <2>2, <2>3
  <2>5. i \in 1..(Len(stack[h]) - 1)
    BY <2>1, <2>3, <2>4
  <2>. QED
    BY <2>1, <2>2, <2>3, <2>5 DEF Ordered
<1>2. Inv => NoWaitingCycle
  <2>. SUFFICES ASSUME Inv, NEW S \in SUBSET Goroutines, S # {},
                       \A g \in S : \E h \in S : WaitsFor(g, h)
                PROVE  FALSE
    BY DEF NoWaitingCycle
  <2>. DEFINE O == {o \in 1..Len(once) : \E g \in S : Waits(g, o)}
  <2>1. Len(once) \in Nat /\ O \subseteq 0..Len(once)
    BY SameGrows
  <2>2. O # {}
    <3>1. PICK g \in S : TRUE
      OBVIOUS
    <3>. QED
      BY <3>1 DEF WaitsFor
  <2>. HIDE DEF O
  <2>3. PICK o \in O : \A p \in O : p <= o
    BY <2>1, <2>2, GreatestNatural
  <2>4. PICK g \in S : o \in 1..Len(once) /\ Waits(g, o)
    BY <2>3 DEF O
  <2>5. PICK h \in S : WaitsFor(g, h)
    OBVIOUS
  <2>6. Runs(h, o)
    BY <2>4, <2>5 DEF WaitsFor, Waits
  <2>7. PICK k \in S : WaitsFor(h, k)
    OBVIOUS
  <2>8. PICK p \in 1..Len(once) : Waits(h, p)
    BY <2>7 DEF WaitsFor
  <2>9. p \in O
    BY <2>8 DEF O
  <2>10. o < p
    BY <1>1, <2>6, <2>8
  <2>. QED
    BY <2>1, <2>3, <2>9, <2>10
<1>. QED
  BY <1>2, TypeCacheInvariant, PTL
===============================================================================
