------------------------------- MODULE MCParser -------------------------------
(***************************************************************************)
(* Inputs of the Parser: texts that Marshal has written, with the value    *)
(* the target is to get, and all texts of a few bytes.                     *)
(***************************************************************************)
EXTENDS Parser, ValueText

\* Options of Marshal, and names of keys, fields and anchors.
Block == [indent |-> 2, sequence |-> FALSE, flow |-> FALSE, json |-> FALSE,
          literal |-> FALSE, single |-> FALSE]
Wide  == [Block EXCEPT !.indent = 4, !.sequence = TRUE]
Flow  == [Block EXCEPT !.flow = TRUE]
Json  == [Flow EXCEPT !.json = TRUE]

A == <<"a">>
C == <<"c">>
X == <<"x">>

-----------------------------------------------------------------------------
(***************************************************************************)
(* What Unmarshal is to give for a value and a target: the reference the   *)
(* model is compared with.                                                 *)
(***************************************************************************)
\* The value that is meant, without the anchors of its text
RECURSIVE Meant(_)
Meant(v) ==
  CASE v[1] = "fields" ->
         Mapping([n \in {v[2][i].name : i \in DOMAIN v[2]} |->
                    Meant((CHOOSE f \in ToSet(v[2]) : f.name = n).val)])
    [] v[1] = "alias" -> Meant(v[3])
    [] v[1] = "list"  -> List([i \in DOMAIN v[2] |-> Meant(v[2][i])])
    [] v[1] = "map"   -> Mapping([k \in DOMAIN v[2] |-> Meant(v[2][k])])
    [] OTHER -> v

\* A target holds of the value what its type has a place for.
RECURSIVE Fitted(_, _)
Fitted(v, t) ==
  CASE Kind(t) = "string"  -> Text(v[2])
    [] Kind(t) = "slice"   -> List([i \in DOMAIN v[2] |-> Fitted(v[2][i], t[2])])
    [] Kind(t) = "array"   ->
         List([i \in 1..t[3] |-> IF i \in DOMAIN v[2] THEN Fitted(v[2][i], t[2]) ELSE Zero(t[2])])
    [] Kind(t) = "mapping" -> Mapping([k \in DOMAIN v[2] |-> Fitted(v[2][k], t[2])])
    [] Kind(t) = "struct"  ->
         Mapping([k \in DOMAIN t[2] |->
                    IF k \in DOMAIN v[2] THEN Fitted(v[2][k], t[2][k]) ELSE Zero(t[2][k])])
    [] OTHER -> v

\* The type a program would declare for the value
RECURSIVE Declared(_)
CommonType(S) == IF Cardinality(S) = 1 THEN CHOOSE t \in S : TRUE ELSE AnyType
Declared(v) ==
  CASE v[1] = "str"  -> StringType
    [] v[1] = "list" -> SliceOf(CommonType({Declared(v[2][i]) : i \in DOMAIN v[2]}))
    [] v[1] = "map"  -> MapOf(CommonType({Declared(v[2][k]) : k \in DOMAIN v[2]}))
    [] OTHER -> AnyType

In(v, opts, t) == [text |-> Marshaled(v, opts), type |-> t, value |-> Fitted(Meant(v), t)]

-----------------------------------------------------------------------------
(***************************************************************************)
(* Texts the decoder is known not to read back (README, "Known limits").   *)
(***************************************************************************)
RECURSIVE Parts(_)
Parts(v) ==
  {v} \cup CASE v[1] = "list" -> UNION {Parts(v[2][i]) : i \in DOMAIN v[2]}
             [] v[1] = "map"  -> UNION {Parts(v[2][k]) : k \in DOMAIN v[2]}
             [] OTHER -> {}

IsEmpty(v)   == v \in {List(<<>>), Mapping(<<>>)}
HasLines(v)  == v[1] = "str" /\ HasByte(v[2], LineBreak)

LimitOfBlockList(q, t) ==
  \E i \in DOMAIN q :
    \/ q[i][1] = "list" /\ ~IsEmpty(q[i])
    \/ HasLines(q[i]) /\ i < Len(q) /\ t = AnyType
    \/ /\ q[i][1] = "map" /\ ~IsEmpty(q[i])
       /\ \E j \in (i + 1)..Len(q) : IsEmpty(q[j]) \/ HasLines(q[j])

KnownLimit(v, opts, t) ==
  \E p \in Parts(v) :
    \/ opts.flow /\ ~opts.json /\ HasLines(p)
    \/ ~opts.flow /\ p[1] = "list" /\ LimitOfBlockList(p[2], t)

UnreadString(b) ==
  \/ Len(b) > 1 /\ b[1] = ":"
  \/ IsPrefix(<<"-", "-">>, b)
  \/ b \in {<<"<">>, <<"<", "<">>, <<".", ".">>}

-----------------------------------------------------------------------------
(***************************************************************************)
(* Inputs                                                                  *)
(***************************************************************************)
Lists(V, n) == {List(q) : q \in UNION {[1..m -> V] : m \in 0..n}}
Maps(V, K)  == {Mapping(f) : f \in UNION {[D -> V] : D \in SUBSET K}}

Word  == Text(<<"a">>)
Two   == Text(<<"a", "LF", "c">>)
Leaf  == {Word, Number(<<"1">>), Text(<<":">>)}
Twice(V) == Lists(V, 2) \cup Maps(V, {A, C})

\* Collections of collections
Shallow == Twice({Word, Two} \cup Lists(Leaf, 1) \cup Maps(Leaf, {A}))
Inner2  == {List(<<Word, Word>>), Mapping([k \in {A, C} |-> Word])}
Deep    == Twice({Word, Mapping(C :> Mapping(A :> List(<<Word, Word>>)))}
                 \cup {Mapping(A :> v) : v \in Inner2} \cup {List(<<v, Word>>) : v \in Inner2})

Nested ==
  UNION {{In(v, opts, t) : t \in {u \in {AnyType, Declared(v)} : ~KnownLimit(v, opts, u)}} :
           v \in Shallow \cup Deep, opts \in {Block, Wide, Flow, Json}}

\* Scalars at the top, in a sequence and in a mapping
Chars == {"a", "1", ":", "-", "SP", "#", "dq", ",", "]", "\\", "*", "~", "<", "."}
Marks == {"a", ":", "SP", "-", "#"}
Scalars == {b \in {<<>>} \cup [1..1 -> Chars] \cup [1..2 -> Chars] \cup [1..3 -> Marks] :
              ~UnreadString(b)}

Quoting ==
  {In(v, opts, AnyType) : opts \in {Block, Flow},
     v \in UNION {{List(<<Text(b), Word>>), Mapping(C :> Text(b))} : b \in Scalars}}
  \cup {In(Text(b), opts, StringType) : opts \in {[Block EXCEPT !.single = TRUE]}, b \in Scalars}

\* Targets that do not hold all of the value
Narrow ==
  {In(v, Flow, StructOf(t)) : v \in Maps(Twice({Word}), {A, C}),
                              t \in {[k \in {A} |-> AnyType], [k \in {C, X} |-> AnyType]}}
  \cup {In(v, opts, ArrayOf(AnyType, n)) : v \in Lists({Word, Mapping(C :> Word)}, 2),
                                           opts \in {Block, Flow}, n \in {1, 3}}

\* An anchored field, and aliases of it in another field
Field(name, anchor, flow, v) == [name |-> name, anchor |-> anchor, flow |-> flow, val |-> v]
AliasesOf(v) == {Alias(X, v), List(<<Alias(X, v), Word, Alias(X, v)>>),
                 Struct(<<Field(C, <<>>, FALSE, Alias(X, v))>>)}
Twin(v, w, flow) == Struct(<<Field(A, X, flow, v), Field(C, <<>>, FALSE, w)>>)

Aliases ==
  UNION {{In(Twin(v, w, flow), opts, t) :
            w \in AliasesOf(v), flow \in {f \in BOOLEAN : ~(f /\ HasLines(v))},
            opts \in {Block, Wide}, t \in {AnyType, MapOf(AnyType)}}
         \cup {In(Twin(v, Alias(X, v), FALSE), Block, StructOf([k \in {A, C} |-> Declared(v)]))} :
           v \in {Word, Two} \cup Twice({Word})}

\* All texts of a few bytes; a separator that is not complete is left out.
Bytes == {"a", "-", ":", "SP", "LF", "[", "]", "{", ","}
Marked == Bytes \ {"[", "]"}
Texts ==
  {[text |-> b, type |-> AnyType] :
     b \in {q \in UNION {[1..n -> Bytes] : n \in 1..4} \cup [1..5 -> Marked] : Last(q) # "-"}}

\* Targets that have no place for what the text is: skip sets the read index back.
Ill == {SliceOf(StringType), StringType, MapOf(StringType), ArrayOf(AnyType, 1),
        SliceOf(SliceOf(StringType)), StructOf([k \in {A} |-> StringType]),
        SliceOf(StructOf([k \in {A} |-> AnyType]))}
Blocks == [1..5 -> {"a", "-", ":", "SP", "LF"}]
Unfit ==
  {[text |-> b, type |-> t] : b \in [1..3 -> Bytes], t \in Ill}
  \cup {[text |-> b, type |-> SliceOf(StringType)] : b \in Blocks}

\* Mappings whose second key is followed by more keys on its line
KeysOnALine ==
  {[text |-> <<"a", ":", "LF">> \o FlattenSeq([i \in 1..n |-> <<"a", ":", "SP">>]), type |-> AnyType] :
     n \in 1..4}

All == (Unfit \cup Texts) \cup (Nested \cup Quoting \cup Narrow \cup Aliases \cup KeysOnALine)

\* RoundTrip
Done == outcome \notin {"called", "running"}
RoundTrip == Done /\ "value" \in DOMAIN input => outcome = "ok" /\ ret = input.value
===============================================================================
