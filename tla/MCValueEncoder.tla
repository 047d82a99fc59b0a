---------------------------- MODULE MCValueEncoder ----------------------------
(***************************************************************************)
(* Graphs of five values for ValueEncoder: a struct, a pointer, a map, a   *)
(* slice and an inner value, with shared references and cycles.            *)
(***************************************************************************)
EXTENDS ValueEncoder, TLC

ANames == {"a", "a1", "a2"}

\* uniqueAnchorName tries two suffixes here, ninety-nine in the code.
ASuffixes == [n \in ANames |-> IF n = "a" THEN <<"a1", "a2">> ELSE <<>>]

To(n)          == [to |-> n, anchor |-> NoName, alias |-> NoName, flow |-> FALSE]
AnchorTo(n, a) == [To(n) EXCEPT !.anchor = a]
AliasTo(n, a)  == [To(n) EXCEPT !.alias = a]
FlowTo(n)      == [To(n) EXCEPT !.flow = TRUE]

Val5(kind, n, elems) == [kind |-> kind, addr |-> n, elems |-> elems]

FieldLists ==
  { <<To(2), To(4), To(3)>>,
    <<FlowTo(2), To(2), FlowTo(4)>>,
    <<AnchorTo(2, "a"), AliasTo(2, "a"), To(4)>>,
    <<AnchorTo(2, "a"), AliasTo(2, "a1")>>,
    <<AnchorTo(2, "a"), AnchorTo(3, "a"), AnchorTo(4, "a"), AliasTo(4, "a2")>>,
    <<AnchorTo(3, "a1"), AnchorTo(2, "a"), AnchorTo(4, "a"), To(2)>>,
    <<AnchorTo(3, "a1"), AnchorTo(4, "a1")>>,
    <<AnchorTo(4, "a"), AnchorTo(4, "a1"), AnchorTo(2, "a")>>,
    <<>> }

Pointers == {<<>>, <<To(1)>>, <<To(3)>>, <<To(5)>>}
Maps     == {<<>>, <<To(2), To(5)>>, <<To(3)>>, <<To(4)>>}
Slices   == {<<>>, <<To(2), To(3)>>, <<To(5), To(2)>>}
Inner    == {Val5("scalar", 5, <<>>), Val5("interface", 5, <<To(2)>>),
             Val5("struct", 5, <<AnchorTo(2, "a"), FlowTo(3)>>)}

\* A map or slice without elements is nil.
Collection(kind, n, elems) == Val5(kind, IF elems = <<>> THEN 0 ELSE n, elems)

Sharing ==
  {<<Val5("struct", 1, fields), Val5("pointer", 2, p), Collection("map", 3, m),
     Collection("slice", 4, s), inner>> :
     fields \in FieldLists, p \in Pointers, m \in Maps, s \in Slices, inner \in Inner}

\* Their cycles pass a pointer or a map, whichever values they have.
SharingRank == <<3, 0, 0, 2, 1>>

ASSUME SharingRanked == \A g \in Sharing : SharingRank \in Ranks(g)

\* type S []S; s[0] = s
CyclicSlice ==
  {<<Val5("slice", 1, <<To(1)>>), Val5("scalar", 2, <<>>), Val5("scalar", 3, <<>>),
     Val5("scalar", 4, <<>>), Val5("scalar", 5, <<>>)>>}
===============================================================================
