---------------------------- MODULE MCTokenDecoder ----------------------------
(***************************************************************************)
(* Streams of flow collections, well formed and not, for TokenDecoder.     *)
(***************************************************************************)
EXTENDS TokenDecoder, SequencesExt

Quote(k) == <<"dq", k, "dq">>

\* What a stream is put together from
ArrayPieces  == {<<"[">>, <<"]">>, <<",">>, Quote("a")}
ObjectPieces == {<<"{">>, <<"}">>, <<",">>, <<":">>, Quote("a")}
Others       == {<<"a">>, <<"SP">>, <<"LF">>}

FlowStreams(S, n) ==
  {[docs |-> <<>>, bytes |-> FlattenSeq(q)] : q \in UNION {[1..m -> S] : m \in 1..n}}

Short == FlowStreams(ArrayPieces, 4) \cup FlowStreams(ObjectPieces, 4)
           \cup FlowStreams(ArrayPieces \cup ObjectPieces \cup Others, 3)

\* Long streams, as a caller would read them
Long ==
  {[docs |-> <<>>, bytes |-> b] :
     b \in {<<"[", "{", "}", ",">> \o Quote("a") \o <<",", "[", "]", "]">>,
            <<"{">> \o Quote("a") \o <<":", "[">> \o Quote("c") \o <<"]", "}">>,
            <<"[">> \o Quote("a") \o <<"SP", ",", "SP">> \o Quote("c") \o <<"]", "LF", "[", "]">>}}

Mixed == Short \cup Long

\* Well-formed arrays, of quoted and of plain scalars
Arrays == {[docs |-> <<>>, bytes |-> <<"[">> \o k \o <<"]">>] : k \in {<<>>, Quote("a"), <<"a">>}}
===============================================================================
