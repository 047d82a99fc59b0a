------------------------------- MODULE MCDecoder -------------------------------
(***************************************************************************)
(* Streams for the Decoder: documents rendered one after the other.        *)
(***************************************************************************)
EXTENDS Decoder, SequencesExt

Mapping(k)  == <<k, ":", "SP", "1">>
Nested(k)   == <<k, ":", "LF", "SP", "x", ":", "1">>
Sequence(k) == <<"-", "SP", k>>

\* Sequences of up to n distinct members of S
Distinct(S, n) ==
  {q \in UNION {[1..m -> S] : m \in 0..n} : \A i, j \in DOMAIN q : q[i] = q[j] => i = j}

Separator == Dashes \o <<"LF">>

Preceded(d) == Separator \o d \o <<"LF">>

\* Every document after a "---" line, the first one too.
Leading(head, ds) ==
  [docs |-> ds, bytes |-> head \o FlattenSeq([i \in DOMAIN ds |-> Preceded(ds[i])])]

\* What Encoder.Encode writes: no separator before the first document.
Encoded(ds) ==
  [docs |-> ds,
   bytes |-> IF ds = <<>> THEN <<>>
             ELSE ds[1] \o <<"LF">> \o FlattenSeq([i \in 1..(Len(ds) - 1) |-> Preceded(ds[i + 1])])]

Blocks == {Mapping("a"), Nested("c"), Sequence("n")}

Comment == <<"LF", "#", "LF">>

BlockStreams ==
  {Leading(h, ds) : h \in {<<>>, Comment}, ds \in Distinct(Blocks, 3) \ {<<>>}} \cup {Leading(<<>>, <<>>)}

EncodedStreams == {Encoded(ds) : ds \in Distinct(Blocks, 2)}

===============================================================================
