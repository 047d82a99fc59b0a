----------------------------- MODULE ParserClaims -----------------------------
(***************************************************************************)
(* What the comments of the source say of decoding and the code does not   *)
(* do: each is the property of a run that finds it violated.               *)
(***************************************************************************)
EXTENDS MCParser

\* Structs of which the target has one field of two
UnknownFields ==
  {In(v, Block, StructOf([k \in {known} |-> AnyType])) :
     known \in {A, C}, v \in {m \in Maps({Word} \cup Lists({Word}, 1) \cup Maps({Word}, {X}), {A, C}) :
                                DOMAIN m[2] = {A, C}}}

\* What the target has no field for is skipped, and only that: "skip scans to the end
\* of what was started" (decode.go:217).
OnlyUnknownSkipped == Done => outcome = "ok" /\ ret = input.value

\* "This limits the max nesting depth to prevent stack overflow" (scanner.go:162): of
\* the calls of array and object no more are running than the limit on the stack of
\* the scanner says, the stack of the decoder being the one of Go.
NestingIsLimited == Cardinality(Collections) <= MaxNestingDepth
===============================================================================
