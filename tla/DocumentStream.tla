----------------------------- MODULE DocumentStream -----------------------------
(***************************************************************************)
(* What a Decoder promises ("Decode reads the next YAML-encoded value from *)
(* its input"): successive calls of Decode deliver the documents of the    *)
(* stream, each of them once and in order, and io.EOF after the last.      *)
(***************************************************************************)
EXTENDS Naturals, Sequences

VARIABLES
  docs,        \* the documents of the stream
  broken,      \* the reader has failed
  delivered,   \* the documents Decode has returned
  result       \* "more", or how the calls of Decode have ended

vars == <<docs, broken, delivered, result>>

Init == broken = FALSE /\ delivered = <<>> /\ result = "more"

Deliver ==
  /\ result = "more"
  /\ Len(delivered) < Len(docs)
  /\ delivered' = Append(delivered, docs[Len(delivered) + 1])
  /\ UNCHANGED <<docs, broken, result>>

Finish ==
  /\ result = "more" /\ delivered = docs
  /\ result' = "EOF"
  /\ UNCHANGED <<docs, broken, delivered>>

\* A failure of the reader, and nothing else, makes Decode fail.
Break == ~broken /\ broken' = TRUE /\ UNCHANGED <<docs, delivered, result>>

Fail ==
  /\ result = "more" /\ broken
  /\ result' = "error"
  /\ UNCHANGED <<docs, broken, delivered>>

Next == Deliver \/ Finish \/ Break \/ Fail

\* The calls of Decode come to an end: every document is delivered, or the
\* reader has failed.
Completes == <>(result # "more")

Spec == Init /\ [][Next]_vars /\ Completes
===============================================================================
