-------------------------------- MODULE Encoder --------------------------------
(***************************************************************************)
(* Encoder of stream.go: Encode writes one document after the other to an  *)
(* io.Writer that may fail.  A call marshals the value into a buffer of    *)
(* its own, writes the separator before every document but the first, then *)
(* the document.  The steps of one call are actions of their own because   *)
(* the writer may fail in one and recover before the next.                 *)
(***************************************************************************)
EXTENDS Integers, Sequences

CONSTANTS
  Docs,           \* the values given to Encode
  IndentSizes,    \* the indents given to WithIndent and WithOptions
  MaxWrites       \* bound on what has been written

ASSUME IndentAssumption == IndentSizes \subseteq Nat

VARIABLES
  err,              \* e.err is set
  indentSize,       \* e.options.IndentSize
  documentWritten,  \* e.documentWritten
  pc, doc,          \* where in Encode the encoder is, and the value
  out,              \* what the writer has accepted
  broken,           \* the last Write has failed
  returned          \* what the last call of Encode returned

vars == <<err, indentSize, documentWritten, pc, doc, out, broken, returned>>

Separator == [part |-> "separator"]
Body(d)   == [part |-> "document", doc |-> d, indent |-> indentSize]
Torn      == [part |-> "torn"]        \* a Write that stopped half way
Parts     == {Separator, Torn} \cup
             [part : {"document"}, doc : Docs, indent : IndentSizes \cup {2}]

Results == {"none", "ok", "marshal error", "write error", "stream error"}

\* NewEncoder
Init ==
  /\ err = FALSE /\ indentSize = 2 /\ documentWritten = FALSE
  /\ pc = "idle" /\ doc \in Docs
  /\ out = <<>> /\ broken = FALSE /\ returned = "none"

\* Mutant of WithIndent: the indent is added.
WithIndentAdded(size) ==
  /\ pc = "idle"
  /\ indentSize' = indentSize + size /\ err' = (err \/ size < 2)
  /\ UNCHANGED <<documentWritten, pc, doc, out, broken, returned>>

\* WithIndent, WithOptions: an indent below 2 is stored too, with the error.
WithIndent(size) ==
  /\ pc = "idle"
  /\ indentSize' = size
  /\ err' = (err \/ size < 2)
  /\ UNCHANGED <<documentWritten, pc, doc, out, broken, returned>>

\* Mutant of EncodeCall: e.err is not looked at.
EncodeCallAnyway(d) ==
  /\ pc = "idle" /\ Len(out) < MaxWrites
  /\ doc' = d /\ pc' = "marshal"
  /\ UNCHANGED <<err, indentSize, documentWritten, out, broken, returned>>

\* The beginning of Encode.
EncodeCall(d) ==
  /\ pc = "idle" /\ Len(out) < MaxWrites
  /\ doc' = d
  /\ IF err THEN returned' = "stream error" /\ UNCHANGED pc
            ELSE pc' = "marshal" /\ UNCHANGED returned
  /\ UNCHANGED <<err, indentSize, documentWritten, out, broken>>

\* Mutant of Marshal: the first document is never noted.
MarshalUnnoted ==
  /\ pc = "marshal"
  /\ \/ pc' = "idle" /\ returned' = "marshal error"
     \/ pc' = (IF documentWritten THEN "separator" ELSE "document") /\ UNCHANGED returned
  /\ UNCHANGED <<err, indentSize, documentWritten, doc, out, broken>>

\* es.marshal: an error ends the call and leaves the encoder as it was.
Marshal ==
  /\ pc = "marshal"
  /\ \/ pc' = "idle" /\ returned' = "marshal error" /\ UNCHANGED documentWritten
     \/ /\ pc' = IF documentWritten THEN "separator" ELSE "document"
        /\ documentWritten' = TRUE
        /\ UNCHANGED returned
  /\ UNCHANGED <<err, indentSize, doc, out, broken>>

\* e.w.Write(what) accepts it, all, in part or not at all, whatever it did before.
Write(what) ==
  \/ out' = Append(out, what) /\ broken' = FALSE
  \/ out' \in {out, Append(out, Torn)} /\ broken' = TRUE

\* A failure to write the separator is kept, and the document written all the same.
WriteSeparator ==
  /\ pc = "separator"
  /\ Write(Separator)
  /\ err' = (err \/ broken')
  /\ pc' = "document"
  /\ UNCHANGED <<indentSize, documentWritten, doc, returned>>

\* Mutant of WriteDocument: the error of the writer is not returned.
WriteDocumentBlindly ==
  /\ pc = "document"
  /\ Write(Body(doc))
  /\ err' = (err \/ broken')
  /\ returned' = "ok"
  /\ pc' = "idle"
  /\ UNCHANGED <<indentSize, documentWritten, doc>>

WriteDocument ==
  /\ pc = "document"
  /\ Write(Body(doc))
  /\ err' = (err \/ broken')
  /\ returned' = IF broken' THEN "write error" ELSE "ok"
  /\ pc' = "idle"
  /\ UNCHANGED <<indentSize, documentWritten, doc>>

Next ==
  \/ \E size \in IndentSizes : WithIndent(size)
  \/ \E d \in Docs : EncodeCall(d)
  \/ Marshal
  \/ WriteSeparator
  \/ WriteDocument

Spec == Init /\ [][Next]_vars

-----------------------------------------------------------------------------
TypeOK ==
  /\ err \in BOOLEAN /\ indentSize \in IndentSizes \cup {2}
  /\ documentWritten \in BOOLEAN
  /\ pc \in {"idle", "marshal", "separator", "document"} /\ doc \in Docs
  /\ out \in Seq(Parts) /\ broken \in BOOLEAN /\ returned \in Results

\* "the second and subsequent document will be preceded with a "---" document
\* separator, but the first will not" (stream.go:330): in what the writer has
\* accepted a document stands first or after a separator.  That holds until a Write
\* of a separator fails (EncoderProofs).
Follows(i) == i = 1 \/ out[i - 1].part = "separator"

DocumentsSeparated == \A i \in 1..Len(out) : out[i].part = "document" => Follows(i)

\* A document may lack its separator when the writer failed to write that; but then
\* the error is kept and nothing follows that document, ever.
SeparatedUntilError ==
  \A i \in 1..Len(out) : out[i].part = "document" => Follows(i) \/ (err /\ i = Len(out))

\* No separator stands first or after another one, whatever failed in between: no
\* call of Encode leaves a separator behind that has no document.
SeparatorsSeparate ==
  \A i \in 1..Len(out) :
    out[i].part = "separator" => i > 1 /\ out[i - 1].part = "document"

\* What Encode reports as written is there, whole, at the end of the output.
OkMeansWritten ==
  returned = "ok" /\ pc = "idle" => out # <<>> /\ out[Len(out)].part = "document"
                                 /\ out[Len(out)].doc = doc

\* No document is written with an indent below 2.
IndentIsLegal == \A i \in 1..Len(out) : out[i].part = "document" => out[i].indent >= 2

\* An error kept in e.err is final: once a call has ended with one, no later call gets
\* to marshalling or writing anything, and no option clears it.
ErrorIsFinal == [][err /\ pc = "idle" => err' /\ pc' = "idle" /\ out' = out]_vars
===============================================================================
