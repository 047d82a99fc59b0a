----------------------------- MODULE EncoderProofs -----------------------------
(***************************************************************************)
(* Proofs about Encoder: what the runs check of it on two documents and    *)
(* six writes holds for every set of values and indents and for outputs of *)
(* every length.  The inductive invariant adds to the properties what is   *)
(* known between the steps of a call: as long as no error is kept, the     *)
(* output ends in a document exactly if one has been written, and in a     *)
(* separator when the next one is to be written.                           *)
(***************************************************************************)
EXTENDS Encoder, SequenceTheorems, TLAPS

\* The last part of the output
EndsInDocument  == out # <<>> /\ out[Len(out)].part = "document"
EndsInSeparator == out # <<>> /\ out[Len(out)].part = "separator"

\* While no error is kept, and up to the document that follows one, every document has
\* its separator.
EncoderInv ==
  /\ TypeOK /\ SeparatedUntilError /\ SeparatorsSeparate /\ OkMeansWritten /\ IndentIsLegal
  /\ pc \in {"marshal", "separator"} => ~err
  /\ ~err \/ pc # "idle" => indentSize >= 2
  /\ ~err \/ pc = "document" => DocumentsSeparated
  /\ ~err /\ pc \in {"idle", "marshal"} => (documentWritten => EndsInDocument) /\ (~documentWritten => out = <<>>)
  /\ pc \in {"separator", "document"} => documentWritten
  /\ pc = "separator" => EndsInDocument
  /\ ~err /\ pc = "document" => out = <<>> \/ EndsInSeparator

\* The output after a Write
LEMMA Appended ==
  ASSUME out \in Seq(Parts), NEW w \in Parts, out' = Append(out, w)
  PROVE  /\ out' \in Seq(Parts) /\ out' # <<>> /\ Len(out) \in Nat /\ Len(out') = Len(out) + 1
         /\ out'[Len(out')] = w
         /\ \A i \in 1..Len(out) : out'[i] = out[i]
         /\ \A i \in 1..Len(out') : i \in 1..Len(out) \/ i = Len(out')
BY AppendProperties

\* The parts an Encoder writes
LEMMA PartsTyped ==
  ASSUME TypeOK
  PROVE  /\ Separator \in Parts /\ Separator.part = "separator"
         /\ Torn \in Parts /\ Torn.part = "torn"
         /\ Body(doc) \in Parts /\ Body(doc).part = "document"
         /\ Body(doc).doc = doc /\ Body(doc).indent = indentSize
BY DEF TypeOK, Parts, Separator, Torn, Body

\* A write of one part leaves the parts before it, and what is true of them.
LEMMA AppendKeeps ==
  ASSUME TypeOK, NEW w \in Parts, out' = Append(out, w), SeparatorsSeparate, IndentIsLegal,
         w.part = "separator" => EndsInDocument, w.part = "document" => w.indent >= 2
  PROVE  SeparatorsSeparate' /\ IndentIsLegal'
<1>1. out \in Seq(Parts)
  BY DEF TypeOK
<1>2. /\ Len(out) \in Nat /\ Len(out') = Len(out) + 1 /\ out'[Len(out')] = w
      /\ \A i \in 1..Len(out) : out'[i] = out[i]
      /\ \A i \in 1..Len(out') : i \in 1..Len(out) \/ i = Len(out')
  BY <1>1, Appended
<1>3. IndentIsLegal'
  BY <1>2 DEF IndentIsLegal
<1>4. ASSUME NEW i \in 1..Len(out'), out'[i].part = "separator"
      PROVE  i > 1 /\ out'[i - 1].part = "document"
  <2>1. CASE i \in 1..Len(out)
    <3>1. i > 1 /\ out[i - 1].part = "document"
      BY <1>2, <1>4, <2>1 DEF SeparatorsSeparate
    <3>2. i - 1 \in 1..Len(out)
      BY <1>2, <2>1, <3>1
    <3> QED BY <1>2, <3>1, <3>2
  <2>2. CASE i = Len(out')
    <3>1. out # <<>> /\ out[Len(out)].part = "document"
      BY <1>2, <1>4, <2>2 DEF EndsInDocument, EndsInSeparator
    <3>2. Len(out) # 0
      BY <1>1, <3>1, EmptySeq
    <3>3. i - 1 = Len(out) /\ Len(out) \in 1..Len(out)
      BY <1>2, <2>2, <3>2
    <3> QED BY <1>2, <3>1, <3>3
  <2> QED BY <1>2, <2>1, <2>2
<1> QED BY <1>3, <1>4 DEF SeparatorsSeparate

\* So do the documents that had their separator; the new one has it at the beginning or
\* after a separator.
LEMMA AppendFollows ==
  ASSUME TypeOK, NEW w \in Parts, out' = Append(out, w),
         NEW i \in 1..Len(out'), out'[i].part = "document",
         i # Len(out') => DocumentsSeparated,
         i = Len(out') => out = <<>> \/ EndsInSeparator
  PROVE  i = 1 \/ out'[i - 1].part = "separator"
<1>1. out \in Seq(Parts)
  BY DEF TypeOK
<1>2. /\ Len(out) \in Nat /\ Len(out') = Len(out) + 1
      /\ \A j \in 1..Len(out) : out'[j] = out[j]
      /\ i \in 1..Len(out) \/ i = Len(out')
  BY <1>1, Appended
<1>3. CASE i # Len(out')
  <2>1. i \in 1..Len(out) /\ out[i].part = "document"
    BY <1>2, <1>3
  <2>2. i = 1 \/ out[i - 1].part = "separator"
    BY <1>3, <2>1 DEF DocumentsSeparated, Follows
  <2>3. i # 1 => i - 1 \in 1..Len(out)
    BY <1>2, <2>1
  <2> QED BY <1>2, <2>2, <2>3
<1>4. CASE i = Len(out')
  <2>1. CASE out = <<>>
    BY <1>2, <1>4, <2>1
  <2>2. CASE EndsInSeparator
    <3>1. Len(out) # 0
      BY <1>1, <2>2, EmptySeq DEF EndsInDocument, EndsInSeparator
    <3>2. i - 1 = Len(out) /\ Len(out) \in 1..Len(out)
      BY <1>2, <1>4, <3>1
    <3> QED BY <1>2, <2>2, <3>2 DEF EndsInDocument, EndsInSeparator
  <2> QED BY <1>4, <2>1, <2>2
<1> QED BY <1>3, <1>4

\* NewEncoder establishes the invariant.
LEMMA EncoderInvInit == Init => EncoderInv
<1> SUFFICES ASSUME Init PROVE EncoderInv
  OBVIOUS
<1>1. out = <<>> /\ out \in Seq(Parts) /\ Len(out) = 0 /\ 1..Len(out) = {}
  BY EmptySeq DEF Init
<1>2. TypeOK /\ OkMeansWritten
  BY <1>1 DEF Init, TypeOK, Results, OkMeansWritten
<1>3. DocumentsSeparated /\ SeparatedUntilError /\ SeparatorsSeparate /\ IndentIsLegal
  BY <1>1 DEF SeparatedUntilError, SeparatorsSeparate, IndentIsLegal, DocumentsSeparated
<1> QED BY <1>1, <1>2, <1>3 DEF Init, EncoderInv

\* A step that leaves the output and does not raise an error leaves what is said of it.
LEMMA SameOutput ==
  ASSUME EncoderInv, out' = out
  PROVE  /\ SeparatorsSeparate' /\ IndentIsLegal'
         /\ (err => err') => SeparatedUntilError'
         /\ (EndsInDocument' <=> EndsInDocument)
         /\ (EndsInSeparator' <=> EndsInSeparator)
         /\ DocumentsSeparated' <=> DocumentsSeparated
<1>1. (EndsInDocument' <=> EndsInDocument) /\ (EndsInSeparator' <=> EndsInSeparator)
  BY DEF EndsInDocument, EndsInSeparator
<1>2. SeparatorsSeparate' /\ IndentIsLegal'
  BY DEF EncoderInv, SeparatorsSeparate, IndentIsLegal
<1>3. \A i : Follows(i)' = Follows(i)
  BY DEF Follows
<1>4. DocumentsSeparated' <=> DocumentsSeparated
  BY <1>3 DEF DocumentsSeparated
<1>5. (err => err') => SeparatedUntilError'
  BY <1>3 DEF EncoderInv, SeparatedUntilError
<1> QED BY <1>1, <1>2, <1>4, <1>5

\* The steps that write nothing
LEMMA OptionStep ==
  ASSUME EncoderInv, NEW size \in IndentSizes, WithIndent(size)
  PROVE  EncoderInv'
<1>1. TypeOK'
  BY DEF EncoderInv, TypeOK, WithIndent
<1>2. /\ SeparatedUntilError' /\ SeparatorsSeparate' /\ IndentIsLegal'
      /\ (EndsInDocument' <=> EndsInDocument) /\ (EndsInSeparator' <=> EndsInSeparator)
      /\ DocumentsSeparated' <=> DocumentsSeparated
  BY SameOutput DEF EncoderInv, TypeOK, WithIndent
<1>3. size \in Nat
  BY IndentAssumption
<1>4. err \in BOOLEAN /\ OkMeansWritten'
  BY DEF EncoderInv, TypeOK, WithIndent, OkMeansWritten
<1>5. /\ (err' <=> err \/ size < 2) /\ (documentWritten' <=> documentWritten)
      /\ pc = "idle" /\ pc' = "idle" /\ indentSize' = size /\ out' = out
  BY <1>4 DEF WithIndent
<1> QED BY <1>1, <1>2, <1>3, <1>4, <1>5 DEF EncoderInv

\* Encode(d) begins, or answers with the error on record: nothing is written yet.
LEMMA CallStep ==
  ASSUME EncoderInv, NEW d \in Docs, EncodeCall(d)
  PROVE  EncoderInv'
<1>1. TypeOK'
  BY DEF EncoderInv, TypeOK, EncodeCall, Results
<1>2. /\ SeparatedUntilError' /\ SeparatorsSeparate' /\ IndentIsLegal'
      /\ (EndsInDocument' <=> EndsInDocument) /\ (EndsInSeparator' <=> EndsInSeparator)
      /\ DocumentsSeparated' <=> DocumentsSeparated
  BY SameOutput DEF EncoderInv, TypeOK, EncodeCall
<1>3. err \in BOOLEAN /\ documentWritten \in BOOLEAN /\ OkMeansWritten'
  BY DEF EncoderInv, TypeOK, EncodeCall, OkMeansWritten
<1> QED BY <1>1, <1>2, <1>3 DEF EncoderInv, EncodeCall

\* The value is marshaled into a buffer, which may fail: nothing is written yet.
LEMMA MarshalStep ==
  ASSUME EncoderInv, Marshal
  PROVE  EncoderInv'
<1>1. TypeOK'
  BY DEF EncoderInv, TypeOK, Marshal, Results
<1>2. /\ SeparatedUntilError' /\ SeparatorsSeparate' /\ IndentIsLegal'
      /\ (EndsInDocument' <=> EndsInDocument) /\ (EndsInSeparator' <=> EndsInSeparator)
      /\ DocumentsSeparated' <=> DocumentsSeparated
  BY SameOutput DEF EncoderInv, TypeOK, Marshal
<1>3. err \in BOOLEAN /\ documentWritten \in BOOLEAN /\ OkMeansWritten'
  BY DEF EncoderInv, TypeOK, Marshal, OkMeansWritten
<1>4. pc = "marshal" /\ (err' <=> err) /\ indentSize' = indentSize /\ out' = out
  BY DEF Marshal
<1>5. \/ pc' = "idle" /\ (documentWritten' <=> documentWritten)
      \/ pc' = "separator" /\ documentWritten /\ documentWritten'
      \/ pc' = "document" /\ ~documentWritten /\ documentWritten'
  BY <1>3 DEF Marshal
<1> QED BY <1>1, <1>2, <1>3, <1>4, <1>5 DEF EncoderInv

\* The separator, or what the writer took of it, goes between a document and the next.
LEMMA SeparatorStep ==
  ASSUME EncoderInv, WriteSeparator
  PROVE  EncoderInv'
<1>1. PICK w \in {Separator, Torn} : /\ out' = out \/ out' = Append(out, w)
                                     /\ broken' \in BOOLEAN
                                     /\ ~broken' => w = Separator /\ out' = Append(out, w)
  BY DEF WriteSeparator, Write
<1>2. /\ TypeOK /\ pc = "separator" /\ pc' = "document" /\ indentSize' = indentSize
      /\ err' = (err \/ broken') /\ documentWritten' = documentWritten /\ documentWritten
      /\ ~err /\ indentSize >= 2 /\ EndsInDocument
      /\ DocumentsSeparated
      /\ returned' = returned /\ doc' = doc
  BY DEF EncoderInv, WriteSeparator
<1>3. w \in Parts /\ w.part # "document" /\ (w = Separator => w.part = "separator")
  BY <1>1, <1>2, PartsTyped
<1>4. out \in Seq(Parts)
  BY <1>2 DEF TypeOK
<1>5. CASE out' = out
  <2>1. broken'
    BY <1>1, <1>4, <1>5, AppendProperties
  <2>2. TypeOK'
    BY <1>1, <1>2, <1>5 DEF TypeOK
  <2>3. SeparatedUntilError' /\ SeparatorsSeparate' /\ IndentIsLegal' /\ OkMeansWritten'
    BY <1>2, <1>5 DEF EncoderInv, SeparatedUntilError, SeparatorsSeparate, IndentIsLegal,
                      OkMeansWritten, Follows
  <2>4. DocumentsSeparated'
    BY <1>2, <1>5 DEF DocumentsSeparated, Follows
  <2> QED BY <1>2, <2>1, <2>2, <2>3, <2>4 DEF EncoderInv
<1>6. CASE out' = Append(out, w)
  <2>1. /\ out' \in Seq(Parts) /\ out' # <<>> /\ Len(out) \in Nat /\ Len(out') = Len(out) + 1
        /\ out'[Len(out')] = w
    BY <1>3, <1>4, <1>6, Appended
  <2>2. TypeOK'
    BY <1>1, <1>2, <2>1 DEF TypeOK
  <2>3. SeparatorsSeparate' /\ IndentIsLegal'
    <3>1. SeparatorsSeparate /\ IndentIsLegal
      BY DEF EncoderInv
    <3> QED BY <1>2, <1>3, <1>6, <3>1, AppendKeeps
  <2>4. DocumentsSeparated'
    <3> SUFFICES ASSUME NEW i \in 1..Len(out'), out'[i].part = "document"
                 PROVE  i = 1 \/ out'[i - 1].part = "separator"
      BY DEF DocumentsSeparated, Follows
    <3>1. i # Len(out')
      BY <1>3, <2>1
    <3> QED BY <1>2, <1>3, <1>6, <3>1, AppendFollows
  <2>5. ~err' => EndsInSeparator'
    BY <1>1, <1>2, <1>3, <2>1 DEF EndsInDocument, EndsInSeparator
  <2> QED BY <1>2, <2>2, <2>3, <2>4, <2>5 DEF EncoderInv, DocumentsSeparated, SeparatedUntilError, OkMeansWritten
<1> QED BY <1>1, <1>5, <1>6

\* The document ends the call.
LEMMA DocumentStep ==
  ASSUME EncoderInv, WriteDocument
  PROVE  EncoderInv'
<1> DEFINE body == Body(doc)
<1>1. PICK w \in {body, Torn} : /\ out' = out \/ out' = Append(out, w)
                                /\ broken' \in BOOLEAN
                                /\ ~broken' => w = body /\ out' = Append(out, w)
  BY DEF WriteDocument, Write
<1>2. /\ TypeOK /\ pc = "document" /\ pc' = "idle" /\ indentSize' = indentSize
      /\ err' = (err \/ broken') /\ documentWritten' = documentWritten /\ documentWritten
      /\ indentSize >= 2
      /\ DocumentsSeparated
      /\ ~err => out = <<>> \/ EndsInSeparator
      /\ returned' = (IF broken' THEN "write error" ELSE "ok") /\ doc' = doc
  BY DEF EncoderInv, WriteDocument
<1>3. /\ w \in Parts /\ w.part # "separator" /\ (w.part = "document" => w.indent >= 2)
      /\ (w = body => w.part = "document" /\ w.doc = doc)
  BY <1>1, <1>2, PartsTyped
<1> HIDE DEF body
<1>4. out \in Seq(Parts)
  BY <1>2 DEF TypeOK
<1>5. CASE out' = out
  <2>1. broken'
    BY <1>1, <1>4, <1>5, AppendProperties
  <2>2. TypeOK'
    BY <1>1, <1>2, <1>5 DEF TypeOK, Results
  <2>3. SeparatedUntilError' /\ SeparatorsSeparate' /\ IndentIsLegal' /\ OkMeansWritten'
    BY <1>2, <1>5, <2>1 DEF EncoderInv, SeparatedUntilError, SeparatorsSeparate, IndentIsLegal,
                      OkMeansWritten, Follows
  <2> QED BY <1>2, <2>1, <2>2, <2>3 DEF EncoderInv
<1>6. CASE out' = Append(out, w)
  <2>1. /\ out' \in Seq(Parts) /\ out' # <<>> /\ Len(out) \in Nat /\ Len(out') = Len(out) + 1
        /\ out'[Len(out')] = w
    BY <1>3, <1>4, <1>6, Appended
  <2>2. TypeOK'
    BY <1>1, <1>2, <2>1 DEF TypeOK, Results
  <2>3. SeparatorsSeparate' /\ IndentIsLegal'
    <3>1. SeparatorsSeparate /\ IndentIsLegal
      BY DEF EncoderInv
    <3> QED BY <1>2, <1>3, <1>6, <3>1, AppendKeeps
  <2>4. ASSUME NEW i \in 1..Len(out'), out'[i].part = "document", ~err \/ i # Len(out')
        PROVE  Follows(i)'
    <3>1. i = 1 \/ out'[i - 1].part = "separator"
      <4>1. CASE i # Len(out')
        BY <1>2, <1>3, <1>6, <2>4, <4>1, AppendFollows
      <4>2. CASE i = Len(out')
        BY <1>2, <1>3, <1>6, <2>4, <4>2, AppendFollows
      <4> QED BY <4>1, <4>2
    <3> QED BY <3>1 DEF Follows
  <2>5. SeparatedUntilError'
    BY <1>2, <2>4 DEF SeparatedUntilError
  <2>6. OkMeansWritten' /\ (~err' => EndsInDocument')
    BY <1>1, <1>2, <1>3, <2>1 DEF OkMeansWritten, EndsInDocument, EndsInSeparator
  <2>7. ~err' => DocumentsSeparated'
    BY <1>2, <2>4 DEF DocumentsSeparated
  <2> QED BY <1>2, <2>2, <2>3, <2>5, <2>6, <2>7 DEF EncoderInv
<1> QED BY <1>1, <1>5, <1>6

\* Every action of Encoder keeps the inductive invariant.
LEMMA EncoderInvStep == EncoderInv /\ [Next]_vars => EncoderInv'
<1> SUFFICES ASSUME EncoderInv, [Next]_vars PROVE EncoderInv'
  OBVIOUS
<1>1. CASE \E size \in IndentSizes : WithIndent(size)
  BY <1>1, OptionStep
<1>2. CASE \E d \in Docs : EncodeCall(d)
  BY <1>2, CallStep
<1>3. CASE Marshal
  BY <1>3, MarshalStep
<1>4. CASE WriteSeparator
  BY <1>4, SeparatorStep
<1>5. CASE WriteDocument
  BY <1>5, DocumentStep
<1>6. CASE UNCHANGED vars
  BY <1>6 DEF vars, EncoderInv, TypeOK, SeparatedUntilError, SeparatorsSeparate, OkMeansWritten,
              IndentIsLegal, DocumentsSeparated, EndsInDocument, EndsInSeparator, Follows
<1> QED BY <1>1, <1>2, <1>3, <1>4, <1>5, <1>6 DEF Next

\* The inductive invariant holds of every behaviour of Encoder.
LEMMA EncoderInvHolds == Spec => []EncoderInv
BY EncoderInvInit, EncoderInvStep, PTL DEF Spec

(***************************************************************************)
(* The theorems                                                            *)
(***************************************************************************)

\* The state of an Encoder is well typed (stream.go:241-254), whatever is encoded and
\* however often.
THEOREM TypesCorrect == Spec => []TypeOK
<1>1. EncoderInv => TypeOK
  BY DEF EncoderInv
<1> QED BY <1>1, EncoderInvHolds, PTL

\* In an output of any length only its last document can lack the separator before it,
\* and then the error is kept (Encode, stream.go:336-369).
THEOREM SeparatedUntilTheError == Spec => []SeparatedUntilError
<1>1. EncoderInv => SeparatedUntilError
  BY DEF EncoderInv
<1> QED BY <1>1, EncoderInvHolds, PTL

\* Every separator follows a document, though the writer may have failed in between and
\* es.marshal may have refused values (Encode, stream.go:336-369).
THEOREM NoSeparatorAlone == Spec => []SeparatorsSeparate
<1>1. EncoderInv => SeparatorsSeparate
  BY DEF EncoderInv
<1> QED BY <1>1, EncoderInvHolds, PTL

\* A call of Encode that returns nil has written its document, whole, at the end of the
\* output (Encode, stream.go:364-368).
THEOREM OkIsWritten == Spec => []OkMeansWritten
<1>1. EncoderInv => OkMeansWritten
  BY DEF EncoderInv
<1> QED BY <1>1, EncoderInvHolds, PTL

\* No document is written with an indent below 2, although the indent is stored before it
\* is checked (WithIndent and WithOptions, stream.go:256-319).
THEOREM IndentAlwaysLegal == Spec => []IndentIsLegal
<1>1. EncoderInv => IndentIsLegal
  BY DEF EncoderInv
<1> QED BY <1>1, EncoderInvHolds, PTL

\* Once a call has ended with an error kept, no later call changes the output or gets
\* beyond its first lines, and no option clears the error (Encode, stream.go:336-339).
THEOREM ErrorStaysFinal == Spec => ErrorIsFinal
<1>1. [Next]_vars => [err /\ pc = "idle" => err' /\ pc' = "idle" /\ out' = out]_vars
  BY DEF Next, vars, WithIndent, EncodeCall, Marshal, WriteSeparator, WriteDocument
<1> QED BY <1>1, PTL DEF Spec, ErrorIsFinal
===============================================================================
