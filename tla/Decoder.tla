-------------------------------- MODULE Decoder --------------------------------
(***************************************************************************)
(* Decoder.Decode of stream.go over an io.Reader that returns the stream   *)
(* in pieces of any size.  Decode resets the scanner and feeds it the      *)
(* buffered bytes, reads more when they are used up (refill), and cuts the *)
(* document out of what it has scanned by looking for "---" and "...".     *)
(* The caller calls Decode until it returns io.EOF or an error of the      *)
(* stream; it never calls Token, so tokenState keeps its initial value and *)
(* the token fixups of Decode do nothing.  TokenDecoder adds those calls.  *)
(***************************************************************************)
EXTENDS ScannerOps, Separators

CONSTANTS
  Streams,     \* the streams: records of the documents and the bytes
  MaxChunk,    \* the most bytes one Read returns
  ReaderFails  \* TRUE iff Read may fail with an error other than io.EOF

ASSUME StreamsAssumption ==
  Streams \subseteq [docs : Seq(Seq(Byte)), bytes : Seq(Byte)]

VARIABLES
  stream,     \* the stream the decoder was made for
  unread,     \* the bytes the reader has not returned yet
  failed,     \* the reader has failed, and keeps failing
  buf, scanp, scanned, scan, err,   \* fields of Decoder
  pc,         \* where in Decode the decoder is
  pos,        \* local scanp of readValue
  rerr,       \* local err of readValue: "nil", "EOF" or "failed"
  delivered,  \* the documents handed to unmarshal
  result      \* "more", "EOF" or "error"

reader  == <<stream, unread, failed>>
outcome == <<delivered, result>>
vars    == <<stream, unread, failed, buf, scanp, scanned, scan, err, pc, pos, rerr, delivered, result>>

Init ==
  /\ stream \in Streams /\ unread = stream.bytes /\ failed = FALSE
  /\ buf = <<>> /\ scanp = 0 /\ scanned = 0 /\ scan = Reset /\ err = "nil"
  /\ pc = "idle" /\ pos = 0 /\ rerr = "nil"
  /\ delivered = <<>> /\ result = "more"

-----------------------------------------------------------------------------
\* A document without the blank lines and separators around it.
Content(b) ==
  LET at == {i \in 1..Len(b) : b[i] \notin LineBreak}
  IN  IF at = {} THEN <<>>
      ELSE SubSeq(b, CHOOSE i \in at : \A j \in at : i <= j,
                     CHOOSE i \in at : \A j \in at : j <= i)

-----------------------------------------------------------------------------
(***************************************************************************)
(* Decode.                                                                 *)
(***************************************************************************)
\* Decode returns e.
Return(e) == pc' = "idle" /\ result' = IF e = "EOF" THEN "EOF" ELSE "error"

\* The beginning of Decode and of readValue.  The caller calls Decode until it
\* returns io.EOF; dec.err answers every call after an error.
DecodeCall ==
  /\ pc = "idle" /\ result # "EOF"
  /\ IF err # "nil"
     THEN Return(err) /\ UNCHANGED <<scan, pos, rerr>>
     ELSE pc' = "scan" /\ scan' = Reset /\ pos' = scanp /\ rerr' = "nil" /\ UNCHANGED result
  /\ UNCHANGED <<reader, buf, scanp, scanned, err, delivered>>

\* readValue scans a byte of the buffer; scanEnd comes one byte late and leaves
\* that byte unread, scanError is kept in dec.err.
ScanByte ==
  /\ pc = "scan" /\ pos < Len(buf)
  /\ LET c == buf[pos + 1]
         t == Step(scan, c)
     IN  CASE t.op = "End"   -> scan' = t /\ pc' = "cut" /\ UNCHANGED <<err, pos, result>>
           [] t.op = "Error" -> scan' = t /\ err' = "syntax" /\ Return("syntax") /\ UNCHANGED pos
           [] OTHER          -> scan' = LastInput(t, c) /\ pos' = pos + 1 /\ UNCHANGED <<err, pc, result>>
  /\ UNCHANGED <<reader, buf, scanp, scanned, rerr, delivered>>

\* nonSpace: line breaks are not space here.
NonSpace(b) == \E i \in 1..Len(b) : b[i] \notin Space

\* The buffer is used up and the last Read had an error: at the end of the input
\* eof() decides whether the value is complete.
InputEnded ==
  /\ pc = "scan" /\ pos >= Len(buf) /\ rerr # "nil"
  /\ IF rerr = "EOF" /\ Eof(scan).op = "End"
     THEN scan' = Eof(scan) /\ pc' = "cut" /\ UNCHANGED <<err, result>>
     ELSE /\ scan' = IF rerr = "EOF" THEN Eof(scan) ELSE scan
          /\ err' = IF rerr = "EOF" /\ NonSpace(buf) THEN "unexpected EOF" ELSE rerr
          /\ Return(err')
  /\ UNCHANGED <<reader, buf, scanp, scanned, pos, rerr, delivered>>

\* Mutants of Refill: the offset is counted down, is not counted, the buffer is not slid.
Refilled(n, e) ==
  /\ pc \in {"scan", "peek"} /\ pos >= Len(buf) /\ rerr = "nil"
  /\ unread' = Drop(unread, n)
  /\ pos' = pos - scanp
  /\ rerr' = e
  /\ failed' = (failed \/ e = "failed")
  /\ UNCHANGED <<stream, scan, err, pc, outcome>>

RefillCountsDown(n, e) ==
  Refilled(n, e) /\ buf' = Drop(buf, scanp) \o Keep(unread, n) /\ scanned' = scanned - scanp /\ scanp' = 0

RefillUncounted(n, e) ==
  Refilled(n, e) /\ buf' = Drop(buf, scanp) \o Keep(unread, n) /\ scanned' = scanned /\ scanp' = 0

RefillUnslid(n, e) ==
  Refilled(n, e) /\ buf' = buf \o Keep(unread, n) /\ scanned' = scanned + scanp /\ scanp' = 0

\* refill slides the unread bytes down and appends the n bytes Read returns.  The
\* reader may report the end of the stream with the last bytes or after them.  (The
\* loop of peek, which TokenDecoder models, calls it as that of readValue does.)
Refill(n, e) ==
  /\ pc \in {"scan", "peek"} /\ pos >= Len(buf) /\ rerr = "nil"
  /\ buf' = Drop(buf, scanp) \o Keep(unread, n)
  /\ unread' = Drop(unread, n)
  /\ scanned' = scanned + scanp
  /\ scanp' = 0
  /\ pos' = pos - scanp
  /\ rerr' = e
  /\ failed' = (failed \/ e = "failed")
  /\ UNCHANGED <<stream, scan, err, pc, outcome>>

Read ==
  \E n \in 0..MaxChunk :
    /\ n <= Len(unread)
    /\ \/ ~failed /\ n > 0 /\ Refill(n, "nil")
       \/ ~failed /\ n = Len(unread) /\ Refill(n, "EOF")
       \/ ReaderFails /\ (failed => n = 0) /\ Refill(n, "failed")

\* Decode cuts the document out of the value: what stands between two "---", and
\* before "...".  After "---" scanp is set to the index in the value, not moved by
\* it.  A document without a byte is io.EOF; an error of unmarshal is not kept.
CutDocument ==
  /\ pc = "cut"
  /\ \E value \in {SubSeq(buf, scanp + 1, pos)} :
     \E start \in {documentStartIndex(value)} :
     \E rest  \in {Drop(value, start)} :
     \E body  \in {IF start > 0 THEN UpToNext(rest, documentStartIndex(rest)) ELSE rest} :
     \E end   \in {documentEndIndex(body)} :
     \E doc   \in {IF end > -1 THEN Keep(body, end) ELSE body} :
       /\ scanp' = (IF start > 0 THEN start ELSE scanp) + (IF end > -1 THEN end + 4 ELSE Len(body))
       /\ scan' = IF start > 0 THEN Reset ELSE scan
       /\ IF doc = <<>>
          THEN Return("EOF") /\ UNCHANGED delivered
          ELSE pc' = "idle" /\ delivered' = Append(delivered, Content(doc)) /\ UNCHANGED result
  /\ UNCHANGED <<reader, buf, scanned, err, pos, rerr>>

Next == DecodeCall \/ ScanByte \/ InputEnded \/ Read \/ CutDocument

\* Decode runs on; Read returns, and returns bytes while there are any.
Spec == Init /\ [][Next]_vars /\ WF_vars(Next)

-----------------------------------------------------------------------------
TypeOK ==
  /\ stream \in Streams /\ unread \in Seq(Byte) /\ failed \in BOOLEAN
  /\ buf \in Seq(Byte) /\ scanp \in Nat /\ scanned \in Nat /\ pos \in Nat
  /\ scan \in ScannerRecord
  /\ err \in {"nil", "EOF", "failed", "syntax", "unexpected EOF"}
  /\ rerr \in {"nil", "EOF", "failed"}
  /\ pc \in {"idle", "scan", "cut", "peek"}
  /\ delivered \in Seq(Seq(Byte)) /\ result \in {"more", "EOF", "error"}

\* The buffer is the part of the stream that begins scanned bytes into it, and what
\* has not been read follows it: no byte is lost or moved, and the sum
\* scanned + scanp (InputOffset) is a position in the stream.
BufferIsWindow == scanned <= Len(stream.bytes) /\ buf \o unread = Drop(stream.bytes, scanned)

\* InputOffset never goes back: a later Decode begins where the last one ended.
OffsetAdvances == [][scanned' + scanp' >= scanned + scanp]_vars

\* What has been delivered is the beginning of the stream.
DeliveredInOrder ==
  Len(delivered) <= Len(stream.docs) /\ delivered = SubSeq(stream.docs, 1, Len(delivered))

\* Decode delivers the documents one by one and comes to an end.
Documents == INSTANCE DocumentStream WITH docs <- stream.docs, broken <- failed

ImplementsDocumentStream == Documents!Spec
===============================================================================
