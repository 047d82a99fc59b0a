----------------------------- MODULE DecoderProofs -----------------------------
(***************************************************************************)
(* Theorems about Decoder and TokenDecoder, for any streams, read in       *)
(* pieces of any size by a reader that may fail at any time.  The scanner  *)
(* inside is the one of ScannerFacts: each call of it keeps it sound.      *)
(***************************************************************************)
EXTENDS TokenDecoder, ScannerFacts

-----------------------------------------------------------------------------
(***************************************************************************)
(* Contents.                                                               *)
(***************************************************************************)
\* What is left of a document is a part of it.
LEMMA ContentType ==
  ASSUME NEW S, NEW b \in Seq(S)
  PROVE  Content(b) \in Seq(S)
<1>. DEFINE at == {i \in 1..Len(b) : b[i] \notin LineBreak}
            lo == CHOOSE i \in at : \A j \in at : i <= j
            hi == CHOOSE i \in at : \A j \in at : j <= i
<1>1. CASE at = {}
  BY <1>1, EmptySeq DEF Content
<1>2. CASE at # {}
  <2>1. Len(b) \in Nat /\ at \subseteq Nat /\ at \subseteq 0..Len(b)
    BY LenProperties
  <2>2. lo \in at /\ hi \in at
    <3>1. \E i \in at : \A j \in at : i <= j
      <4>. HIDE DEF at
      <4>. QED
        BY <1>2, <2>1, LeastNatural
    <3>2. \E i \in at : \A j \in at : j <= i
      <4>. HIDE DEF at
      <4>. QED
        BY <1>2, <2>1, GreatestNatural
    <3>. QED
      BY <3>1, <3>2
  <2>3. Content(b) = SubSeq(b, lo, hi)
    BY <1>2 DEF Content
  <2>. HIDE DEF lo, hi
  <2>4. lo \in Nat /\ lo >= 1 /\ hi \in Nat /\ hi <= Len(b)
    BY <2>1, <2>2
  <2>. QED
    BY <2>3, <2>4, Part
<1>. QED
  BY <1>1, <1>2

-----------------------------------------------------------------------------
(***************************************************************************)
(* The steps of Decode.  Between any two of them the scanner is sound, the *)
(* indices stand in the buffer while a call is under way, and the buffer   *)
(* is where it was read from.  Only a document of no byte (a text that     *)
(* begins with "...") sets scanp behind the buffer; it ends the stream.    *)
(***************************************************************************)
Placed ==
  /\ result # "EOF" => scanp <= Len(buf)
  /\ pc \in {"scan", "cut", "peek"} => result # "EOF" /\ scanp <= pos /\ pos <= Len(buf)

DecInv == TypeOK /\ Sound(scan) /\ Placed /\ BufferIsWindow

\* The lengths that the steps compare
LEMMA Lengths ==
  ASSUME TypeOK
  PROVE  /\ Len(buf) \in Nat /\ Len(unread) \in Nat
         /\ stream.bytes \in Seq(Byte) /\ Len(stream.bytes) \in Nat
<1>1. buf \in Seq(Byte) /\ unread \in Seq(Byte) /\ stream.bytes \in Seq(Byte)
  BY StreamsAssumption DEF TypeOK
<1>. QED
  BY <1>1, LenProperties

\* The decoder before its first call
LEMMA DecInit == Init => DecInv
<1>. SUFFICES ASSUME Init PROVE DecInv
  OBVIOUS
<1>1. stream.bytes \in Seq(Byte) /\ <<>> \in Seq(Byte) /\ Len(<<>>) = 0
  BY StreamsAssumption, EmptySeq DEF Init
<1>2. Len(stream.bytes) \in Nat
  BY <1>1, LenProperties
<1>3. Sound(Reset) /\ Reset \in ScannerRecord
  BY ResetSound DEF Sound, Frames, Stacks
<1>a. <<>> \in Seq(Seq(Byte))
  BY EmptySeq
<1>b. TypeOK
  BY <1>1, <1>3, <1>a DEF Init, TypeOK
<1>4. Sound(scan) /\ Placed
  BY <1>1, <1>3 DEF Init, Placed
<1>5. Drop(stream.bytes, 0) = stream.bytes
  BY <1>1, SubSeqFull DEF Drop
<1>6. <<>> \o stream.bytes = stream.bytes
  BY <1>1, ConcatEmptySeq
<1>7. BufferIsWindow
  BY <1>2, <1>5, <1>6 DEF Init, BufferIsWindow
<1>. QED
  BY <1>b, <1>4, <1>7 DEF DecInv

\* A step that reads nothing leaves the buffer where it is.
LEMMA SameWindow ==
  ASSUME BufferIsWindow, UNCHANGED <<reader, buf, scanned>>
  PROVE  BufferIsWindow'
BY DEF BufferIsWindow, reader

\* Decode begins, and answers every call after an error with that error.
LEMMA DecodeCallInv ==
  ASSUME DecInv, DecodeCall
  PROVE  DecInv'
<1>1. Sound(Reset) /\ Reset \in ScannerRecord
  BY ResetSound DEF Sound, Frames, Stacks
<1>a. /\ pc = "idle" /\ result # "EOF" /\ UNCHANGED <<reader, buf, scanp, scanned, err, delivered>>
      /\ \/ pc' = "idle" /\ result' \in {"EOF", "error"} /\ UNCHANGED <<scan, pos, rerr>>
         \/ pc' = "scan" /\ scan' = Reset /\ pos' = scanp /\ rerr' = "nil" /\ UNCHANGED result
  BY DEF DecodeCall, Return
<1>b. TypeOK'
  BY <1>1, <1>a DEF DecInv, TypeOK, reader
<1>c. Sound(scan)'
  BY <1>1, <1>a DEF DecInv
<1>d. Placed'
  <2>1. Len(buf) \in Nat /\ scanp \in Nat /\ scanp <= Len(buf)
    BY <1>a, Lengths DEF DecInv, TypeOK, Placed
  <2>. QED
    BY <1>a, <2>1 DEF Placed
<1>2. TypeOK' /\ Sound(scan)' /\ Placed'
  BY <1>b, <1>c, <1>d
<1>. QED
  BY <1>2, SameWindow DEF DecInv, DecodeCall

\* A byte of the buffer for the scanner
LEMMA ScanByteInv ==
  ASSUME DecInv, ScanByte
  PROVE  DecInv' /\ UNCHANGED <<scanp, scanned>>
<1>. DEFINE c == buf[pos + 1]
            t == Step(scan, c)
            l == LastInput(t, c)
<1>1. Sound(t) /\ Sound(l)
  BY StepSound, LastInputSound DEF DecInv
<1>2. t \in ScannerRecord /\ l \in ScannerRecord
  BY <1>1 DEF Sound, Frames, Stacks
<1>3. /\ pc = "scan" /\ pos < Len(buf)
      /\ UNCHANGED <<reader, buf, scanp, scanned, rerr, delivered>>
      /\ \/ scan' = t /\ pc' = "cut" /\ UNCHANGED <<err, pos, result>>
         \/ scan' = t /\ err' = "syntax" /\ Return("syntax") /\ UNCHANGED pos
         \/ scan' = l /\ pos' = pos + 1 /\ UNCHANGED <<err, pc, result>>
  BY DEF ScanByte
<1>. HIDE DEF t, l
<1>a. TypeOK'
  <2>1. /\ pos' \in Nat /\ scan' \in ScannerRecord /\ err' \in {err, "syntax"}
        /\ pc' \in {pc, "cut", "idle"} /\ result' \in {result, "error"}
    <3>1. pos \in Nat
      BY DEF DecInv, TypeOK
    <3>2. pos + 1 \in Nat
      BY <3>1
    <3>. QED
      BY <1>2, <1>3, <3>1, <3>2 DEF Return
  <2>. QED
    BY <1>3, <2>1 DEF DecInv, TypeOK, reader
<1>b. Sound(scan)'
  BY <1>1, <1>3
<1>c. Placed'
  <2>1. /\ Len(buf) \in Nat /\ scanp \in Nat /\ pos \in Nat
        /\ scanp <= pos /\ pos <= Len(buf) /\ scanp <= Len(buf) /\ result # "EOF"
    BY <1>3, Lengths DEF DecInv, TypeOK, Placed
  <2>. QED
    BY <1>3, <2>1 DEF Placed, Return
<1>4. TypeOK' /\ Sound(scan)' /\ Placed'
  BY <1>a, <1>b, <1>c
<1>. QED
  BY <1>3, <1>4, SameWindow DEF DecInv

\* The end of the input
LEMMA InputEndedInv ==
  ASSUME DecInv, InputEnded
  PROVE  DecInv' /\ UNCHANGED <<scanp, scanned>>
<1>. DEFINE t == Eof(scan)
<1>1. Sound(t)
  BY EofSound DEF DecInv
<1>2. t \in ScannerRecord
  BY <1>1 DEF Sound, Frames, Stacks
<1>3. /\ pc = "scan" /\ rerr # "nil"
      /\ UNCHANGED <<reader, buf, scanp, scanned, pos, rerr, delivered>>
      /\ \/ scan' = t /\ pc' = "cut" /\ UNCHANGED <<err, result>>
         \/ scan' \in {t, scan} /\ err' \in {"unexpected EOF", rerr} /\ Return(err')
  BY DEF InputEnded
<1>. HIDE DEF t
<1>4. TypeOK' /\ Sound(scan)' /\ Placed'
  BY <1>1, <1>2, <1>3, Lengths DEF DecInv, TypeOK, Placed, Return, reader
<1>. QED
  BY <1>3, <1>4, SameWindow DEF DecInv

\* refill moves the beginning of the buffer up by scanp and its end up by n bytes.
LEMMA RefillInv ==
  ASSUME DecInv, NEW n \in 0..Len(unread), NEW e \in {"nil", "EOF", "failed"}, Refill(n, e)
  PROVE  DecInv' /\ scanned' + scanp' = scanned + scanp
<1>1. /\ buf \in Seq(Byte) /\ unread \in Seq(Byte) /\ scanp \in Nat /\ scanned \in Nat
      /\ pos \in Nat /\ scanp <= pos /\ pos <= Len(buf) /\ Len(buf) <= pos
      /\ Len(buf) \in Nat /\ Len(unread) \in Nat
      /\ stream.bytes \in Seq(Byte) /\ Len(stream.bytes) \in Nat
  BY Lengths DEF DecInv, TypeOK, Placed, Refill
<1>. DEFINE d == Drop(buf, scanp)
            k == Keep(unread, n)
            u == Drop(unread, n)
<1>a. scanp \in 0..Len(buf)
  BY <1>1
<1>2. d \in Seq(Byte) /\ Len(d) = Len(buf) - scanp
  BY <1>1, <1>a, DropFacts
<1>3. k \in Seq(Byte) /\ Len(k) = n
  BY <1>1, KeepFacts
<1>4. u \in Seq(Byte)
  BY <1>1, DropFacts
<1>5. k \o u = unread
  BY <1>1, KeepAndDrop
<1>6. d \o unread = Drop(buf \o unread, scanp)
  BY <1>1, <1>a, DropOfConcat
<1>7. buf \o unread = Drop(stream.bytes, scanned) /\ scanned \in 0..Len(stream.bytes)
  BY <1>1 DEF DecInv, BufferIsWindow
<1>8. /\ Len(buf \o unread) = Len(buf) + Len(unread)
      /\ Len(Drop(stream.bytes, scanned)) = Len(stream.bytes) - scanned
  BY <1>1, <1>7, ConcatProperties, DropFacts
<1>9. scanp \in 0..(Len(stream.bytes) - scanned)
  BY <1>1, <1>7, <1>8
<1>10. Drop(Drop(stream.bytes, scanned), scanp) = Drop(stream.bytes, scanned + scanp)
  BY <1>1, <1>7, <1>9, DropTwice
<1>11. /\ buf' = d \o k /\ unread' = u /\ scanned' = scanned + scanp /\ scanp' = 0
       /\ pos' = pos - scanp /\ rerr' = e /\ failed' \in BOOLEAN
       /\ UNCHANGED <<stream, scan, err, pc, outcome>> /\ pc \in {"scan", "peek"}
  BY DEF Refill, DecInv, TypeOK
<1>. HIDE DEF d, k, u
<1>b. d \o k \in Seq(Byte) /\ Len(d \o k) = Len(d) + Len(k)
  BY <1>2, <1>3, ConcatProperties
<1>c. (d \o k) \o u = d \o (k \o u)
  BY <1>2, <1>3, <1>4, ConcatAssociative
<1>12. d \o k \in Seq(Byte) /\ Len(d \o k) = Len(buf) - scanp + n
  BY <1>2, <1>3, <1>b
<1>d. (d \o k) \o u = Drop(stream.bytes, scanned + scanp)
  BY <1>5, <1>6, <1>7, <1>10, <1>c
<1>e. scanned + scanp <= Len(stream.bytes)
  BY <1>1, <1>7, <1>9
<1>13. BufferIsWindow'
  BY <1>11, <1>d, <1>e DEF BufferIsWindow
<1>14. TypeOK' /\ Sound(scan)' /\ Placed'
  <2>1. TypeOK'
    <3>1. buf' \in Seq(Byte) /\ unread' \in Seq(Byte)
      BY <1>4, <1>11, <1>12
    <3>2. scanp' \in Nat /\ scanned' \in Nat /\ pos' \in Nat
      BY <1>1, <1>11
    <3>3. /\ rerr' \in {"nil", "EOF", "failed"} /\ failed' \in BOOLEAN
          /\ UNCHANGED <<stream, scan, err, pc, delivered, result>>
      BY <1>11 DEF outcome
    <3>. QED
      BY <3>1, <3>2, <3>3 DEF DecInv, TypeOK
  <2>2. Sound(scan)'
    BY <1>11 DEF DecInv
  <2>3. Placed'
    BY <1>1, <1>11, <1>12 DEF DecInv, Placed, outcome
  <2>. QED
    BY <2>1, <2>2, <2>3
<1>. QED
  BY <1>1, <1>11, <1>13, <1>14 DEF DecInv

\* Read, whatever the reader returns
LEMMA ReadInv ==
  ASSUME DecInv, Read
  PROVE  DecInv' /\ scanned' + scanp' = scanned + scanp
<1>1. PICK n \in 0..MaxChunk :
        n <= Len(unread) /\ \E e \in {"nil", "EOF", "failed"} : Refill(n, e)
  BY DEF Read
<1>2. n \in 0..Len(unread)
  BY <1>1, Lengths DEF DecInv
<1>. QED
  BY <1>1, <1>2, RefillInv

\* The assignments of CutDocument, for what it has found
Cut(start, body, end, doc) ==
  /\ scanp' = (IF start > 0 THEN start ELSE scanp) + (IF end > -1 THEN end + 4 ELSE Len(body))
  /\ scan' = IF start > 0 THEN Reset ELSE scan
  /\ IF doc = <<>>
     THEN Return("EOF") /\ UNCHANGED delivered
     ELSE pc' = "idle" /\ delivered' = Append(delivered, Content(doc)) /\ UNCHANGED result

\* What CutDocument takes off the buffer lies in it, if there is a document.
LEMMA CutDocumentInv ==
  ASSUME DecInv, CutDocument
  PROVE  /\ DecInv'
         /\ UNCHANGED scanned
         /\ \/ scanp' >= scanp
            \/ scanp > 0 /\ documentStartIndex(SubSeq(buf, scanp + 1, pos)) > 0
<1>1. /\ buf \in Seq(Byte) /\ scanp \in Nat /\ pos \in Nat /\ scanp <= pos /\ pos <= Len(buf)
      /\ Len(buf) \in Nat /\ result # "EOF" /\ pc = "cut"
  BY Lengths DEF DecInv, TypeOK, Placed, CutDocument
<1>. DEFINE value == SubSeq(buf, scanp + 1, pos)
            start == documentStartIndex(value)
            rest  == Drop(value, start)
            body  == IF start > 0 THEN UpToNext(rest, documentStartIndex(rest)) ELSE rest
            end   == documentEndIndex(body)
            doc   == IF end > -1 THEN Keep(body, end) ELSE body
<1>2. value \in Seq(Byte) /\ Len(value) = pos - scanp
  <2>1. scanp + 1 \in Nat /\ scanp + 1 >= 1
    BY <1>1
  <2>2. value \in Seq(Byte) /\ Len(value) = IF scanp + 1 <= pos THEN pos - (scanp + 1) + 1 ELSE 0
    BY <1>1, <2>1, Part
  <2>. QED
    BY <1>1, <2>2
<1>3. /\ scanp' = (IF start > 0 THEN start ELSE scanp) + (IF end > -1 THEN end + 4 ELSE Len(body))
      /\ scan' = IF start > 0 THEN Reset ELSE scan
      /\ IF doc = <<>>
         THEN Return("EOF") /\ UNCHANGED delivered
         ELSE pc' = "idle" /\ delivered' = Append(delivered, Content(doc)) /\ UNCHANGED result
      /\ UNCHANGED <<reader, buf, scanned, err, pos, rerr>>
  <2>1. \E v \in {SubSeq(buf, scanp + 1, pos)} : \E s \in {documentStartIndex(v)} :
        \E r \in {Drop(v, s)} :
        \E b \in {IF s > 0 THEN UpToNext(r, documentStartIndex(r)) ELSE r} :
        \E e \in {documentEndIndex(b)} : \E d \in {IF e > -1 THEN Keep(b, e) ELSE b} :
          Cut(s, b, e, d)
    BY Zenon DEF CutDocument, Cut
  <2>2. Cut(start, body, end, doc)
    BY <2>1
  <2>. HIDE DEF value, start, rest, body, end, doc
  <2>. QED
    BY <2>2 DEF Cut, CutDocument
<1>. HIDE DEF value
<1>4. start \in 0..Len(value)
  BY <1>2, StartFacts
<1>. HIDE DEF start
<1>5. rest \in Seq(Byte) /\ Len(rest) = Len(value) - start
  BY <1>2, <1>4, DropFacts
<1>. HIDE DEF rest
<1>6. body \in Seq(Byte) /\ Len(body) <= Len(rest) /\ Len(body) \in Nat
  <2>. DEFINE next == documentStartIndex(rest)
              n == IF next > 4 THEN next - 4 ELSE 0
  <2>1. next \in 0..Len(rest) /\ Len(rest) \in Nat
    BY <1>5, StartFacts, LenProperties
  <2>2. body \in {rest, Keep(rest, n)}
    BY DEF UpToNext
  <2>. HIDE DEF next
  <2>3. n \in 0..Len(rest)
    BY <2>1
  <2>. HIDE DEF n, body
  <2>4. Keep(rest, n) \in Seq(Byte) /\ Len(Keep(rest, n)) = n
    BY <1>5, <2>3, KeepFacts
  <2>. QED
    BY <1>5, <2>1, <2>2, <2>3, <2>4
<1>. HIDE DEF body
<1>7. end = -1 \/ (end \in 0..Len(body) /\ (end + 4 <= Len(body) \/ end = 0))
  BY <1>6, EndFacts
<1>. HIDE DEF end
<1>8. doc \in Seq(Byte) /\ (doc # <<>> => end # 0)
  <2>1. CASE end = -1
    BY <1>6, <2>1
  <2>2. CASE end \in 0..Len(body)
    <3>1. Keep(body, end) \in Seq(Byte) /\ Len(Keep(body, end)) = end
      BY <1>6, <2>2, KeepFacts
    <3>2. doc = Keep(body, end)
      BY <2>2
    <3>3. doc # <<>> => Len(doc) # 0
      BY <3>1, <3>2, EmptySeq
    <3>. QED
      BY <3>1, <3>2, <3>3
  <2>. QED
    BY <1>7, <2>1, <2>2
<1>. HIDE DEF doc
<1>9. /\ scanp' \in Nat
      /\ scanp' >= scanp \/ (scanp > 0 /\ start > 0)
      /\ doc # <<>> => scanp' <= Len(buf)
  <2>. DEFINE from == IF start > 0 THEN start ELSE scanp
              more == IF end > -1 THEN end + 4 ELSE Len(body)
  <2>1. from \in Nat /\ (from >= scanp \/ (scanp > 0 /\ start > 0))
    BY <1>1, <1>2, <1>4
  <2>2. more \in Nat /\ (doc # <<>> => more <= Len(body))
    BY <1>6, <1>7, <1>8
  <2>3. from + Len(body) <= Len(buf)
    BY <1>1, <1>2, <1>4, <1>5, <1>6
  <2>4. scanp' = from + more
    BY <1>3
  <2>. HIDE DEF from, more
  <2>. QED
    BY <1>1, <1>6, <2>1, <2>2, <2>3, <2>4
<1>10. Content(doc) \in Seq(Byte)
  BY <1>8, ContentType
<1>11. delivered \in Seq(Seq(Byte)) /\ Append(delivered, Content(doc)) \in Seq(Seq(Byte))
  <2>1. delivered \in Seq(Seq(Byte))
    BY DEF DecInv, TypeOK
  <2>. QED
    BY <1>10, <2>1, AppendProperties
<1>12. Sound(scan') /\ scan' \in ScannerRecord
  BY <1>3, ResetSound DEF DecInv, Sound, Frames, Stacks
<1>13. TypeOK' /\ Placed'
  BY <1>1, <1>3, <1>9, <1>11, <1>12 DEF DecInv, TypeOK, Placed, Return, reader
<1>14. BufferIsWindow'
  BY <1>3, SameWindow DEF DecInv
<1>. QED
  BY <1>3, <1>9, <1>12, <1>13, <1>14 DEF DecInv, start, value

\* Whatever step Decode takes
LEMMA DecNext == DecInv /\ [Next]_vars => DecInv'
<1>. SUFFICES ASSUME DecInv, [Next]_vars PROVE DecInv'
  OBVIOUS
<1>1. CASE DecodeCall
  BY <1>1, DecodeCallInv
<1>2. CASE ScanByte
  BY <1>2, ScanByteInv
<1>3. CASE InputEnded
  BY <1>3, InputEndedInv
<1>4. CASE Read
  BY <1>4, ReadInv
<1>5. CASE CutDocument
  BY <1>5, CutDocumentInv
<1>6. CASE UNCHANGED vars
  BY <1>6 DEF vars, DecInv, TypeOK, Placed, BufferIsWindow
<1>. QED
  BY <1>1, <1>2, <1>3, <1>4, <1>5, <1>6 DEF Next

\* Decode keeps its scanner sound, its indices in the buffer and the buffer in place.
THEOREM DecoderInvariant == Spec => []DecInv
  BY DecInit, DecNext, PTL DEF Spec

\* The types of the decoder: for any streams and pieces of any size.
THEOREM DecoderTypeOK == Spec => []TypeOK
<1>1. DecInv => TypeOK
  BY DEF DecInv
<1>. QED
  BY <1>1, DecoderInvariant, PTL

\* No byte is lost or moved: the buffer is the part of the stream that begins scanned
\* bytes into it, though refill slides it whenever it is used up.
THEOREM DecoderBufferIsWindow == Spec => []BufferIsWindow
<1>1. DecInv => BufferIsWindow
  BY DEF DecInv
<1>. QED
  BY <1>1, DecoderInvariant, PTL

-----------------------------------------------------------------------------
(***************************************************************************)
(* tokenState, tokenStack and the collections they stand for.              *)
(***************************************************************************)
Item == [kind : Collection, items : Nat]

FitsIn(q, state, i) ==
  state \in IF i = 0 THEN {"TopValue"} ELSE StatesOf(q[i].kind, q[i].items)

\* A state and a stack for the open collections q
Follows(q, stack, state) ==
  /\ Len(stack) = Len(q)
  /\ FitsIn(q, state, Len(q))
  /\ \A i \in 1..Len(q) : FitsIn(q, stack[i], i - 1) /\ tokenValueAllowed(stack[i])

\* What kind of collection each state but TopValue is for, and with how many items
LEMMA StatesOfFacts ==
  ASSUME NEW kind \in Collection, NEW n \in Nat, NEW state \in StatesOf(kind, n)
  PROVE  /\ state \in States \ {"TopValue"}
         /\ state = "ArrayStart" <=> n = 0 /\ kind = "array"
         /\ state = "ObjectStart" <=> n = 0 /\ kind = "object"
         /\ state \in {"ArrayComma", "ArrayValue"} <=> n > 0 /\ kind = "array"
         /\ state \in {"ObjectColon", "ObjectValue"} <=> n > 0 /\ kind = "object" /\ n % 2 = 1
         /\ state \in {"ObjectComma", "ObjectKey"} <=> n > 0 /\ kind = "object" /\ n % 2 # 1
<1>1. CASE n = 0 /\ kind = "array"
  BY <1>1 DEF StatesOf, Start, States
<1>2. CASE n = 0 /\ kind = "object"
  BY <1>2 DEF StatesOf, Start, States
<1>3. CASE n > 0 /\ kind = "array"
  BY <1>3 DEF StatesOf, States
<1>4. CASE n > 0 /\ kind = "object" /\ n % 2 = 1
  BY <1>4 DEF StatesOf, States
<1>5. CASE n > 0 /\ kind = "object" /\ n % 2 # 1
  BY <1>5 DEF StatesOf, States
<1>. QED
  BY <1>1, <1>2, <1>3, <1>4, <1>5 DEF Collection

\* ... and the states of a collection by its items
LEMMA StatesOfItems ==
  ASSUME NEW n \in Nat
  PROVE  /\ \A kind \in Collection : StatesOf(kind, 0) = {Start[kind]}
         /\ n > 0 => StatesOf("array", n) = {"ArrayComma", "ArrayValue"}
         /\ n > 0 /\ n % 2 = 1 => StatesOf("object", n) = {"ObjectColon", "ObjectValue"}
         /\ n > 0 /\ n % 2 # 1 => StatesOf("object", n) = {"ObjectComma", "ObjectKey"}
  BY DEF StatesOf

\* An item more is an item of the innermost collection.
LEMMA CountedFacts ==
  ASSUME NEW q \in Seq(Item)
  PROVE  /\ Counted(q) \in Seq(Item) /\ Len(Counted(q)) = Len(q)
         /\ \A i \in 1..Len(q) : Counted(q)[i].kind = q[i].kind
         /\ \A i \in 1..Len(q) : i # Len(q) => Counted(q)[i] = q[i]
         /\ q # <<>> => Counted(q)[Len(q)].items = q[Len(q)].items + 1
<1>1. CASE q = <<>>
  BY <1>1, EmptySeq DEF Counted
<1>2. CASE q # <<>>
  <2>. DEFINE e == [q[Len(q)] EXCEPT !.items = @ + 1]
  <2>1. Len(q) \in Nat /\ Len(q) \in 1..Len(q)
    BY <1>2
  <2>2. q[Len(q)] \in Item
    BY <2>1, ElementOfSeq
  <2>3. e \in Item /\ e.kind = q[Len(q)].kind /\ e.items = q[Len(q)].items + 1
    BY <2>2 DEF Item
  <2>4. Counted(q) = [q EXCEPT ![Len(q)] = e]
    BY <1>2 DEF Counted
  <2>. HIDE DEF e
  <2>5. /\ Counted(q) \in Seq(Item) /\ Len(Counted(q)) = Len(q)
        /\ \A j \in 1..Len(q) : Counted(q)[j] = IF j = Len(q) THEN e ELSE q[j]
    BY <2>1, <2>3, <2>4, ExceptSeq
  <2>. QED
    BY <2>1, <2>3, <2>5
<1>. QED
  BY <1>1, <1>2

\* tokenValueEnd, after the value of an item or of a delimiter that closes
LEMMA FollowsValue ==
  ASSUME NEW q \in Seq(Item), NEW stack \in Seq(States), NEW state,
         Follows(q, stack, state), tokenValueAllowed(state)
  PROVE  Follows(Counted(q), stack, tokenValueEnd(state)) /\ tokenValueEnd(state) \in States
<1>. DEFINE c == Counted(q)
            n == Len(q)
<1>1. /\ Len(c) = n /\ n \in Nat /\ c \in Seq(Item)
      /\ \A i \in 1..n : c[i].kind = q[i].kind
      /\ \A i \in 1..n : i # n => c[i] = q[i]
      /\ q # <<>> => c[n].items = q[n].items + 1
  BY CountedFacts, LenProperties
<1>. HIDE DEF c, n
<1>2. \A i \in 1..n : FitsIn(c, stack[i], i - 1) /\ tokenValueAllowed(stack[i])
  <2>. SUFFICES ASSUME NEW i \in 1..n
                PROVE  FitsIn(c, stack[i], i - 1) /\ tokenValueAllowed(stack[i])
    OBVIOUS
  <2>1. i - 1 = 0 \/ (i - 1 \in 1..n /\ i - 1 # n)
    BY <1>1
  <2>. QED
    BY <1>1, <2>1 DEF Follows, FitsIn, n
<1>3. FitsIn(c, tokenValueEnd(state), n) /\ tokenValueEnd(state) \in States
  <2>1. FitsIn(q, state, n)
    BY DEF Follows, n
  <2>2. CASE n = 0
    BY <2>1, <2>2 DEF FitsIn, tokenValueEnd, States
  <2>3. CASE n # 0
    <3>1. n \in 1..n /\ q # <<>>
      BY <1>1, <2>3, EmptySeq DEF n
    <3>2. q[n] \in Item
      BY <3>1, ElementOfSeq DEF n
    <3>. DEFINE k == q[n].kind
                m == q[n].items
    <3>3. k \in Collection /\ m \in Nat /\ c[n].kind = k /\ c[n].items = m + 1
      BY <1>1, <3>1, <3>2 DEF Item
    <3>4. state \in StatesOf(k, m)
      BY <2>1, <2>3 DEF FitsIn
    <3>. HIDE DEF k, m
    <3>5. /\ state \in States \ {"TopValue"}
          /\ state \in {"ArrayStart", "ArrayValue"} => k = "array"
          /\ state = "ObjectValue" => m > 0 /\ k = "object" /\ m % 2 = 1
      BY <3>3, <3>4, StatesOfFacts
    <3>6. state \in {"ArrayStart", "ArrayValue", "ObjectValue"}
      BY <3>5 DEF tokenValueAllowed
    <3>7. m + 1 \in Nat /\ m + 1 > 0 /\ (m % 2 = 1 => (m + 1) % 2 # 1)
      BY <3>3
    <3>8. tokenValueEnd(state) \in StatesOf(k, m + 1)
      BY <3>5, <3>6, <3>7, StatesOfItems DEF tokenValueEnd
    <3>9. tokenValueEnd(state) \in States
      BY <3>6 DEF tokenValueEnd, States
    <3>. QED
      BY <2>3, <3>3, <3>8, <3>9 DEF FitsIn
  <2>. QED
    BY <2>2, <2>3
<1>. QED
  BY <1>1, <1>2, <1>3 DEF Follows, c, n

\* A key that has been decoded is an item, and a colon comes next.
LEMMA FollowsKey ==
  ASSUME NEW q \in Seq(Item), NEW stack \in Seq(States), NEW state,
         Follows(q, stack, state), state \in {"ObjectStart", "ObjectKey"}
  PROVE  Follows(Counted(q), stack, "ObjectColon")
<1>. DEFINE c == Counted(q)
            n == Len(q)
<1>1. /\ Len(c) = n /\ n \in Nat /\ c \in Seq(Item)
      /\ \A i \in 1..n : c[i].kind = q[i].kind
      /\ \A i \in 1..n : i # n => c[i] = q[i]
      /\ q # <<>> => c[n].items = q[n].items + 1
  BY CountedFacts, LenProperties
<1>. HIDE DEF c, n
<1>2. \A i \in 1..n : FitsIn(c, stack[i], i - 1) /\ tokenValueAllowed(stack[i])
  <2>. SUFFICES ASSUME NEW i \in 1..n
                PROVE  FitsIn(c, stack[i], i - 1) /\ tokenValueAllowed(stack[i])
    OBVIOUS
  <2>1. i - 1 = 0 \/ (i - 1 \in 1..n /\ i - 1 # n)
    BY <1>1
  <2>. QED
    BY <1>1, <2>1 DEF Follows, FitsIn, n
<1>3. FitsIn(c, "ObjectColon", n)
  <2>1. FitsIn(q, state, n)
    BY DEF Follows, n
  <2>2. n # 0
    BY <2>1 DEF FitsIn
  <2>3. n \in 1..n /\ q # <<>>
    BY <1>1, <2>2, EmptySeq DEF n
  <2>4. q[n] \in Item
    BY <2>3, ElementOfSeq DEF n
  <2>. DEFINE k == q[n].kind
              m == q[n].items
  <2>5. k \in Collection /\ m \in Nat /\ c[n].kind = k /\ c[n].items = m + 1
    BY <1>1, <2>3, <2>4 DEF Item
  <2>6. state \in StatesOf(k, m)
    BY <2>1, <2>2 DEF FitsIn
  <2>. HIDE DEF k, m
  <2>7. k = "object" /\ (m = 0 \/ m % 2 # 1)
    BY <2>5, <2>6, StatesOfFacts
  <2>8. m + 1 \in Nat /\ m + 1 > 0 /\ (m + 1) % 2 = 1
    BY <2>5, <2>7
  <2>9. "ObjectColon" \in StatesOf(k, m + 1)
    BY <2>7, <2>8, StatesOfItems
  <2>. QED
    BY <2>2, <2>5, <2>9 DEF FitsIn
<1>. QED
  BY <1>1, <1>2, <1>3 DEF Follows, c, n

\* After a separator
LEMMA FollowsSeparator ==
  ASSUME NEW q \in Seq(Item), NEW stack, NEW state \in DOMAIN Separates,
         Follows(q, stack, state)
  PROVE  Follows(q, stack, After[state]) /\ After[state] \in States
<1>. DEFINE n == Len(q)
<1>1. n \in Nat /\ FitsIn(q, state, n)
  BY LenProperties DEF Follows
<1>2. state \in {"ArrayComma", "ObjectColon", "ObjectComma"}
  BY DEF Separates
<1>3. n # 0
  BY <1>1, <1>2 DEF FitsIn
<1>4. q[n].kind \in Collection /\ q[n].items \in Nat
  <2>1. n \in 1..n
    BY <1>1, <1>3
  <2>2. q[n] \in Item
    BY <2>1, ElementOfSeq
  <2>. QED
    BY <2>2 DEF Item
<1>5. state \in StatesOf(q[n].kind, q[n].items)
  BY <1>1, <1>3 DEF FitsIn
<1>. HIDE DEF n
<1>6. After[state] \in StatesOf(q[n].kind, q[n].items)
  <2>. DEFINE k == q[n].kind
              m == q[n].items
  <2>. HIDE DEF k, m
  <2>1. k \in Collection /\ m \in Nat /\ state \in StatesOf(k, m)
    BY <1>4, <1>5 DEF k, m
  <2>2. /\ state = "ArrayComma" => m > 0 /\ k = "array"
        /\ state = "ObjectColon" => m > 0 /\ k = "object" /\ m % 2 = 1
        /\ state = "ObjectComma" => m > 0 /\ k = "object" /\ m % 2 # 1
    BY <2>1, StatesOfFacts
  <2>3. After[state] \in StatesOf(k, m)
    BY <1>2, <2>1, <2>2, StatesOfItems DEF After
  <2>. QED
    BY <2>3 DEF k, m
<1>7. After[state] \in States
  BY <1>2 DEF After, States
<1>. QED
  BY <1>3, <1>6, <1>7 DEF Follows, FitsIn, n

\* An opening delimiter: the state goes onto the stack.
LEMMA FollowsOpen ==
  ASSUME NEW q \in Seq(Item), NEW stack \in Seq(States), NEW state \in States,
         Follows(q, stack, state), tokenValueAllowed(state), NEW k \in Collection
  PROVE  /\ Follows(Append(q, [kind |-> k, items |-> 0]), Append(stack, state), Start[k])
         /\ Append(q, [kind |-> k, items |-> 0]) \in Seq(Item)
         /\ Append(stack, state) \in Seq(States) /\ Start[k] \in States
<1>. DEFINE e == [kind |-> k, items |-> 0]
            o == Append(q, e)
            s == Append(stack, state)
            n == Len(q)
<1>1. e \in Item
  BY DEF Item
<1>2. n \in Nat /\ Len(stack) = n
  BY LenProperties DEF Follows
<1>3. /\ o \in Seq(Item) /\ Len(o) = n + 1 /\ o[n + 1] = e
      /\ \A i \in 1..n : o[i] = q[i]
  BY <1>1, <1>2, AppendProperties
<1>4. /\ s \in Seq(States) /\ Len(s) = n + 1 /\ s[n + 1] = state
      /\ \A i \in 1..n : s[i] = stack[i]
  BY <1>2, AppendProperties
<1>. HIDE DEF o, s, n
<1>5. FitsIn(o, Start[k], n + 1)
  <2>1. n + 1 # 0 /\ o[n + 1].kind = k /\ o[n + 1].items = 0
    BY <1>2, <1>3
  <2>2. Start[k] \in StatesOf(k, 0)
    BY StatesOfItems
  <2>. QED
    BY <2>1, <2>2 DEF FitsIn
<1>6. ASSUME NEW i \in 1..(n + 1)
      PROVE  FitsIn(o, s[i], i - 1) /\ tokenValueAllowed(s[i])
  <2>1. CASE i = n + 1
    <3>1. i - 1 = n /\ (n = 0 \/ n \in 1..n) /\ s[i] = state
      BY <1>2, <1>4, <2>1
    <3>2. FitsIn(q, state, n)
      BY DEF Follows, n
    <3>. QED
      BY <1>3, <3>1, <3>2 DEF FitsIn
  <2>2. CASE i # n + 1
    <3>1. i \in 1..n /\ (i - 1 = 0 \/ i - 1 \in 1..n)
      BY <1>2, <2>2
    <3>2. FitsIn(q, stack[i], i - 1) /\ tokenValueAllowed(stack[i]) /\ s[i] = stack[i]
      BY <1>4, <3>1 DEF Follows, n
    <3>. QED
      BY <1>3, <3>1, <3>2 DEF FitsIn
  <2>. QED
    BY <2>1, <2>2
<1>7. Follows(o, s, Start[k])
  BY <1>3, <1>4, <1>5, <1>6 DEF Follows
<1>8. Start[k] \in States
  BY DEF Start, States, Collection
<1>. QED
  BY <1>3, <1>4, <1>7, <1>8 DEF o, s, n

\* A closing delimiter has its match: the innermost collection is of its kind, and the
\* state on the stack is the one that was when it opened.
LEMMA FollowsClose ==
  ASSUME NEW q \in Seq(Item), NEW stack \in Seq(States), NEW k \in Collection,
         NEW state \in {Start[k], Comma[k]}, Follows(q, stack, state)
  PROVE  /\ q # <<>> /\ q[Len(q)].kind = k /\ Closed(q) \in Seq(Item)
         /\ SubSeq(stack, 1, Len(stack) - 1) \in Seq(States)
         /\ tokenValueAllowed(stack[Len(stack)])
         /\ Follows(Closed(q), SubSeq(stack, 1, Len(stack) - 1), stack[Len(stack)])
<1>. DEFINE n == Len(q)
            m == n - 1
            o == SubSeq(q, 1, m)
            s == SubSeq(stack, 1, m)
<1>1. n \in Nat /\ Len(stack) = n /\ FitsIn(q, state, n)
  BY LenProperties DEF Follows
<1>2. n # 0
  BY <1>1 DEF FitsIn, Start, Comma, Collection
<1>3. n \in 1..n /\ m \in 0..n /\ m \in Nat /\ n = m + 1 /\ q # <<>>
  BY <1>1, <1>2, EmptySeq
<1>4. q[n] \in Item
  BY <1>3, ElementOfSeq
<1>5. q[n].kind = k
  <2>1. q[n].kind \in Collection /\ q[n].items \in Nat
    BY <1>4 DEF Item
  <2>2. state \in StatesOf(q[n].kind, q[n].items)
    BY <1>1, <1>2 DEF FitsIn
  <2>. HIDE DEF n
  <2>3. /\ state \in {"ArrayStart", "ArrayComma"} => q[n].kind = "array"
        /\ state \in {"ObjectStart", "ObjectComma"} => q[n].kind = "object"
    BY <2>1, <2>2, StatesOfFacts
  <2>4. \/ k = "array" /\ state \in {"ArrayStart", "ArrayComma"}
        \/ k = "object" /\ state \in {"ObjectStart", "ObjectComma"}
    <3>1. /\ Start["array"] = "ArrayStart" /\ Comma["array"] = "ArrayComma"
          /\ Start["object"] = "ObjectStart" /\ Comma["object"] = "ObjectComma"
      BY DEF Start, Comma
    <3>2. k = "array" \/ k = "object"
      BY DEF Collection
    <3>4. k = "array" => Start[k] = "ArrayStart" /\ Comma[k] = "ArrayComma"
      BY <3>1
    <3>5. k = "object" => Start[k] = "ObjectStart" /\ Comma[k] = "ObjectComma"
      BY <3>1
    <3>. QED
      BY <3>2, <3>4, <3>5
  <2>. QED
    BY <2>3, <2>4
<1>6. /\ o \in Seq(Item) /\ Len(o) = m
      /\ \A i \in 1..m : o[i] = q[i]
  <2>. HIDE DEF m
  <2>. QED
    BY <1>3, PrefixOfStack
<1>7. /\ s \in Seq(States) /\ Len(s) = m
      /\ \A i \in 1..m : s[i] = stack[i]
  <2>1. m \in 0..Len(stack)
    BY <1>1, <1>3
  <2>. HIDE DEF m
  <2>. QED
    BY <2>1, PrefixOfStack
<1>8. \A i \in 1..n : FitsIn(q, stack[i], i - 1) /\ tokenValueAllowed(stack[i])
  BY DEF Follows
<1>9. o = Closed(q) /\ s = SubSeq(stack, 1, Len(stack) - 1) /\ stack[Len(stack)] = stack[n]
  BY <1>1 DEF Closed
<1>. HIDE DEF o, s, n, m
<1>10. FitsIn(o, stack[n], m)
  <2>1. FitsIn(q, stack[n], m) /\ (m = 0 \/ m \in 1..m)
    BY <1>3, <1>8
  <2>. QED
    BY <1>6, <2>1 DEF FitsIn
<1>11. ASSUME NEW i \in 1..m
       PROVE  FitsIn(o, s[i], i - 1) /\ tokenValueAllowed(s[i])
  <2>1. i \in 1..n /\ s[i] = stack[i] /\ (i - 1 = 0 \/ i - 1 \in 1..m)
    BY <1>3, <1>7
  <2>2. FitsIn(q, s[i], i - 1) /\ tokenValueAllowed(s[i])
    BY <1>8, <2>1
  <2>. QED
    BY <1>6, <2>1, <2>2 DEF FitsIn
<1>12. Follows(o, s, stack[n])
  BY <1>6, <1>7, <1>10, <1>11 DEF Follows
<1>13. q[Len(q)].kind = k
  BY <1>5 DEF n
<1>. QED
  BY <1>3, <1>6, <1>7, <1>8, <1>9, <1>12, <1>13

-----------------------------------------------------------------------------
(***************************************************************************)
(* The steps of Token, More and Decode.  While Decode runs for Token on a  *)
(* key, tokenState is the one of the top level and old stands for it.      *)
(***************************************************************************)
\* Who waits for what
Waiting ==
  /\ DecodingKey => tokenState = "TopValue" /\ old \in {"ObjectStart", "ObjectKey"}
  /\ pc \in {"scan", "cut"} => tokenValueAllowed(tokenState) /\ call \in {"key", "value"}
  /\ pc = "peek" => /\ call \in {"token", "more", "prepare"}
                    /\ call = "prepare" => tokenState \in {"ArrayComma", "ObjectColon"}

Tokens ==
  /\ tokenState \in States /\ tokenStack \in Seq(States) /\ old \in States
  /\ call \in {"token", "more", "prepare", "value", "key"}
  /\ open \in Seq(Item)
  /\ Follows(open, tokenStack, IF DecodingKey THEN old ELSE tokenState)

TokInv == DecInv /\ Tokens /\ Waiting

\* What a step may tell of the open collections
Tells ==
  \/ UNCHANGED <<open, event>>
  \/ event' \in {"Error", "Value", "More", "NoMore"} /\ open' \in {open, Counted(open)}
  \/ \E k \in Collection :
       event' = BeginOf[k] /\ open' = Append(open, [kind |-> k, items |-> 0])
  \/ \E k \in Collection :
       /\ event' = EndOf[k] /\ open' = Counted(Closed(open))
       /\ open # <<>> /\ open[Len(open)].kind = k

\* The one step that can take InputOffset back: "dec.scanp = start" after a separator
Rewinds == pc = "cut" /\ scanp > 0 /\ documentStartIndex(SubSeq(buf, scanp + 1, pos)) > 0

\* A step that the rest of this module wants
Good == TokInv' /\ Tells /\ (scanned' + scanp' >= scanned + scanp \/ Rewinds)

\* The calls move the indices within the buffer.
LEMMA CallMoves ==
  ASSUME DecInv, UNCHANGED <<reader, buf, scanned, err, delivered>>,
         pc \in {"idle", "peek"}, result # "EOF",
         scan' \in {scan, Reset}, rerr' \in {rerr, "nil"},
         scanp' \in scanp..Len(buf), pos' \in Nat,
         \/ pc' = "idle" /\ result' \in {result, "EOF", "error"}
         \/ pc' \in {"scan", "peek"} /\ result' = result /\ scanp' <= pos' /\ pos' <= Len(buf)
  PROVE  DecInv' /\ scanned' + scanp' >= scanned + scanp
<1>1. scanp \in Nat /\ scanned \in Nat /\ Len(buf) \in Nat
  BY Lengths DEF DecInv, TypeOK
<1>2. scanp' \in Nat /\ scanp' >= scanp /\ scanp' <= Len(buf)
  BY <1>1
<1>3. Sound(scan') /\ scan' \in ScannerRecord
  BY ResetSound DEF DecInv, Sound, Frames, Stacks
<1>4. TypeOK'
  BY <1>2, <1>3 DEF DecInv, TypeOK, reader
<1>5. Placed'
  BY <1>2 DEF Placed, reader
<1>6. BufferIsWindow'
  BY SameWindow DEF DecInv
<1>a. scanned' = scanned
  OBVIOUS
<1>7. scanned' + scanp' >= scanned + scanp
  <2>1. \A m, n, o \in Nat : m >= n => o + m >= o + n
    OBVIOUS
  <2>. QED
    BY <1>1, <1>2, <1>a, <2>1
<1>. QED
  BY <1>3, <1>4, <1>5, <1>6, <1>7 DEF DecInv

\* Where the indices are when a call begins, and when peek looks at a byte
LEMMA Indices ==
  ASSUME TokInv
  PROVE  /\ scanp \in Nat /\ pos \in Nat /\ Len(buf) \in Nat
         /\ result # "EOF" => scanp \in scanp..Len(buf)
         /\ pc = "peek" => /\ result # "EOF" /\ pos \in scanp..Len(buf)
                           /\ pos < Len(buf) => pos + 1 \in scanp..Len(buf) /\ pos + 1 \in Nat
<1>1. scanp \in Nat /\ pos \in Nat /\ Len(buf) \in Nat
  BY Lengths DEF TokInv, DecInv, TypeOK
<1>2. /\ result # "EOF" => scanp <= Len(buf)
      /\ pc = "peek" => result # "EOF" /\ scanp <= pos /\ pos <= Len(buf)
  BY DEF TokInv, DecInv, Placed
<1>. QED
  BY <1>1, <1>2

\* A call that does not decode is as the caller left it.
LEMMA SameTokens ==
  ASSUME TokInv, ~DecodingKey, ~DecodingKey', DecInv', UNCHANGED <<tokenState, tokenStack, open>>,
         old' \in States, call' \in {"token", "more", "prepare", "value", "key"}, Waiting'
  PROVE  TokInv'
BY DEF TokInv, Tokens

\* peek begins.
LEMMA BeginPeekGood ==
  ASSUME TokInv, pc = "idle", result # "EOF",
         NEW by \in {"token", "more", "prepare"}, BeginPeek(by),
         by = "prepare" => tokenState \in {"ArrayComma", "ObjectColon"}
  PROVE  Good
<1>1. DecInv' /\ scanned' + scanp' >= scanned + scanp
  <2>1. /\ UNCHANGED <<reader, buf, scanned, err, delivered, scan, scanp, result>>
        /\ pc' = "peek" /\ pos' = scanp /\ rerr' = "nil"
    BY DEF BeginPeek, outcome
  <2>2. scanp' \in scanp..Len(buf) /\ pos' \in Nat /\ scanp' <= pos' /\ pos' <= Len(buf)
    BY <2>1, Indices
  <2>. QED
    BY <2>1, <2>2, CallMoves DEF TokInv
<1>2. ~DecodingKey /\ ~DecodingKey' /\ Waiting'
  BY DEF BeginPeek, DecodingKey, Waiting
<1>3. TokInv'
  BY <1>1, <1>2, SameTokens DEF BeginPeek, TokInv, Tokens
<1>. QED
  BY <1>1, <1>3 DEF Good, Tells, BeginPeek

\* A call returns an error.
LEMMA RefuseGood ==
  ASSUME TokInv, pc \in {"idle", "peek"}, result # "EOF",
         NEW e, NEW at \in scanp..Len(buf), Refuse(e, at),
         UNCHANGED <<tokenState, tokenStack, call>>, old' \in States
  PROVE  Good
<1>1. /\ UNCHANGED <<reader, buf, scanned, err, delivered, scan, pos, rerr, open>>
      /\ pc' = "idle" /\ result' \in {"EOF", "error"} /\ scanp' = at /\ event' = "Error"
  BY DEF Refuse, Return
<1>2. DecInv' /\ scanned' + scanp' >= scanned + scanp
  BY <1>1, Indices, CallMoves DEF TokInv
<1>3. ~DecodingKey /\ ~DecodingKey' /\ Waiting'
  BY <1>1 DEF DecodingKey, Waiting
<1>4. TokInv'
  BY <1>1, <1>2, <1>3, SameTokens DEF TokInv, Tokens
<1>. QED
  BY <1>1, <1>2, <1>4 DEF Good, Tells

\* Decode begins, on a value in the state that Token or the caller is in ...
LEMMA BeginValueGood ==
  ASSUME TokInv, pc \in {"idle", "peek"}, result # "EOF",
         NEW at \in scanp..Len(buf), NEW state \in States, BeginDecode("value", at, state),
         tokenValueAllowed(state), Follows(open, tokenStack, state), UNCHANGED old
  PROVE  Good
<1>1. /\ UNCHANGED <<reader, buf, scanned, err, delivered, result, tokenStack, open, event>>
      /\ pc' = "scan" /\ scan' = Reset /\ rerr' = "nil" /\ scanp' = at /\ pos' = at
      /\ call' = "value" /\ tokenState' = state
  BY DEF BeginDecode, outcome
<1>2. at \in Nat /\ at <= Len(buf)
  BY Indices
<1>3. DecInv' /\ scanned' + scanp' >= scanned + scanp
  BY <1>1, <1>2, CallMoves DEF TokInv
<1>4. ~DecodingKey' /\ Waiting'
  BY <1>1 DEF DecodingKey, Waiting
<1>5. TokInv'
  BY <1>1, <1>3, <1>4 DEF TokInv, Tokens
<1>. QED
  BY <1>1, <1>3, <1>5 DEF Good, Tells

\* ... or on a key, as if it stood at the top.
LEMMA BeginKeyGood ==
  ASSUME TokInv, pc = "peek", result # "EOF",
         NEW at \in scanp..Len(buf), BeginDecode("key", at, "TopValue"),
         tokenState \in {"ObjectStart", "ObjectKey"}, old' = tokenState
  PROVE  Good
<1>1. /\ UNCHANGED <<reader, buf, scanned, err, delivered, result, tokenStack, open, event>>
      /\ pc' = "scan" /\ scan' = Reset /\ rerr' = "nil" /\ scanp' = at /\ pos' = at
      /\ call' = "key" /\ tokenState' = "TopValue"
  BY DEF BeginDecode, outcome
<1>2. at \in Nat /\ at <= Len(buf)
  BY Indices
<1>3. DecInv' /\ scanned' + scanp' >= scanned + scanp
  BY <1>1, <1>2, CallMoves DEF TokInv
<1>4. ~DecodingKey /\ DecodingKey' /\ Waiting'
  BY <1>1 DEF DecodingKey, Waiting, tokenValueAllowed
<1>5. tokenState' \in States
  BY <1>1 DEF States
<1>6. TokInv'
  BY <1>1, <1>3, <1>4, <1>5 DEF TokInv, Tokens
<1>. QED
  BY <1>1, <1>3, <1>6 DEF Good, Tells

\* The calls of the caller
LEMMA CallGood ==
  ASSUME TokInv, CallToken \/ CallMore \/ CallDecode
  PROVE  Good
<1>1. pc = "idle" /\ result # "EOF"
  BY DEF CallToken, CallMore, CallDecode, MayCall
<1>2. CASE CallToken
  BY <1>1, <1>2, BeginPeekGood DEF CallToken
<1>3. CASE CallMore
  BY <1>1, <1>3, BeginPeekGood DEF CallMore
<1>4. CASE CallDecode
  <2>1. scanp \in scanp..Len(buf) /\ old \in States
    BY <1>1, Indices DEF TokInv, Tokens
  <2>2. CASE \E e \in {err, "syntax"} :
               Refuse(e, scanp) /\ UNCHANGED <<tokenState, tokenStack, call, old>>
    BY <1>1, <2>1, <2>2, RefuseGood
  <2>3. CASE BeginPeek("prepare") /\ tokenState \in {"ArrayComma", "ObjectColon"}
    BY <1>1, <2>3, BeginPeekGood
  <2>4. CASE /\ tokenValueAllowed(tokenState)
             /\ BeginDecode("value", scanp, tokenState) /\ UNCHANGED old
    <3>1. tokenState \in States /\ Follows(open, tokenStack, tokenState)
      BY <1>1 DEF TokInv, Tokens, DecodingKey
    <3>. QED
      BY <1>1, <2>1, <2>4, <3>1, BeginValueGood
  <2>. QED
    BY <1>4, <2>2, <2>3, <2>4 DEF CallDecode
<1>. QED
  BY <1>2, <1>3, <1>4

\* A peek that goes on, or that tells More what it has found
LEMMA PeekGood ==
  ASSUME TokInv, PeekSpace \/ PeekFailed \/ MoreAnswers
  PROVE  Good
<1>1. pc = "peek" /\ result # "EOF" /\ old \in States /\ scanp \in scanp..Len(buf) /\ pos \in Nat
  BY Indices DEF PeekSpace, PeekFailed, MoreAnswers, Peeked, TokInv, Tokens
<1>2. CASE \E e : Refuse(e, scanp) /\ UNCHANGED <<tokenState, tokenStack, call, old>>
  BY <1>1, <1>2, RefuseGood
<1>3. ASSUME UNCHANGED <<reader, buf, scanned, scan, err, rerr, outcome,
                         tokenState, tokenStack, call, old, open>>,
             \/ pc' = "idle" /\ pos' = pos /\ scanp' \in {scanp, pos}
                /\ event' \in {"NoMore", "More"}
             \/ UNCHANGED <<pc, scanp, event>> /\ pos' = pos + 1 /\ pos < Len(buf)
      PROVE  Good
  <2>1. scanp' \in scanp..Len(buf) /\ pos' \in Nat /\ (pc' # "idle" => scanp' <= pos' /\ pos' <= Len(buf))
    BY <1>1, <1>3, Indices
  <2>2. UNCHANGED <<delivered, result>>
    BY <1>3 DEF outcome
  <2>3. DecInv' /\ scanned' + scanp' >= scanned + scanp
    BY <1>1, <1>3, <2>1, <2>2, CallMoves DEF TokInv
  <2>4. ~DecodingKey /\ ~DecodingKey' /\ Waiting'
    BY <1>1, <1>3 DEF DecodingKey, Waiting, TokInv
  <2>5. TokInv'
    BY <1>3, <2>3, <2>4, SameTokens DEF TokInv, Tokens
  <2>. QED
    BY <1>3, <2>3, <2>5 DEF Good, Tells
<1>4. CASE PeekSpace
  BY <1>3, <1>4 DEF PeekSpace, tokenVars
<1>5. CASE PeekFailed
  BY <1>2, <1>3, <1>5 DEF PeekFailed
<1>6. CASE MoreAnswers
  BY <1>3, <1>6 DEF MoreAnswers
<1>. QED
  BY <1>4, <1>5, <1>6

\* tokenPrepareForDecode
LEMMA PrepareGood ==
  ASSUME TokInv, Prepare
  PROVE  Good
<1>1. PICK c \in Byte : /\ Peeked("prepare", c)
                        /\ IF c = Separates[tokenState]
                           THEN BeginDecode("value", pos + 1, After[tokenState])
                           ELSE Refuse("syntax", pos) /\ UNCHANGED <<tokenState, tokenStack, call>>
                        /\ UNCHANGED old
  BY DEF Prepare
<1>2. /\ pc = "peek" /\ call = "prepare" /\ pos < Len(buf)
  BY <1>1 DEF Peeked
<1>3. /\ result # "EOF" /\ pos \in scanp..Len(buf) /\ pos + 1 \in scanp..Len(buf)
      /\ tokenState \in {"ArrayComma", "ObjectColon"} /\ old \in States
      /\ open \in Seq(Item) /\ Follows(open, tokenStack, tokenState)
  BY <1>2, Indices DEF TokInv, Waiting, Tokens, DecodingKey
<1>4. CASE c = Separates[tokenState]
  <2>1. tokenState \in DOMAIN Separates /\ tokenValueAllowed(After[tokenState])
    BY <1>3 DEF Separates, After, tokenValueAllowed
  <2>2. After[tokenState] \in States /\ Follows(open, tokenStack, After[tokenState])
    BY <1>3, <2>1, FollowsSeparator
  <2>. QED
    BY <1>1, <1>2, <1>3, <1>4, <2>1, <2>2, BeginValueGood
<1>5. CASE c # Separates[tokenState]
  BY <1>1, <1>2, <1>3, <1>5, RefuseGood
<1>. QED
  BY <1>4, <1>5

\* Token returns an opening delimiter ...
LEMMA TokenOpensGood ==
  ASSUME TokInv, NEW k \in Collection, TokenOpens(k)
  PROVE  Good
<1>. DEFINE e == [kind |-> k, items |-> 0]
<1>1. /\ pc = "peek" /\ pos < Len(buf) /\ pc' = "idle" /\ scanp' = pos + 1
      /\ UNCHANGED <<reader, buf, scanned, scan, err, pos, rerr, outcome, call, old>>
      /\ tokenStack' = Append(tokenStack, tokenState) /\ tokenState' = Start[k]
      /\ event' = BeginOf[k] /\ open' = Append(open, e) /\ tokenValueAllowed(tokenState)
  BY DEF TokenOpens, Peeked
<1>2. /\ scanp' \in scanp..Len(buf) /\ pos' \in Nat /\ result # "EOF"
      /\ UNCHANGED <<delivered, result>>
  BY <1>1, Indices DEF outcome
<1>3. DecInv' /\ scanned' + scanp' >= scanned + scanp
  BY <1>1, <1>2, CallMoves DEF TokInv
<1>4. ~DecodingKey /\ ~DecodingKey' /\ Waiting'
  BY <1>1 DEF DecodingKey, Waiting
<1>5. /\ Follows(Append(open, e), Append(tokenStack, tokenState), Start[k])
      /\ Append(open, e) \in Seq(Item)
      /\ Append(tokenStack, tokenState) \in Seq(States) /\ Start[k] \in States
  BY <1>1, <1>4, FollowsOpen DEF TokInv, Tokens
<1>. HIDE DEF e
<1>6. Tokens'
  BY <1>1, <1>4, <1>5 DEF TokInv, Tokens
<1>7. Tells
  BY <1>1 DEF Tells, e
<1>. QED
  BY <1>3, <1>4, <1>6, <1>7 DEF Good, TokInv

\* ... and the one that matches.
LEMMA TokenClosesGood ==
  ASSUME TokInv, NEW k \in Collection, TokenCloses(k)
  PROVE  Good
<1>. DEFINE n == Len(tokenStack)
            q == Closed(open)
            s == SubSeq(tokenStack, 1, n - 1)
<1>1. /\ pc = "peek" /\ pos < Len(buf) /\ pc' = "idle" /\ scanp' = pos + 1
      /\ UNCHANGED <<reader, buf, scanned, scan, err, pos, rerr, outcome, call, old>>
      /\ tokenState' = tokenValueEnd(tokenStack[n]) /\ tokenStack' = s
      /\ event' = EndOf[k] /\ open' = Counted(q) /\ tokenState \in {Start[k], Comma[k]}
  BY DEF TokenCloses, Peeked
<1>2. /\ scanp' \in scanp..Len(buf) /\ pos' \in Nat /\ result # "EOF"
      /\ UNCHANGED <<delivered, result>>
  BY <1>1, Indices DEF outcome
<1>3. DecInv' /\ scanned' + scanp' >= scanned + scanp
  BY <1>1, <1>2, CallMoves DEF TokInv
<1>4. ~DecodingKey /\ ~DecodingKey' /\ Waiting'
  BY <1>1 DEF DecodingKey, Waiting
<1>5. open \in Seq(Item) /\ tokenStack \in Seq(States) /\ Follows(open, tokenStack, tokenState)
  BY <1>4 DEF TokInv, Tokens
<1>6. /\ open # <<>> /\ open[Len(open)].kind = k /\ q \in Seq(Item) /\ s \in Seq(States)
      /\ tokenValueAllowed(tokenStack[n]) /\ Follows(q, s, tokenStack[n])
  BY <1>1, <1>5, FollowsClose
<1>. HIDE DEF n, q, s
<1>7. Follows(Counted(q), s, tokenValueEnd(tokenStack[n])) /\ tokenValueEnd(tokenStack[n]) \in States
  BY <1>6, FollowsValue
<1>8. Counted(q) \in Seq(Item)
  BY <1>6, CountedFacts
<1>9. Tokens'
  BY <1>1, <1>4, <1>6, <1>7, <1>8 DEF TokInv, Tokens
<1>10. Tells
  BY <1>1, <1>6 DEF Tells, q
<1>. QED
  BY <1>3, <1>4, <1>9, <1>10 DEF Good, TokInv

\* A separator is elided.
LEMMA TokenSkipsGood ==
  ASSUME TokInv, TokenSkips
  PROVE  Good
<1>1. /\ tokenState \in DOMAIN Separates /\ pc = "peek" /\ call = "token" /\ pos < Len(buf)
      /\ scanp' = pos + 1 /\ pos' = pos + 1 /\ rerr' = "nil" /\ tokenState' = After[tokenState]
      /\ UNCHANGED <<reader, buf, scanned, scan, err, pc, outcome, tokenStack, call, old, open, event>>
  BY DEF TokenSkips, Peeked
<1>2. /\ scanp' \in scanp..Len(buf) /\ pos' \in Nat /\ scanp' <= pos' /\ pos' <= Len(buf)
      /\ result # "EOF" /\ UNCHANGED <<delivered, result>>
  BY <1>1, Indices DEF outcome
<1>3. DecInv' /\ scanned' + scanp' >= scanned + scanp
  BY <1>1, <1>2, CallMoves DEF TokInv
<1>4. ~DecodingKey /\ ~DecodingKey' /\ Waiting'
  BY <1>1 DEF DecodingKey, Waiting
<1>5. open \in Seq(Item) /\ Follows(open, tokenStack, tokenState)
  BY <1>4 DEF TokInv, Tokens
<1>6. Follows(open, tokenStack, After[tokenState]) /\ After[tokenState] \in States
  BY <1>1, <1>5, FollowsSeparator
<1>7. Tokens'
  BY <1>1, <1>4, <1>6 DEF TokInv, Tokens
<1>. QED
  BY <1>1, <1>3, <1>4, <1>7 DEF Good, Tells, TokInv

\* Token calls Decode, or answers that the byte is not expected.
LEMMA TokenDecodesGood ==
  ASSUME TokInv, TokenDecodesKey \/ TokenDecodesValue \/ TokenRefuses
  PROVE  Good
<1>1. /\ pc = "peek" /\ pos < Len(buf)
  BY DEF TokenDecodesKey, TokenDecodesValue, TokenRefuses, Peeked
<1>2. /\ result # "EOF" /\ pos \in scanp..Len(buf) /\ old \in States /\ tokenState \in States
      /\ Follows(open, tokenStack, tokenState)
  BY <1>1, Indices DEF TokInv, Tokens, DecodingKey
<1>3. CASE TokenDecodesKey
  <2>1. tokenState \in {"ObjectStart", "ObjectKey"} /\ old' = tokenState
    BY <1>3 DEF TokenDecodesKey
  <2>2. \/ Refuse(err, pos) /\ UNCHANGED <<tokenState, tokenStack, call>>
        \/ BeginDecode("key", pos, "TopValue")
    BY <1>3 DEF TokenDecodesKey, DecodeOr
  <2>3. CASE Refuse(err, pos) /\ UNCHANGED <<tokenState, tokenStack, call>>
    BY <1>1, <1>2, <2>1, <2>3, RefuseGood
  <2>4. CASE BeginDecode("key", pos, "TopValue")
    BY <1>1, <1>2, <2>1, <2>4, BeginKeyGood
  <2>. QED
    BY <2>2, <2>3, <2>4
<1>4. CASE TokenDecodesValue
  <2>1. tokenValueAllowed(tokenState) /\ UNCHANGED old
    BY <1>4 DEF TokenDecodesValue
  <2>2. \/ Refuse(err, pos) /\ UNCHANGED <<tokenState, tokenStack, call>>
        \/ BeginDecode("value", pos, tokenState)
    BY <1>4 DEF TokenDecodesValue, DecodeOr
  <2>3. CASE Refuse(err, pos) /\ UNCHANGED <<tokenState, tokenStack, call>>
    BY <1>1, <1>2, <2>1, <2>3, RefuseGood
  <2>4. CASE BeginDecode("value", pos, tokenState)
    BY <1>1, <1>2, <2>1, <2>4, BeginValueGood
  <2>. QED
    BY <2>2, <2>3, <2>4
<1>5. CASE TokenRefuses
  <2>1. Refuse("syntax", pos) /\ UNCHANGED <<tokenState, tokenStack, call, old>>
    BY <1>5 DEF TokenRefuses
  <2>. QED
    BY <1>1, <1>2, <2>1, RefuseGood
<1>. QED
  BY <1>3, <1>4, <1>5

\* Decode goes on, and at its end tokenState is brought up to date.
LEMMA DecodeStepGood ==
  ASSUME TokInv, DecodeStep
  PROVE  Good
<1>1. ScanByte \/ InputEnded \/ CutDocument
  BY DEF DecodeStep
<1>2. DecInv' /\ (scanned' + scanp' >= scanned + scanp \/ Rewinds)
  <2>1. scanp \in Nat /\ scanned \in Nat /\ DecInv
    BY DEF TokInv, DecInv, TypeOK
  <2>2. CASE ScanByte
    BY <2>1, <2>2, ScanByteInv
  <2>3. CASE InputEnded
    BY <2>1, <2>3, InputEndedInv
  <2>4. CASE CutDocument
    <3>1. DecInv' /\ UNCHANGED scanned
      BY <2>1, <2>4, CutDocumentInv
    <3>2. scanp' \in Nat
      BY <3>1 DEF DecInv, TypeOK
    <3>3. scanp' >= scanp \/ (scanp > 0 /\ documentStartIndex(SubSeq(buf, scanp + 1, pos)) > 0)
      BY <2>1, <2>4, CutDocumentInv
    <3>4. pc = "cut"
      BY <2>4 DEF CutDocument
    <3>5. CASE scanp' >= scanp
      <4>1. scanned' + scanp' >= scanned + scanp
        <5>1. \A m, n, o \in Nat : m >= n => o + m >= o + n
          OBVIOUS
        <5>. QED
          BY <2>1, <3>1, <3>2, <3>5, <5>1
      <4>. QED
        BY <3>1, <4>1
    <3>6. CASE Rewinds
      BY <3>1, <3>6
    <3>. QED
      BY <3>3, <3>4, <3>5, <3>6 DEF Rewinds
  <2>. QED
    BY <1>1, <2>2, <2>3, <2>4
<1>3. pc \in {"scan", "cut"} /\ pc' \in {"scan", "cut", "idle"}
  BY <1>1 DEF ScanByte, InputEnded, CutDocument, Return
<1>4. /\ tokenValueAllowed(tokenState) /\ call \in {"key", "value"}
      /\ call = "key" => old \in {"ObjectStart", "ObjectKey"} /\ tokenState = "TopValue"
      /\ tokenState \in States /\ tokenStack \in Seq(States) /\ old \in States
      /\ open \in Seq(Item)
      /\ Follows(open, tokenStack, IF call = "key" THEN old ELSE tokenState)
  BY <1>3 DEF TokInv, Tokens, Waiting, DecodingKey
<1>5. UNCHANGED <<tokenStack, call, old>>
  BY DEF DecodeStep
<1>6. CASE pc' # "idle" /\ UNCHANGED <<tokenState, open, event>>
  <2>1. DecodingKey' <=> call = "key"
    BY <1>3, <1>5, <1>6 DEF DecodingKey
  <2>2. Tokens'
    BY <1>4, <1>5, <1>6, <2>1 DEF Tokens
  <2>3. Waiting'
    BY <1>3, <1>4, <1>5, <1>6, <2>1 DEF Waiting
  <2>. QED
    BY <1>2, <1>6, <2>2, <2>3 DEF Good, TokInv, Tells
<1>7. CASE pc' = "idle" /\ (Decoded \/ NotDecoded)
  <2>. DEFINE state == IF call = "key" THEN old ELSE tokenState
  <2>1. \/ tokenState' = state /\ open' = open
        \/ call = "key" /\ tokenState' = "ObjectColon" /\ open' = Counted(open)
        \/ call # "key" /\ tokenState' = tokenValueEnd(tokenState) /\ open' = Counted(open)
    BY <1>7 DEF Decoded, NotDecoded
  <2>2. event' \in {"Error", "Value"}
    BY <1>7 DEF Decoded, NotDecoded
  <2>3. ~DecodingKey' /\ Waiting'
    BY <1>7 DEF DecodingKey, Waiting
  <2>4. open' \in Seq(Item) /\ open' \in {open, Counted(open)}
    BY <1>4, <2>1, CountedFacts
  <2>5. tokenState' \in States /\ Follows(open', tokenStack, tokenState')
    <3>1. CASE tokenState' = state /\ open' = open
      BY <1>4, <3>1
    <3>2. CASE call = "key" /\ tokenState' = "ObjectColon" /\ open' = Counted(open)
      <4>1. Follows(Counted(open), tokenStack, "ObjectColon")
        BY <1>4, <3>2, FollowsKey
      <4>2. "ObjectColon" \in States
        BY DEF States
      <4>. QED
        BY <3>2, <4>1, <4>2
    <3>3. CASE call # "key" /\ tokenState' = tokenValueEnd(tokenState) /\ open' = Counted(open)
      <4>1. /\ Follows(Counted(open), tokenStack, tokenValueEnd(tokenState))
            /\ tokenValueEnd(tokenState) \in States
        BY <1>4, <3>3, FollowsValue
      <4>. QED
        BY <3>3, <4>1
    <3>. QED
      BY <2>1, <3>1, <3>2, <3>3
  <2>6. Tokens'
    BY <1>4, <1>5, <2>3, <2>4, <2>5 DEF Tokens
  <2>. QED
    BY <1>2, <2>2, <2>3, <2>4, <2>6 DEF Good, TokInv, Tells
<1>. QED
  BY <1>6, <1>7 DEF DecodeStep

\* More of the stream is read, by Decode or by peek.
LEMMA ReadStepGood ==
  ASSUME TokInv, ReadStep
  PROVE  Good
<1>1. scanp \in Nat /\ scanned \in Nat /\ DecInv /\ Read
      /\ UNCHANGED <<tokenState, tokenStack, call, old, open, event>>
  BY DEF TokInv, DecInv, TypeOK, ReadStep, tokenVars
<1>2. DecInv' /\ scanned' + scanp' = scanned + scanp
  BY <1>1, ReadInv
<1>3. pc' = pc
  BY <1>1 DEF Read, Refill
<1>4. Tokens' /\ Waiting'
  BY <1>1, <1>3 DEF TokInv, Tokens, Waiting, DecodingKey
<1>. QED
  BY <1>1, <1>2, <1>4 DEF Good, TokInv, Tells

\* Whatever step is taken
LEMMA StepGood == TokInv /\ TokenNext => Good
<1>. SUFFICES ASSUME TokInv, TokenNext PROVE Good
  OBVIOUS
<1>. QED
  BY CallGood, PeekGood, PrepareGood, TokenOpensGood, TokenClosesGood, TokenSkipsGood,
     TokenDecodesGood, DecodeStepGood, ReadStepGood DEF TokenNext

\* A step that changes nothing of the token decoder keeps the invariant.
LEMMA TokenStutter == TokInv /\ UNCHANGED allVars => TokInv'
BY DEF TokInv, DecInv, TypeOK, Placed, BufferIsWindow, Tokens, Waiting, DecodingKey,
       allVars, vars, tokenVars

\* Before the first call
LEMMA TokenInitInv == TokenInit => TokInv
<1>. SUFFICES ASSUME TokenInit PROVE TokInv
  OBVIOUS
<1>1. DecInv /\ pc = "idle"
  BY DecInit DEF TokenInit, Init
<1>2. ~DecodingKey /\ Waiting
  BY <1>1 DEF DecodingKey, Waiting
<1>3. <<>> \in Seq(States) /\ Len(<<>>) = 0
  BY EmptySeq
<1>4. <<>> \in Seq(Item)
  BY EmptySeq
<1>5. Follows(<<>>, <<>>, "TopValue")
  BY <1>3 DEF Follows, FitsIn
<1>6. "TopValue" \in States
  BY DEF States
<1>7. Tokens
  BY <1>2, <1>3, <1>4, <1>5, <1>6 DEF TokenInit, Tokens
<1>. QED
  BY <1>1, <1>2, <1>7 DEF TokInv

-----------------------------------------------------------------------------
(***************************************************************************)
(* Theorems about the token API.                                           *)
(***************************************************************************)
\* The inductive invariant, which says besides the properties who waits for what.
THEOREM TokenInvariant == TokenSpec => []TokInv
<1>1. TokInv /\ [TokenNext]_allVars => TokInv'
  BY StepGood, TokenStutter DEF Good
<1>. QED
  BY <1>1, TokenInitInv, PTL DEF TokenSpec

\* The types, and the read index of peek within the buffer, for any calls in any order.
THEOREM TokenDecoderTypeOK == TokenSpec => []TokenTypeOK
<1>1. TokInv => TokenTypeOK
  BY DEF TokInv, DecInv, Placed, Tokens, TokenTypeOK, Item
<1>. QED
  BY <1>1, TokenInvariant, PTL

\* No byte is lost or moved, with peek and Decode taking turns at refilling the buffer.
THEOREM TokenBufferIsWindow == TokenSpec => []BufferIsWindow
<1>1. TokInv => BufferIsWindow
  BY DEF TokInv, DecInv
<1>. QED
  BY <1>1, TokenInvariant, PTL

\* tokenState and tokenStack say what has been returned, at any depth of nesting and
\* however many calls have failed half way.
THEOREM TokenStateFollowsTokens == TokenSpec => []StateFollowsTokens
<1>1. TokInv => StateFollowsTokens
  BY DEF TokInv, Tokens, Follows, FitsIn, StateFollowsTokens, StateFits
<1>. QED
  BY <1>1, TokenInvariant, PTL

-----------------------------------------------------------------------------
(***************************************************************************)
(* Token implements FlowNesting: the kinds of the open collections are the *)
(* collections open there.                                                 *)
(***************************************************************************)
Kinds(q) == [i \in 1..Len(q) |-> q[i].kind]

\* The kinds are as many as the collections, and counting leaves them alone.
LEMMA KindsFacts ==
  ASSUME NEW q \in Seq(Item)
  PROVE  /\ Kinds(q) \in Seq(Collection) /\ Len(Kinds(q)) = Len(q)
         /\ \A i \in 1..Len(q) : Kinds(q)[i] = q[i].kind
         /\ Kinds(Counted(q)) = Kinds(q)
<1>1. Len(q) \in Nat /\ \A i \in 1..Len(q) : q[i] \in Item
  BY LenProperties, ElementOfSeq
<1>2. Kinds(q) \in [1..Len(q) -> Collection]
  BY <1>1 DEF Kinds, Item
<1>3. Kinds(q) \in Seq(Collection) /\ DOMAIN Kinds(q) = 1..Len(q)
  BY <1>1, <1>2, SeqDef
<1>4. Len(Kinds(q)) = Len(q)
  BY <1>1, <1>3, LenProperties
<1>5. /\ Len(Counted(q)) = Len(q)
      /\ \A i \in 1..Len(q) : Counted(q)[i].kind = q[i].kind
  BY CountedFacts
<1>6. Kinds(Counted(q)) = Kinds(q)
  BY <1>5 DEF Kinds
<1>. QED
  BY <1>3, <1>4, <1>6 DEF Kinds

\* A collection more, at the end
LEMMA KindsOpened ==
  ASSUME NEW q \in Seq(Item), NEW k \in Collection
  PROVE  Kinds(Append(q, [kind |-> k, items |-> 0])) = Append(Kinds(q), k)
<1>. DEFINE e == [kind |-> k, items |-> 0]
            o == Append(q, e)
            a == Append(Kinds(q), k)
            n == Len(q)
<1>1. e \in Item /\ n \in Nat
  BY LenProperties DEF Item
<1>2. /\ o \in Seq(Item) /\ Len(o) = n + 1 /\ o[n + 1] = e
      /\ \A i \in 1..n : o[i] = q[i]
  BY <1>1, AppendProperties
<1>3. /\ Kinds(q) \in Seq(Collection) /\ Len(Kinds(q)) = n
      /\ \A i \in 1..n : Kinds(q)[i] = q[i].kind
  BY KindsFacts
<1>. HIDE DEF n
<1>4. /\ a \in Seq(Collection) /\ Len(a) = n + 1 /\ a[n + 1] = k
      /\ \A i \in 1..n : a[i] = q[i].kind
  BY <1>3, AppendProperties
<1>. HIDE DEF o, a
<1>5. /\ Kinds(o) \in Seq(Collection) /\ Len(Kinds(o)) = n + 1
      /\ \A i \in 1..(n + 1) : Kinds(o)[i] = o[i].kind
  BY <1>2, KindsFacts
<1>6. \A i \in 1..(n + 1) : i \in 1..n \/ i = n + 1
  BY <1>1
<1>7. \A i \in 1..(n + 1) : Kinds(o)[i] = a[i]
  BY <1>2, <1>4, <1>5, <1>6
<1>8. Kinds(o) = a
  BY <1>4, <1>5, <1>7, SeqEqual
<1>. QED
  BY <1>8 DEF o, a

\* ... and one less
LEMMA KindsClosed ==
  ASSUME NEW q \in Seq(Item), q # <<>>
  PROVE  /\ Kinds(Counted(Closed(q))) = SubSeq(Kinds(q), 1, Len(Kinds(q)) - 1)
         /\ Kinds(q) # <<>> /\ Kinds(q)[Len(Kinds(q))] = q[Len(q)].kind
<1>. DEFINE n == Len(q)
            m == n - 1
            o == SubSeq(q, 1, m)
            a == SubSeq(Kinds(q), 1, m)
<1>1. n \in Nat /\ n \in 1..n /\ m \in 0..n /\ m \in Nat
  BY EmptySeq
<1>2. /\ Kinds(q) \in Seq(Collection) /\ Len(Kinds(q)) = n
      /\ \A i \in 1..n : Kinds(q)[i] = q[i].kind
  BY KindsFacts
<1>3. Kinds(q) # <<>> /\ Kinds(q)[Len(Kinds(q))] = q[Len(q)].kind
  <2>1. Len(Kinds(q)) # 0
    BY <1>1, <1>2
  <2>. QED
    BY <1>1, <1>2, <2>1, EmptySeq
<1>4. Closed(q) = o /\ SubSeq(Kinds(q), 1, Len(Kinds(q)) - 1) = a
  BY <1>2 DEF Closed
<1>5. /\ o \in Seq(Item) /\ Len(o) = m
      /\ \A i \in 1..m : o[i] = q[i]
  <2>. HIDE DEF m
  <2>. QED
    BY <1>1, PrefixOfStack
<1>6. /\ a \in Seq(Collection) /\ Len(a) = m
      /\ \A i \in 1..m : a[i] = Kinds(q)[i]
  <2>1. m \in 0..Len(Kinds(q))
    BY <1>1, <1>2
  <2>. HIDE DEF m, n
  <2>. QED
    BY <1>2, <2>1, PrefixOfStack
<1>7. \A i \in 1..m : i \in 1..n
  BY <1>1
<1>. HIDE DEF o, a, m, n
<1>8. /\ Kinds(o) \in Seq(Collection) /\ Len(Kinds(o)) = m
      /\ \A i \in 1..m : Kinds(o)[i] = o[i].kind
      /\ Kinds(Counted(o)) = Kinds(o)
  BY <1>5, KindsFacts
<1>9. \A i \in 1..m : Kinds(o)[i] = a[i]
  BY <1>2, <1>5, <1>6, <1>7, <1>8
<1>10. Kinds(o) = a
  BY <1>6, <1>8, <1>9, SeqEqual
<1>. QED
  BY <1>3, <1>4, <1>8, <1>10

\* What a step tells is a step of FlowNesting.
LEMMA TellsNests ==
  ASSUME open \in Seq(Item), Tells
  PROVE  [Nesting!Next]_(Nesting!vars)
<1>0. /\ Nesting!BeginOf = BeginOf /\ Nesting!EndOf = EndOf /\ Nesting!Collection = Collection
      /\ \A k \in Collection : /\ BeginOf[k] \in {"BeginArray", "BeginObject"}
                               /\ EndOf[k] \in {"EndArray", "EndObject"}
  BY DEF Nesting!BeginOf, Nesting!EndOf, Nesting!Collection, BeginOf, EndOf, Collection
<1>1. CASE UNCHANGED <<open, event>>
  BY <1>1 DEF Nesting!vars
<1>2. CASE event' \in {"Error", "Value", "More", "NoMore"} /\ open' \in {open, Counted(open)}
  <2>1. Kinds(open') = Kinds(open)
    BY <1>2, KindsFacts
  <2>2. \A k \in Collection : event' \notin {BeginOf[k], EndOf[k]}
    BY <1>0, <1>2
  <2>3. Nesting!Other
    BY <1>0, <2>1, <2>2 DEF Nesting!Other, Kinds
  <2>. QED
    BY <2>3 DEF Nesting!Next, Nesting!Scanning
<1>3. ASSUME NEW k \in Collection,
             event' = BeginOf[k], open' = Append(open, [kind |-> k, items |-> 0])
      PROVE  [Nesting!Next]_(Nesting!vars)
  <2>1. Kinds(open') = Append(Kinds(open), k)
    BY <1>3, KindsOpened
  <2>2. Nesting!Begin(k)
    BY <1>0, <1>3, <2>1 DEF Nesting!Begin, Kinds
  <2>. QED
    BY <1>0, <2>2 DEF Nesting!Next, Nesting!Scanning
<1>4. ASSUME NEW k \in Collection, event' = EndOf[k], open' = Counted(Closed(open)),
             open # <<>>, open[Len(open)].kind = k
      PROVE  [Nesting!Next]_(Nesting!vars)
  <2>1. /\ Kinds(open') = SubSeq(Kinds(open), 1, Len(Kinds(open)) - 1)
        /\ Kinds(open) # <<>> /\ Kinds(open)[Len(Kinds(open))] = k
    BY <1>4, KindsClosed
  <2>2. Nesting!End(k)
    BY <1>0, <1>4, <2>1 DEF Nesting!End, Kinds
  <2>. QED
    BY <1>0, <2>2 DEF Nesting!Next, Nesting!Scanning
<1>. QED
  BY <1>1, <1>2, <1>3, <1>4 DEF Tells

\* "Token guarantees that the delimiters [ ] { } it returns are properly nested and
\* matched": for any stream, any calls between them and any failures.
THEOREM TokenDelimitersNest == TokenSpec => DelimitersNest
<1>1. TokenInit => Nesting!Init
  <2>. SUFFICES ASSUME TokenInit PROVE Nesting!Init
    OBVIOUS
  <2>1. open = <<>> /\ event = "Continue" /\ Len(<<>>) = 0
    BY DEF TokenInit
  <2>2. Kinds(open) = <<>>
    <3>1. open \in Seq(Item)
      BY <2>1, EmptySeq
    <3>2. Kinds(open) \in Seq(Collection) /\ Len(Kinds(open)) = 0
      BY <2>1, <3>1, KindsFacts
    <3>. QED
      BY <3>2, EmptySeq
  <2>. QED
    BY <2>1, <2>2 DEF Nesting!Init, Kinds
<1>2. TokInv /\ [TokenNext]_allVars => [Nesting!Next]_(Nesting!vars)
  <2>. SUFFICES ASSUME TokInv, [TokenNext]_allVars PROVE [Nesting!Next]_(Nesting!vars)
    OBVIOUS
  <2>1. CASE TokenNext
    <3>1. Tells /\ open \in Seq(Item)
      BY <2>1, StepGood DEF Good, TokInv, Tokens
    <3>. QED
      BY <3>1, TellsNests
  <2>2. CASE UNCHANGED allVars
    BY <2>2 DEF allVars, tokenVars, Nesting!vars
  <2>. QED
    BY <2>1, <2>2
<1>. QED
  BY <1>1, <1>2, TokenInvariant, PTL DEF TokenSpec, DelimitersNest, Nesting!Spec

-----------------------------------------------------------------------------
(***************************************************************************)
(* InputOffset goes back only in CutDocument, behind a separator.          *)
(***************************************************************************)
\* A text with "---" in it, wherever it stands
Dashed(b) == \E i \in 1..(Len(b) - 2) : b[i] = "-" /\ b[i + 1] = "-" /\ b[i + 2] = "-"

\* A prefix that is found, byte by byte
LEMMA StartsWithFacts ==
  ASSUME NEW S, NEW b \in Seq(S), NEW p \in Seq(S), StartsWith(b, p)
  PROVE  Len(p) \in 0..Len(b) /\ \A i \in 1..Len(p) : b[i] = p[i]
<1>1. Len(p) \in 0..Len(b) /\ Keep(b, Len(p)) = p
  BY LenProperties DEF StartsWith
<1>2. \A i \in 1..Len(p) : Keep(b, Len(p))[i] = b[i]
  BY <1>1, KeepFacts
<1>. QED
  BY <1>1, <1>2

\* documentStartIndex finds nothing else than "---".
LEMMA StartIsDashed ==
  ASSUME NEW b \in Seq(Byte), documentStartIndex(b) > 0
  PROVE  Dashed(b)
<1>1. Dashes \in Seq(Byte) /\ Len(Dashes) = 3 /\ \A i \in 1..3 : Dashes[i] = "-"
  BY MarkFacts DEF Dashes
<1>2. CASE StartsWith(b, Dashes)
  <2>1. 3 \in 0..Len(b) /\ \A i \in 1..3 : b[i] = "-"
    BY <1>1, <1>2, StartsWithFacts
  <2>2. 1 \in 1..(Len(b) - 2) /\ b[1] = "-" /\ b[1 + 1] = "-" /\ b[1 + 2] = "-"
    BY <2>1, LenProperties
  <2>. QED
    BY <2>2 DEF Dashed
<1>3. CASE ~StartsWith(b, Dashes)
  <2>1. LineIndex(b, Dashes) > -1
    BY <1>3 DEF documentStartIndex
  <2>2. PICK c \in {"LF", "CR"} : LineIndex(b, Dashes) = IndexOf(b, <<c>> \o Dashes)
    BY DEF LineIndex
  <2>. DEFINE p == <<c>> \o Dashes
              k == IndexOf(b, p)
  <2>3. p \in Seq(Byte) /\ Len(p) = 4
    BY MarkFacts
  <2>4. \A i \in 1..3 : p[i + 1] = "-"
    <3>1. c \in Byte
      BY DEF Byte, White, LineBreak
    <3>2. <<c>> \in Seq(Byte) /\ Len(<<c>>) = 1
      BY <3>1
    <3>. DEFINE h == <<c>>
    <3>. HIDE DEF h
    <3>3. \A i \in 1..(Len(h) + Len(Dashes)) :
            (h \o Dashes)[i] = IF i <= Len(h) THEN h[i] ELSE Dashes[i - Len(h)]
      BY <1>1, <3>2, ConcatProperties DEF h
    <3>4. Len(h) = 1
      BY <3>2 DEF h
    <3>5. ASSUME NEW i \in 1..3 PROVE (h \o Dashes)[i + 1] = "-"
      <4>1. i + 1 \in 1..(Len(h) + Len(Dashes)) /\ ~(i + 1 <= Len(h)) /\ (i + 1) - Len(h) = i
        BY <1>1, <3>4
      <4>2. (h \o Dashes)[i + 1] = Dashes[i]
        BY <3>3, <4>1
      <4>. QED
        BY <1>1, <4>2
    <3>. QED
      BY <3>5 DEF h
  <2>. HIDE DEF p
  <2>5. k # -1
    BY <2>1, <2>2 DEF p
  <2>6. k \in 0..Len(b) /\ k + 4 <= Len(b) /\ StartsWith(Drop(b, k), p)
    BY <2>3, <2>5, IndexOfFacts
  <2>. HIDE DEF k
  <2>7. Drop(b, k) \in Seq(Byte) /\ \A i \in 1..(Len(b) - k) : Drop(b, k)[i] = b[k + i]
    BY <2>6, DropFacts
  <2>8. \A i \in 1..4 : Drop(b, k)[i] = p[i]
    BY <2>3, <2>6, <2>7, StartsWithFacts
  <2>9. Len(b) \in Nat /\ k \in Nat
    BY <2>6, LenProperties
  <2>10. \A i \in 1..3 : i + 1 \in 1..4 /\ i + 1 \in 1..(Len(b) - k)
    BY <2>6, <2>9
  <2>11. \A i \in 1..3 : b[k + (i + 1)] = "-"
    BY <2>4, <2>7, <2>8, <2>10
  <2>12. /\ k + 2 \in 1..(Len(b) - 2)
         /\ k + (1 + 1) = k + 2 /\ k + (2 + 1) = k + 2 + 1 /\ k + (3 + 1) = k + 2 + 2
    BY <2>6, <2>9
  <2>13. b[k + 2] = "-" /\ b[k + 2 + 1] = "-" /\ b[k + 2 + 2] = "-"
    <3>1. 1 \in 1..3 /\ 2 \in 1..3 /\ 3 \in 1..3
      OBVIOUS
    <3>2. b[k + (1 + 1)] = "-" /\ b[k + (2 + 1)] = "-" /\ b[k + (3 + 1)] = "-"
      BY <2>11, <3>1
    <3>. QED
      BY <2>12, <3>2
  <2>. QED
    BY <2>12, <2>13 DEF Dashed
<1>. QED
  BY <1>2, <1>3

\* The bytes of a value are bytes of the stream.
LEMMA ValueInStream ==
  ASSUME DecInv, pc = "cut", Dashed(SubSeq(buf, scanp + 1, pos))
  PROVE  Dashed(stream.bytes)
<1>. DEFINE v == SubSeq(buf, scanp + 1, pos)
            b == stream.bytes
<1>1. /\ buf \in Seq(Byte) /\ unread \in Seq(Byte) /\ b \in Seq(Byte)
      /\ scanp \in Nat /\ pos \in Nat /\ scanned \in Nat
      /\ Len(buf) \in Nat /\ Len(unread) \in Nat /\ Len(b) \in Nat
      /\ scanp <= pos /\ pos <= Len(buf)
  BY Lengths DEF DecInv, TypeOK, Placed
<1>2. scanned <= Len(b) /\ buf \o unread = Drop(b, scanned)
  BY DEF DecInv, BufferIsWindow
<1>3. /\ Len(v) = pos - scanp
      /\ \A i \in 1..(pos - scanp) : v[i] = buf[scanp + i]
  <2>1. scanp + 1 \in Nat /\ scanp + 1 >= 1
    BY <1>1
  <2>2. /\ Len(v) = IF scanp + 1 <= pos THEN pos - (scanp + 1) + 1 ELSE 0
        /\ \A i \in 1..(pos - (scanp + 1) + 1) : v[i] = buf[scanp + 1 + i - 1]
    BY <1>1, <2>1, Part
  <2>3. /\ pos - (scanp + 1) + 1 = pos - scanp
        /\ \A i \in 1..(pos - scanp) : scanp + 1 + i - 1 = scanp + i
    BY <1>1
  <2>. QED
    BY <1>1, <2>2, <2>3
<1>4. \A i \in 1..Len(buf) : (buf \o unread)[i] = buf[i]
  BY <1>1, ConcatProperties
<1>5. \A i \in 1..(Len(b) - scanned) : Drop(b, scanned)[i] = b[scanned + i]
  <2>1. scanned \in 0..Len(b)
    BY <1>1, <1>2
  <2>. QED
    BY <1>1, <2>1, DropFacts
<1>6. Len(buf) <= Len(b) - scanned
  <2>1. Len(buf \o unread) = Len(buf) + Len(unread)
    BY <1>1, ConcatProperties
  <2>2. scanned \in 0..Len(b)
    BY <1>1, <1>2
  <2>3. Len(Drop(b, scanned)) = Len(b) - scanned
    BY <1>1, <2>2, DropFacts
  <2>. QED
    BY <1>1, <1>2, <2>1, <2>3
<1>. HIDE DEF v, b
<1>7. \A i \in 1..(pos - scanp) : v[i] = b[scanned + scanp + i]
  <2>. SUFFICES ASSUME NEW i \in 1..(pos - scanp) PROVE v[i] = b[scanned + scanp + i]
    OBVIOUS
  <2>1. /\ scanp + i \in 1..Len(buf) /\ scanp + i \in 1..(Len(b) - scanned)
        /\ scanned + (scanp + i) = scanned + scanp + i
    BY <1>1, <1>6
  <2>. QED
    BY <1>2, <1>3, <1>4, <1>5, <2>1
<1>8. PICK i \in 1..(Len(v) - 2) : v[i] = "-" /\ v[i + 1] = "-" /\ v[i + 2] = "-"
  BY DEF Dashed, v
<1>. DEFINE k == scanned + scanp + i
<1>9. /\ k \in 1..(Len(b) - 2)
      /\ i \in 1..(pos - scanp) /\ i + 1 \in 1..(pos - scanp) /\ i + 2 \in 1..(pos - scanp)
      /\ scanned + scanp + (i + 1) = k + 1 /\ scanned + scanp + (i + 2) = k + 2
  BY <1>1, <1>3, <1>6, <1>8
<1>10. v[i] = b[k] /\ v[i + 1] = b[k + 1] /\ v[i + 2] = b[k + 2]
  BY <1>7, <1>9
<1>. HIDE DEF k
<1>. QED
  BY <1>8, <1>9, <1>10 DEF Dashed, b

\* InputOffset never goes back in streams without "---", the streams that the token API
\* is for; with one, "dec.scanp = start" can set it back.
THEOREM TokenOffsetAdvances ==
  (\A s \in Streams : ~Dashed(s.bytes)) => (TokenSpec => OffsetAdvances)
<1>. SUFFICES ASSUME \A s \in Streams : ~Dashed(s.bytes) PROVE TokenSpec => OffsetAdvances
  OBVIOUS
<1>1. TokInv => ~Rewinds
  <2>. SUFFICES ASSUME TokInv, Rewinds PROVE FALSE
    OBVIOUS
  <2>1. DecInv /\ pc = "cut" /\ stream \in Streams
    BY DEF TokInv, DecInv, TypeOK, Rewinds
  <2>2. SubSeq(buf, scanp + 1, pos) \in Seq(Byte)
    <3>1. buf \in Seq(Byte) /\ scanp + 1 \in Nat /\ pos \in Nat /\ scanp + 1 >= 1 /\ pos <= Len(buf)
      <4>1. buf \in Seq(Byte) /\ scanp \in Nat /\ pos \in Nat
        BY <2>1 DEF DecInv, TypeOK
      <4>2. pos <= Len(buf)
        BY <2>1 DEF DecInv, Placed
      <4>. QED
        BY <4>1, <4>2
    <3>. QED
      BY <3>1, Part
  <2>3. Dashed(SubSeq(buf, scanp + 1, pos))
    BY <2>2, StartIsDashed DEF Rewinds
  <2>4. Dashed(stream.bytes)
    BY <2>1, <2>3, ValueInStream
  <2>. QED
    BY <2>1, <2>4
<1>2. TokInv /\ [TokenNext]_allVars => [scanned' + scanp' >= scanned + scanp]_vars
  <2>. SUFFICES ASSUME TokInv, [TokenNext]_allVars
                PROVE  [scanned' + scanp' >= scanned + scanp]_vars
    OBVIOUS
  <2>1. CASE TokenNext
    BY <1>1, <2>1, StepGood DEF Good
  <2>2. CASE UNCHANGED allVars
    BY <2>2 DEF allVars
  <2>. QED
    BY <2>1, <2>2
<1>. QED
  BY <1>2, TokenInvariant, PTL DEF TokenSpec, OffsetAdvances

-----------------------------------------------------------------------------
(***************************************************************************)
(* What More has said.  After TRUE the next byte is the one it has seen,   *)
(* or a separator has been skipped since, behind which nothing closes;     *)
(* after FALSE the next byte is the bracket it has seen, or nothing but    *)
(* spaces is left and nothing more will be read.                           *)
(***************************************************************************)
Closer == {"]", "}"}

AtItem   == scanp < Len(buf) /\ buf[scanp + 1] \notin Space \cup Closer
AtCloser == scanp < Len(buf) /\ buf[scanp + 1] \in Closer

AllRead  == unread = <<>> \/ failed
SpaceUpTo(n) == \A i \in 1..Len(buf) : scanp < i /\ i <= n => buf[i] \in Space
Dry      == AllRead /\ SpaceUpTo(Len(buf))

Skipped  == pc = "peek" => SpaceUpTo(pos)
Drained  == (rerr = "EOF" => unread = <<>>) /\ (rerr = "failed" => failed)

MoreHolds ==
  event = "More" =>
    /\ pc = "idle" => AtItem
    /\ pc = "peek" => \/ pos = scanp /\ AtItem
                      \/ tokenState \in {"ArrayValue", "ObjectValue", "ObjectKey"}

NoMoreHolds ==
  event = "NoMore" =>
    \/ Dry
    \/ /\ AtCloser /\ pc # "cut"
       /\ pc \in {"peek", "scan"} => pos = scanp
       /\ pc = "scan" => scan = Reset

Fore == Skipped /\ Drained /\ MoreHolds /\ NoMoreHolds

\* What MoreForetells says of a step
Foretold ==
  /\ event = "More" => event' \notin {"EndArray", "EndObject"}
  /\ event = "NoMore" => event' \notin {"BeginArray", "BeginObject"}
  /\ event = "NoMore" /\ event' = "Value" => ~NonSpace(delivered'[Len(delivered')])

Told == Fore' /\ Foretold

\* What the tables of delimiters and separators say of brackets that close
LEMMA Tables ==
  /\ \A k \in Collection :
       /\ Opening[k] \notin Closer /\ BeginOf[k] \in {"BeginArray", "BeginObject"}
       /\ Closing[k] \in Closer /\ EndOf[k] \in {"EndArray", "EndObject"}
       /\ {Start[k], Comma[k]} \cap {"ArrayValue", "ObjectValue", "ObjectKey"} = {}
  /\ \A state \in DOMAIN Separates :
       /\ Separates[state] \notin Closer
       /\ After[state] \in {"ArrayValue", "ObjectValue", "ObjectKey"}
  /\ DOMAIN Separates = {"ArrayComma", "ObjectColon", "ObjectComma"}
<1>1. /\ Opening["array"] = "[" /\ Opening["object"] = "{"
      /\ Closing["array"] = "]" /\ Closing["object"] = "}"
      /\ BeginOf["array"] = "BeginArray" /\ BeginOf["object"] = "BeginObject"
      /\ EndOf["array"] = "EndArray" /\ EndOf["object"] = "EndObject"
  BY DEF Opening, Closing, BeginOf, EndOf
<1>2. /\ Start["array"] = "ArrayStart" /\ Start["object"] = "ObjectStart"
      /\ Comma["array"] = "ArrayComma" /\ Comma["object"] = "ObjectComma"
  BY DEF Start, Comma
<1>3. /\ DOMAIN Separates = {"ArrayComma", "ObjectColon", "ObjectComma"}
      /\ Separates["ArrayComma"] = "," /\ Separates["ObjectColon"] = ":"
      /\ Separates["ObjectComma"] = ","
  BY DEF Separates
<1>4. /\ After["ArrayComma"] = "ArrayValue" /\ After["ObjectColon"] = "ObjectValue"
      /\ After["ObjectComma"] = "ObjectKey"
  BY DEF After
<1>5. ASSUME NEW k \in Collection
      PROVE  /\ Opening[k] \notin Closer /\ BeginOf[k] \in {"BeginArray", "BeginObject"}
             /\ Closing[k] \in Closer /\ EndOf[k] \in {"EndArray", "EndObject"}
             /\ {Start[k], Comma[k]} \cap {"ArrayValue", "ObjectValue", "ObjectKey"} = {}
  <2>1. CASE k = "array"
    BY <1>1, <1>2, <2>1 DEF Closer
  <2>2. CASE k = "object"
    BY <1>1, <1>2, <2>2 DEF Closer
  <2>. QED
    BY <2>1, <2>2 DEF Collection
<1>. QED
  BY <1>3, <1>4, <1>5 DEF Closer

\* The next byte that Token, More or Decode looks at, after an answer of More
LEMMA PeekedByte ==
  ASSUME TokInv, Fore, NEW by, NEW c, Peeked(by, c)
  PROVE  /\ event = "NoMore" => c \in Closer
         /\ event = "More" => \/ c \notin Closer
                              \/ tokenState \in {"ArrayValue", "ObjectValue", "ObjectKey"}
<1>1. /\ pc = "peek" /\ pos < Len(buf) /\ c = buf[pos + 1] /\ c \notin Space
  BY DEF Peeked
<1>2. pos \in Nat /\ scanp \in Nat /\ Len(buf) \in Nat /\ scanp <= pos
  BY <1>1, Indices
<1>3. ~Dry
  <2>1. pos + 1 \in 1..Len(buf) /\ scanp < pos + 1 /\ pos + 1 <= Len(buf)
    BY <1>1, <1>2
  <2>. QED
    BY <1>1, <2>1 DEF Dry, SpaceUpTo
<1>4. event = "NoMore" => pos = scanp /\ AtCloser
  BY <1>1, <1>3 DEF Fore, NoMoreHolds
<1>5. event = "More" => \/ pos = scanp /\ AtItem
                        \/ tokenState \in {"ArrayValue", "ObjectValue", "ObjectKey"}
  BY <1>1 DEF Fore, MoreHolds
<1>. QED
  BY <1>1, <1>4, <1>5 DEF AtCloser, AtItem

\* After a call has returned something else than More, nothing is foretold.
LEMMA ReturnTold ==
  ASSUME Fore, pc' = "idle", UNCHANGED <<reader, rerr>>,
         event' \notin {"More", "NoMore"}, Foretold
  PROVE  Told
BY DEF Told, Fore, Skipped, Drained, MoreHolds, NoMoreHolds, reader

\* A call that fails foretells nothing.
LEMMA ErrorTold ==
  ASSUME Fore, pc' = "idle", UNCHANGED <<reader, rerr>>, event' = "Error"
  PROVE  Told
BY ReturnTold DEF Foretold

\* A call, or Token, begins to look or to decode where it is.
LEMMA BeginTold ==
  ASSUME TokInv, Fore, pc = "idle" \/ (pc = "peek" /\ event # "NoMore" /\ pc' = "scan"),
         UNCHANGED <<reader, buf, event>>, rerr' = "nil", pos' = scanp',
         pc = "idle" => scanp' = scanp,
         \/ pc' = "peek" /\ pc = "idle"
         \/ pc' = "scan" /\ scan' = Reset
  PROVE  Told
<1>1. UNCHANGED <<unread, failed>>
  BY DEF reader
<1>2. Skipped'
  <2>2. pc' = "peek" => \A i \in 1..Len(buf) : ~(scanp' < i /\ i <= pos')
    BY Indices
  <2>. QED
    BY <2>2 DEF Skipped, SpaceUpTo
<1>3. Drained'
  BY DEF Drained
<1>4. MoreHolds'
  BY DEF Fore, MoreHolds, AtItem
<1>5. NoMoreHolds'
  <2>. SUFFICES ASSUME event = "NoMore" PROVE NoMoreHolds'
    BY DEF NoMoreHolds
  <2>1. pc = "idle" /\ scanp' = scanp /\ (Dry \/ AtCloser)
    BY DEF Fore, NoMoreHolds
  <2>2. Dry => Dry'
    BY <1>1, <2>1 DEF Dry, AllRead, SpaceUpTo
  <2>3. AtCloser => AtCloser'
    BY <2>1 DEF AtCloser
  <2>. QED
    BY <2>1, <2>2, <2>3 DEF NoMoreHolds
<1>6. Foretold
  <2>1. event' = event
    OBVIOUS
  <2>. QED
    BY <2>1 DEF Foretold
<1>. QED
  BY <1>2, <1>3, <1>4, <1>5, <1>6 DEF Told, Fore

\* The calls of the caller
LEMMA CallTold ==
  ASSUME TokInv, Fore, CallToken \/ CallMore \/ CallDecode
  PROVE  Told
<1>1. pc = "idle"
  BY DEF CallToken, CallMore, CallDecode, MayCall
<1>2. ASSUME NEW by, BeginPeek(by) PROVE Told
  BY <1>1, <1>2, BeginTold DEF BeginPeek
<1>3. ASSUME NEW e, Refuse(e, scanp) PROVE Told
  BY <1>3, ErrorTold DEF Refuse, Return
<1>4. ASSUME NEW state, BeginDecode("value", scanp, state) PROVE Told
  BY <1>1, <1>4, BeginTold DEF BeginDecode
<1>. QED
  BY <1>2, <1>3, <1>4 DEF CallToken, CallMore, CallDecode

\* Token or Decode begins to decode at the byte that was found.
LEMMA PeekedDecodes ==
  ASSUME TokInv, Fore, NEW by, NEW c, Peeked(by, c), c \notin Closer,
         NEW for, NEW at, NEW state, BeginDecode(for, at, state)
  PROVE  Told
<1>1. pc = "peek" /\ event # "NoMore"
  BY PeekedByte DEF Peeked
<1>. QED
  BY <1>1, BeginTold DEF BeginDecode

\* A peek that goes on or fails
LEMMA PeekTold ==
  ASSUME TokInv, Fore, PeekSpace \/ PeekFailed
  PROVE  Told
<1>1. /\ pc = "peek" /\ pos \in Nat /\ scanp \in Nat /\ Len(buf) \in Nat
      /\ scanp <= pos /\ pos <= Len(buf)
  BY Indices DEF PeekSpace, PeekFailed
<1>2. CASE PeekSpace
  <2>1. /\ pos < Len(buf) /\ buf[pos + 1] \in Space /\ pos' = pos + 1
        /\ UNCHANGED <<unread, failed, buf, scanp, scan, pc, rerr, tokenState, event>>
    BY <1>2 DEF PeekSpace, reader, tokenVars
  <2>2. Skipped'
    <3>1. SpaceUpTo(pos)
      BY <1>1 DEF Fore, Skipped
    <3>2. \A i \in 1..Len(buf) : i <= pos + 1 => i <= pos \/ i = pos + 1
      BY <1>1
    <3>. QED
      BY <2>1, <3>1, <3>2 DEF Skipped, SpaceUpTo
  <2>3. Drained'
    BY <2>1 DEF Fore, Drained
  <2>4. MoreHolds'
    BY <1>1, <2>1 DEF Fore, MoreHolds, AtItem
  <2>5. NoMoreHolds'
    <3>. SUFFICES ASSUME event = "NoMore" PROVE Dry'
      BY <2>1 DEF NoMoreHolds
    <3>1. Dry \/ (AtCloser /\ pos = scanp)
      BY <1>1 DEF Fore, NoMoreHolds
    <3>2. "]" \notin Space /\ "}" \notin Space
      BY DEF Space
    <3>3. Dry
      BY <2>1, <3>1, <3>2 DEF AtCloser, Closer
    <3>. QED
      BY <2>1, <3>3 DEF Dry, AllRead, SpaceUpTo
  <2>6. Foretold
    BY <2>1 DEF Foretold
  <2>. QED
    BY <2>2, <2>3, <2>4, <2>5, <2>6 DEF Told, Fore
<1>3. CASE PeekFailed
  <2>1. CASE call # "more"
    BY <1>3, <2>1, ErrorTold DEF PeekFailed, Refuse, Return
  <2>2. CASE call = "more"
    <3>1. /\ Len(buf) <= pos /\ rerr # "nil" /\ pc' = "idle" /\ event' = "NoMore"
          /\ UNCHANGED <<unread, failed, buf, scanp, rerr>>
      BY <1>3, <2>2 DEF PeekFailed, reader
    <3>2. rerr \in {"nil", "EOF", "failed"}
      BY DEF TokInv, DecInv, TypeOK
    <3>3. AllRead
      BY <3>1, <3>2 DEF Fore, Drained, AllRead
    <3>4. pos = Len(buf)
      BY <1>1, <3>1
    <3>5. SpaceUpTo(Len(buf))
      BY <1>1, <3>4 DEF Fore, Skipped
    <3>6. Dry'
      BY <3>1, <3>3, <3>5 DEF Dry, AllRead, SpaceUpTo
    <3>. QED
      BY <3>1, <3>6 DEF Told, Fore, Foretold, Skipped, Drained, MoreHolds, NoMoreHolds
  <2>. QED
    BY <2>1, <2>2
<1>. QED
  BY <1>2, <1>3

\* What More answers is so.
LEMMA MoreTold ==
  ASSUME TokInv, Fore, MoreAnswers
  PROVE  Told
<1>1. PICK c \in Byte : /\ pos < Len(buf) /\ c = buf[pos + 1] /\ c \notin Space
                        /\ pc' = "idle" /\ scanp' = pos
                        /\ event' = IF c \in Closer THEN "NoMore" ELSE "More"
                        /\ UNCHANGED <<unread, failed, buf, rerr>>
  BY DEF MoreAnswers, Peeked, Closer, reader
<1>2. IF c \in Closer THEN AtCloser' ELSE AtItem'
  BY <1>1 DEF AtCloser, AtItem
<1>3. Skipped' /\ Drained' /\ MoreHolds' /\ NoMoreHolds'
  BY <1>1, <1>2 DEF Fore, Skipped, Drained, MoreHolds, NoMoreHolds
<1>4. Foretold
  BY <1>1 DEF Foretold
<1>. QED
  BY <1>3, <1>4 DEF Told, Fore

\* Delimiters, separators and what Decode is called for
LEMMA TokenTold ==
  ASSUME TokInv, Fore,
         \/ \E k \in Collection : TokenOpens(k) \/ TokenCloses(k)
         \/ TokenSkips \/ TokenDecodesKey \/ TokenDecodesValue \/ TokenRefuses \/ Prepare
  PROVE  Told
<1>1. ASSUME NEW k \in Collection, TokenOpens(k) PROVE Told
  <2>1. /\ Peeked("token", Opening[k]) /\ pc' = "idle" /\ event' = BeginOf[k]
        /\ UNCHANGED <<reader, rerr>>
    BY <1>1 DEF TokenOpens
  <2>2. Opening[k] \notin Closer /\ BeginOf[k] \in {"BeginArray", "BeginObject"}
    BY Tables
  <2>3. event # "NoMore"
    BY <2>1, <2>2, PeekedByte
  <2>4. Foretold
    BY <2>1, <2>2, <2>3 DEF Foretold
  <2>. QED
    BY <2>1, <2>2, <2>4, ReturnTold
<1>2. ASSUME NEW k \in Collection, TokenCloses(k) PROVE Told
  <2>1. /\ Peeked("token", Closing[k]) /\ pc' = "idle" /\ event' = EndOf[k]
        /\ tokenState \in {Start[k], Comma[k]} /\ UNCHANGED <<reader, rerr>>
    BY <1>2 DEF TokenCloses
  <2>2. /\ Closing[k] \in Closer /\ EndOf[k] \in {"EndArray", "EndObject"}
        /\ {Start[k], Comma[k]} \cap {"ArrayValue", "ObjectValue", "ObjectKey"} = {}
    BY Tables
  <2>3. event # "More"
    BY <2>1, <2>2, PeekedByte
  <2>4. Foretold
    BY <2>1, <2>2, <2>3 DEF Foretold
  <2>. QED
    BY <2>1, <2>2, <2>4, ReturnTold
<1>3. CASE TokenSkips
  <2>1. /\ tokenState \in DOMAIN Separates /\ Peeked("token", Separates[tokenState])
        /\ scanp' = pos + 1 /\ pos' = pos + 1 /\ rerr' = "nil" /\ tokenState' = After[tokenState]
        /\ UNCHANGED <<buf, pc, event>>
    BY <1>3 DEF TokenSkips
  <2>2. /\ Separates[tokenState] \notin Closer
        /\ After[tokenState] \in {"ArrayValue", "ObjectValue", "ObjectKey"}
    BY <2>1, Tables
  <2>3. event # "NoMore" /\ pc = "peek" /\ pos \in Nat
    BY <2>1, <2>2, PeekedByte, Indices DEF Peeked
  <2>4. Skipped'
    <3>1. \A i \in 1..Len(buf) : ~(pos + 1 < i /\ i <= pos + 1)
      BY <2>3
    <3>. QED
      BY <2>1, <3>1 DEF Skipped, SpaceUpTo
  <2>5. Drained' /\ MoreHolds' /\ NoMoreHolds' /\ Foretold
    BY <2>1, <2>2, <2>3 DEF Drained, MoreHolds, NoMoreHolds, Foretold
  <2>. QED
    BY <2>4, <2>5 DEF Told, Fore
<1>4. ASSUME NEW e, NEW at, Refuse(e, at) PROVE Told
  BY <1>4, ErrorTold DEF Refuse, Return
<1>5. CASE TokenDecodesKey
  <2>1. Peeked("token", "dq") /\ "dq" \notin Closer
    BY <1>5 DEF TokenDecodesKey, Closer
  <2>2. Refuse(err, pos) \/ BeginDecode("key", pos, "TopValue")
    BY <1>5 DEF TokenDecodesKey, DecodeOr
  <2>3. CASE BeginDecode("key", pos, "TopValue")
    BY <2>1, <2>3, PeekedDecodes
  <2>. QED
    BY <1>4, <2>2, <2>3
<1>6. CASE TokenDecodesValue
  <2>1. PICK c \in Byte : Peeked("token", c) /\ c \notin Closer
    BY <1>6 DEF TokenDecodesValue, Closer
  <2>2. Refuse(err, pos) \/ BeginDecode("value", pos, tokenState)
    BY <1>6 DEF TokenDecodesValue, DecodeOr
  <2>3. CASE BeginDecode("value", pos, tokenState)
    BY <2>1, <2>3, PeekedDecodes
  <2>. QED
    BY <1>4, <2>2, <2>3
<1>7. CASE TokenRefuses
  BY <1>4, <1>7 DEF TokenRefuses
<1>8. CASE Prepare
  <2>1. PICK c \in Byte :
          /\ Peeked("prepare", c)
          /\ \/ c = Separates[tokenState] /\ BeginDecode("value", pos + 1, After[tokenState])
             \/ Refuse("syntax", pos)
    BY <1>8 DEF Prepare
  <2>2. Separates[tokenState] \notin Closer
    <3>1. tokenState \in {"ArrayComma", "ObjectColon"}
      BY <2>1 DEF TokInv, Waiting, Peeked
    <3>. QED
      BY <3>1, Tables
  <2>3. CASE c = Separates[tokenState] /\ BeginDecode("value", pos + 1, After[tokenState])
    BY <2>1, <2>2, <2>3, PeekedDecodes
  <2>. QED
    BY <1>4, <2>1, <2>3
<1>. QED
  BY <1>1, <1>2, <1>3, <1>5, <1>6, <1>7, <1>8

\* A document that is cut out of spaces has nothing else in it.
LEMMA DocumentOfSpaces ==
  ASSUME NEW value \in Seq(Space)
  PROVE  LET start == documentStartIndex(value)
             rest  == Drop(value, start)
             body  == IF start > 0 THEN UpToNext(rest, documentStartIndex(rest)) ELSE rest
             end   == documentEndIndex(body)
             doc   == IF end > -1 THEN Keep(body, end) ELSE body
         IN  Content(doc) \in Seq(Space) /\ ~NonSpace(Content(doc))
<1>. DEFINE start == documentStartIndex(value)
            rest  == Drop(value, start)
            body  == IF start > 0 THEN UpToNext(rest, documentStartIndex(rest)) ELSE rest
            end   == documentEndIndex(body)
            doc   == IF end > -1 THEN Keep(body, end) ELSE body
<1>0. Space \subseteq Byte
  BY DEF Byte, White
<1>1. start \in 0..Len(value)
  <2>1. value \in Seq(Byte)
    BY <1>0, SeqMonotonic
  <2>. QED
    BY <2>1, StartFacts
<1>. HIDE DEF start
<1>2. rest \in Seq(Space)
  BY <1>1, DropFacts
<1>. HIDE DEF rest
<1>3. body \in Seq(Space)
  <2>. DEFINE next == documentStartIndex(rest)
              n == IF next > 4 THEN next - 4 ELSE 0
  <2>1. rest \in Seq(Byte)
    BY <1>0, <1>2, SeqMonotonic
  <2>2. next \in 0..Len(rest) /\ Len(rest) \in Nat
    BY <2>1, StartFacts, LenProperties
  <2>3. body \in {rest, Keep(rest, n)}
    BY DEF UpToNext
  <2>. HIDE DEF next
  <2>4. n \in 0..Len(rest)
    BY <2>2
  <2>. HIDE DEF n, body
  <2>5. Keep(rest, n) \in Seq(Space)
    BY <1>2, <2>4, KeepFacts
  <2>. QED
    BY <1>2, <2>3, <2>5
<1>. HIDE DEF body
<1>4. doc \in Seq(Space)
  <2>1. body \in Seq(Byte)
    BY <1>0, <1>3, SeqMonotonic
  <2>2. end = -1 \/ end \in 0..Len(body)
    BY <2>1, EndFacts
  <2>. HIDE DEF end
  <2>3. CASE end = -1
    BY <1>3, <2>3
  <2>4. CASE end \in 0..Len(body)
    <3>1. Keep(body, end) \in Seq(Space)
      BY <1>3, <2>4, KeepFacts
    <3>. QED
      BY <1>3, <3>1
  <2>. QED
    BY <2>2, <2>3, <2>4
<1>. HIDE DEF doc
<1>5. Content(doc) \in Seq(Space)
  BY <1>4, ContentType
<1>6. \A i \in 1..Len(Content(doc)) : Content(doc)[i] \in Space
  BY <1>5, ElementOfSeq
<1>7. ~NonSpace(Content(doc))
  BY <1>6 DEF NonSpace
<1>. QED
  BY <1>5, <1>7 DEF doc, end, body, rest, start

\* A scanner that begins with a closing bracket answers with an error.
LEMMA CloserFails ==
  ASSUME NEW c \in Closer
  PROVE  Step(Reset, c).op = "Error"
<1>1. Stacks(Reset) /\ Reset.states = <<>> /\ Reset.step = "BeginLine" /\ ~Reset.endTop
  BY ResetSound DEF Sound, Frames, Reset
<1>2. FramesKept(Reset, c) = Len(Reset.states)
  <2>1. FramesKept(Reset, c) \in 0..Len(Reset.states) /\ Len(Reset.states) = 0
    BY <1>1, FramesKeptExists, EmptySeq
  <2>. QED
    BY <2>1
<1>3. Unwind(Reset, c) = Reset /\ ~EndsTopArray(Reset, c)
  BY <1>1, <1>2 DEF Unwind, EndsTopArray
<1>4. c \notin LineBreak /\ c \notin Space /\ c # "#"
  BY DEF Closer, LineBreak, Space
<1>5. Step(Reset, c) = BeginLineIn(Reset, c)
  BY <1>1, <1>3, <1>4 DEF Step, BeginLine
<1>6. LastState(Reset) = "none"
  BY <1>1 DEF LastState
<1>7. BeginLineIn(Reset, c) = BeginValue(Reset, c)
  BY <1>6 DEF BeginLineIn
<1>8. /\ c \notin {"{", "[", "%", "|", ">", "#"}
      /\ c \notin PlainHead \cup {"dq", "sq", "-", "&", "*", "!", ".", "<"}
  BY DEF Closer, PlainHead, Lower, Upper, Digit
<1>9. BeginValue(Reset, c) = Fail(Reset)
  BY <1>1, <1>4, <1>8 DEF BeginValue
<1>10. Fail(Reset).op = "Error"
  BY DEF Fail, Reset
<1>. QED
  BY <1>5, <1>7, <1>9, <1>10

\* Decode goes on: with nothing but spaces left, or with an error at the bracket, after
\* an answer FALSE.
LEMMA DecodeTold ==
  ASSUME TokInv, Fore, DecodeStep
  PROVE  Told
<1>1. /\ pc \in {"scan", "cut"} /\ pc' \in {"scan", "cut", "idle"}
      /\ UNCHANGED <<unread, failed, buf, rerr>>
  BY DEF DecodeStep, ScanByte, InputEnded, CutDocument, Return, reader
<1>2. CASE pc' # "idle"
  <2>1. UNCHANGED <<event, scanp>> /\ (ScanByte \/ InputEnded)
    BY <1>2 DEF DecodeStep, ScanByte, InputEnded, CutDocument, Return
  <2>2. Skipped' /\ Drained' /\ MoreHolds' /\ Foretold
    BY <1>1, <1>2, <2>1 DEF Fore, Skipped, Drained, MoreHolds, Foretold
  <2>3. NoMoreHolds'
    <3>. SUFFICES ASSUME event = "NoMore" PROVE Dry'
      BY <2>1 DEF NoMoreHolds
    <3>1. ~(AtCloser /\ pc = "scan" /\ pos = scanp /\ scan = Reset)
      <4>. SUFFICES ASSUME AtCloser, pc = "scan", pos = scanp, scan = Reset PROVE FALSE
        OBVIOUS
      <4>1. pos < Len(buf) /\ Step(scan, buf[pos + 1]).op = "Error"
        BY CloserFails DEF AtCloser
      <4>2. pos \in Nat /\ Len(buf) \in Nat
        BY Indices
      <4>a. ~InputEnded
        <5>1. InputEnded => pos >= Len(buf)
          BY DEF InputEnded
        <5>. QED
          BY <4>1, <4>2, <5>1
      <4>3. ScanByte
        BY <2>1, <4>a
      <4>4. pc' = "idle"
        BY <4>1, <4>3 DEF ScanByte, Return
      <4>. QED
        BY <1>2, <4>4
    <3>2. Dry
      BY <1>1, <3>1 DEF Fore, NoMoreHolds
    <3>. QED
      BY <1>1, <2>1, <3>2 DEF Dry, AllRead, SpaceUpTo
  <2>. QED
    BY <2>2, <2>3 DEF Told, Fore
<1>3. CASE pc' = "idle"
  <2>1. event' \in {"Value", "Error"}
    BY <1>3 DEF DecodeStep, Decoded, NotDecoded
  <2>2. Skipped' /\ Drained' /\ MoreHolds' /\ NoMoreHolds'
    BY <1>1, <1>3, <2>1 DEF Fore, Skipped, Drained, MoreHolds, NoMoreHolds
  <2>3. ASSUME event = "NoMore", event' = "Value"
        PROVE  ~NonSpace(delivered'[Len(delivered')])
    <3>1. delivered' # delivered
      BY <1>3, <2>3 DEF DecodeStep, NotDecoded
    <3>2. CutDocument
      BY <3>1 DEF DecodeStep, ScanByte, InputEnded
    <3>3. pc = "cut" /\ Dry
      BY <2>3, <3>2 DEF CutDocument, Fore, NoMoreHolds
    <3>. DEFINE value == SubSeq(buf, scanp + 1, pos)
    <3>4. value \in Seq(Space)
      <4>1. /\ scanp \in Nat /\ pos \in Nat /\ Len(buf) \in Nat /\ pos <= Len(buf)
        BY <3>3, Lengths DEF TokInv, DecInv, TypeOK, Placed
      <4>2. \A i \in (scanp + 1)..pos : i \in 1..Len(buf) /\ scanp < i /\ i <= Len(buf)
        BY <4>1
      <4>3. \A i \in (scanp + 1)..pos : buf[i] \in Space
        BY <3>3, <4>2 DEF Dry, SpaceUpTo
      <4>4. scanp + 1 \in Int /\ pos \in Int
        BY <4>1
      <4>. QED
        BY <4>3, <4>4, SubSeqProperties
    <3>. DEFINE start == documentStartIndex(value)
                rest  == Drop(value, start)
                body  == IF start > 0 THEN UpToNext(rest, documentStartIndex(rest)) ELSE rest
                end   == documentEndIndex(body)
                doc   == IF end > -1 THEN Keep(body, end) ELSE body
    <3>5. Content(doc) \in Seq(Space) /\ ~NonSpace(Content(doc))
      <4>. HIDE DEF value
      <4>. QED
        BY <3>4, DocumentOfSpaces
    <3>6. Cut(start, body, end, doc)
      <4>1. \E v \in {SubSeq(buf, scanp + 1, pos)} : \E s \in {documentStartIndex(v)} :
            \E r \in {Drop(v, s)} :
            \E b \in {IF s > 0 THEN UpToNext(r, documentStartIndex(r)) ELSE r} :
            \E e \in {documentEndIndex(b)} : \E d \in {IF e > -1 THEN Keep(b, e) ELSE b} :
              Cut(s, b, e, d)
        BY <3>2, Zenon DEF CutDocument, Cut
      <4>. QED
        BY <4>1, Zenon
    <3>. HIDE DEF start, rest, body, end, doc
    <3>7. delivered' = Append(delivered, Content(doc))
      BY <3>1, <3>6 DEF Cut
    <3>8. delivered \in Seq(Seq(Byte)) /\ Content(doc) \in Seq(Byte)
      <4>1. delivered \in Seq(Seq(Byte))
        BY DEF TokInv, DecInv, TypeOK
      <4>2. Space \subseteq Byte
        BY DEF Byte, White
      <4>3. Content(doc) \in Seq(Byte)
        BY <3>5, <4>2, SeqMonotonic
      <4>. QED
        BY <4>1, <4>3
    <3>. QED
      BY <3>5, <3>7, <3>8, AppendProperties
  <2>. QED
    BY <2>1, <2>2, <2>3 DEF Told, Fore, Foretold
<1>. QED
  BY <1>2, <1>3

\* More is read: nothing, if nothing is left.
LEMMA ReadTold ==
  ASSUME TokInv, Fore, ReadStep
  PROVE  Told
<1>1. PICK n \in 0..MaxChunk :
        /\ n <= Len(unread)
        /\ \/ ~failed /\ n > 0 /\ Refill(n, "nil")
           \/ ~failed /\ n = Len(unread) /\ Refill(n, "EOF")
           \/ ReaderFails /\ (failed => n = 0) /\ Refill(n, "failed")
  BY DEF ReadStep, Read
<1>2. /\ pc \in {"scan", "peek"} /\ Len(buf) <= pos
      /\ buf' = Drop(buf, scanp) \o Keep(unread, n) /\ unread' = Drop(unread, n)
      /\ scanp' = 0 /\ pos' = pos - scanp /\ rerr' \in {"nil", "EOF", "failed"}
      /\ rerr' = "failed" => failed'
      /\ failed => failed'
      /\ rerr' = "EOF" => n = Len(unread)
      /\ UNCHANGED <<pc, event, tokenState>>
  BY <1>1 DEF Refill, ReadStep, tokenVars
<1>3. /\ buf \in Seq(Byte) /\ unread \in Seq(Byte) /\ Len(buf) \in Nat /\ Len(unread) \in Nat
      /\ scanp \in Nat /\ pos \in Nat /\ scanp <= pos /\ pos <= Len(buf)
  BY <1>2, Lengths DEF TokInv, DecInv, TypeOK, Placed
<1>4. n \in 0..Len(unread) /\ scanp \in 0..Len(buf) /\ pos = Len(buf)
  BY <1>1, <1>2, <1>3
<1>. DEFINE d == Drop(buf, scanp)
            k == Keep(unread, n)
<1>5. /\ d \in Seq(Byte) /\ Len(d) = Len(buf) - scanp
      /\ \A i \in 1..(Len(buf) - scanp) : d[i] = buf[scanp + i]
  BY <1>3, <1>4, DropFacts
<1>6. k \in Seq(Byte) /\ Len(k) = n
  BY <1>3, <1>4, KeepFacts
<1>7. Drop(unread, n) \in Seq(Byte) /\ Len(Drop(unread, n)) = Len(unread) - n
  BY <1>3, <1>4, DropFacts
<1>. HIDE DEF d, k
<1>8. /\ Len(d \o k) = Len(d) + Len(k)
      /\ \A i \in 1..(Len(d) + Len(k)) : (d \o k)[i] = IF i <= Len(d) THEN d[i] ELSE k[i - Len(d)]
  BY <1>5, <1>6, ConcatProperties
<1>9. /\ Len(buf') = Len(buf) - scanp + n
      /\ \A i \in 1..(Len(buf) - scanp) : buf'[i] = buf[scanp + i]
  <2>1. buf' = d \o k
    BY <1>2 DEF d, k
  <2>2. \A i \in 1..(Len(buf) - scanp) : i \in 1..(Len(d) + Len(k)) /\ i <= Len(d)
    BY <1>3, <1>4, <1>5, <1>6
  <2>. QED
    BY <1>5, <1>6, <1>8, <2>1, <2>2
<1>10. ASSUME SpaceUpTo(Len(buf))
       PROVE  \A i \in 1..Len(buf') : i <= Len(buf) - scanp => buf'[i] \in Space
  <2>. SUFFICES ASSUME NEW i \in 1..Len(buf'), i <= Len(buf) - scanp PROVE buf'[i] \in Space
    OBVIOUS
  <2>1. i \in 1..(Len(buf) - scanp) /\ scanp + i \in 1..Len(buf) /\ scanp < scanp + i
        /\ scanp + i <= Len(buf)
    BY <1>3
  <2>. QED
    BY <1>9, <1>10, <2>1 DEF SpaceUpTo
<1>11. Skipped'
  <2>. SUFFICES ASSUME pc = "peek" PROVE SpaceUpTo(pos)'
    BY <1>2 DEF Skipped
  <2>1. SpaceUpTo(Len(buf))
    BY <1>4 DEF Fore, Skipped
  <2>2. pos' = Len(buf) - scanp
    BY <1>2, <1>4
  <2>. QED
    BY <1>10, <2>1, <2>2 DEF SpaceUpTo
<1>12. Drained'
  <2>1. n = Len(unread) => unread' = <<>>
    BY <1>2, <1>3, <1>7, EmptySeq
  <2>. QED
    BY <1>2, <2>1 DEF Drained
<1>13. ~(scanp < Len(buf) /\ pos = scanp)
  BY <1>3, <1>4
<1>14. MoreHolds'
  BY <1>2, <1>13 DEF Fore, MoreHolds, AtItem
<1>15. NoMoreHolds'
  <2>. SUFFICES ASSUME event = "NoMore" PROVE Dry'
    BY <1>2 DEF NoMoreHolds
  <2>1. Dry
    BY <1>2, <1>13 DEF Fore, NoMoreHolds, AtCloser
  <2>2. n = 0 /\ AllRead'
    <3>1. CASE unread = <<>>
      <4>1. n = 0
        BY <1>4, <3>1, EmptySeq
      <4>2. unread' = <<>>
        BY <1>2, <1>3, <1>7, <3>1, <4>1, EmptySeq
      <4>. QED
        BY <4>1, <4>2 DEF AllRead
    <3>2. CASE failed
      BY <1>1, <1>2, <3>2 DEF AllRead
    <3>. QED
      BY <2>1, <3>1, <3>2 DEF Dry, AllRead
  <2>3. \A i \in 1..Len(buf') : i <= Len(buf) - scanp
    BY <1>3, <1>9, <2>2
  <2>4. SpaceUpTo(Len(buf))
    BY <2>1 DEF Dry
  <2>5. \A i \in 1..Len(buf') : buf'[i] \in Space
    BY <1>10, <2>3, <2>4
  <2>. QED
    BY <2>2, <2>5 DEF Dry, SpaceUpTo
<1>16. Foretold
  BY <1>2 DEF Foretold
<1>. QED
  BY <1>11, <1>12, <1>14, <1>15, <1>16 DEF Told, Fore

\* What More says of the next element holds when it is asked for, whatever is called and
\* read in between: a collection does not end after TRUE, and after FALSE nothing is found
\* in it but spaces.
THEOREM TokenMoreForetells == TokenSpec => MoreForetells
<1>1. TokenInit => Fore
  BY EmptySeq DEF TokenInit, Init, Fore, Skipped, Drained, MoreHolds, NoMoreHolds
<1>2. TokInv /\ Fore /\ [TokenNext]_allVars => Fore' /\ [Foretold]_allVars
  <2>. SUFFICES ASSUME TokInv, Fore, [TokenNext]_allVars PROVE Fore' /\ [Foretold]_allVars
    OBVIOUS
  <2>1. CASE TokenNext
    <3>1. Told
      BY <2>1, CallTold, PeekTold, MoreTold, TokenTold, DecodeTold, ReadTold DEF TokenNext
    <3>. QED
      BY <3>1 DEF Told
  <2>2. CASE UNCHANGED allVars
    BY <2>2 DEF allVars, vars, tokenVars, Fore, Skipped, Drained, MoreHolds, NoMoreHolds,
                AtItem, AtCloser, Dry, AllRead, SpaceUpTo
  <2>. QED
    BY <2>1, <2>2
<1>3. [Foretold]_allVars =>
        [/\ event = "More" => event' \notin {"EndArray", "EndObject"}
         /\ event = "NoMore" => event' \notin {"BeginArray", "BeginObject"}
         /\ event = "NoMore" /\ event' = "Value" => ~NonSpace(delivered'[Len(delivered')])]_allVars
  BY DEF Foretold
<1>. QED
  BY <1>1, <1>2, <1>3, TokenInvariant, PTL DEF TokenSpec, MoreForetells
===============================================================================
