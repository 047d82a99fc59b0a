----------------------------- MODULE TokenDecoder -----------------------------
(***************************************************************************)
(* The token API of stream.go: a caller that mixes Token, More and Decode  *)
(* on one Decoder.  Token and More look for the next byte that is no space *)
(* (peek); Token answers delimiters itself, keeps where it is between them *)
(* in tokenState and tokenStack, and calls Decode for keys and values.     *)
(* The steps of Decode are those of Decoder, with the fixups of tokenState *)
(* at its beginning and its end.                                           *)
(***************************************************************************)
EXTENDS Decoder

CONSTANT Calls   \* the methods the caller calls

ASSUME CallsAssumption == Calls \subseteq {"Token", "More", "Decode"}

VARIABLES
  tokenState, tokenStack,   \* fields of Decoder
  call,    \* who peeks or decodes: "token", "more", "prepare", "value", "key"
  old,     \* local old of Token
  open,    \* history: the collections open, with the items returned of each
  event    \* history: what the last call has returned

tokenVars == <<tokenState, tokenStack, call, old, open, event>>
allVars   == <<vars, tokenVars>>

TokenInit ==
  /\ Init
  /\ tokenState = "TopValue" /\ tokenStack = <<>> /\ call = "token" /\ old = "TopValue"
  /\ open = <<>> /\ event = "Continue"

-----------------------------------------------------------------------------
(***************************************************************************)
(* tokenState                                                              *)
(***************************************************************************)
Collection == {"array", "object"}
Opening == [array |-> "[", object |-> "{"]
Closing == [array |-> "]", object |-> "}"]
Start   == [array |-> "ArrayStart", object |-> "ObjectStart"]
Comma   == [array |-> "ArrayComma", object |-> "ObjectComma"]
BeginOf == [array |-> "BeginArray", object |-> "BeginObject"]
EndOf   == [array |-> "EndArray", object |-> "EndObject"]

tokenValueAllowed(state) == state \in {"TopValue", "ArrayStart", "ArrayValue", "ObjectValue"}

tokenValueEnd(state) ==
  CASE state \in {"ArrayStart", "ArrayValue"} -> "ArrayComma"
    [] state = "ObjectValue" -> "ObjectComma"
    [] OTHER -> state

\* The separator that comes before the next value, and the state after it
Separates == [ArrayComma |-> ",", ObjectColon |-> ":", ObjectComma |-> ","]
After     == [ArrayComma |-> "ArrayValue", ObjectColon |-> "ObjectValue", ObjectComma |-> "ObjectKey"]

\* One item more in the innermost open collection
Counted(q) == IF q = <<>> THEN q ELSE [q EXCEPT ![Len(q)].items = @ + 1]
Closed(q)  == SubSeq(q, 1, Len(q) - 1)

-----------------------------------------------------------------------------
(***************************************************************************)
(* The calls.                                                              *)
(***************************************************************************)
MayCall(m) == m \in Calls /\ pc = "idle" /\ result # "EOF"

\* peek begins at scanp.
BeginPeek(by) ==
  /\ pc' = "peek" /\ pos' = scanp /\ rerr' = "nil" /\ call' = by
  /\ UNCHANGED <<reader, buf, scanp, scanned, scan, err, outcome, tokenState, tokenStack, old, open, event>>

CallToken == MayCall("Token") /\ BeginPeek("token")
CallMore  == MayCall("More") /\ BeginPeek("more")

\* A call returns the error e; what is read stays read.
Refuse(e, at) ==
  /\ Return(e) /\ event' = "Error" /\ scanp' = at
  /\ UNCHANGED <<reader, buf, scanned, scan, err, pos, rerr, delivered, open>>

\* Decode is past its checks: readValue begins at byte at.
BeginDecode(by, at, state) ==
  /\ call' = by /\ tokenState' = state /\ scanp' = at
  /\ pc' = "scan" /\ scan' = Reset /\ pos' = at /\ rerr' = "nil"
  /\ UNCHANGED <<reader, buf, scanned, err, outcome, tokenStack, open, event>>

\* Decode, called by the caller or by Token: dec.err answers for ever.
DecodeOr(by, at, state) ==
  IF err # "nil" THEN Refuse(err, at) /\ UNCHANGED <<tokenState, tokenStack, call>>
  ELSE BeginDecode(by, at, state)

\* tokenPrepareForDecode reads the separator first.
CallDecode ==
  /\ MayCall("Decode")
  /\ CASE err # "nil" -> Refuse(err, scanp) /\ UNCHANGED <<tokenState, tokenStack, call, old>>
       [] err = "nil" /\ tokenState \in {"ArrayComma", "ObjectColon"} -> BeginPeek("prepare")
       [] err = "nil" /\ tokenValueAllowed(tokenState) ->
            BeginDecode("value", scanp, tokenState) /\ UNCHANGED old
       [] OTHER -> Refuse("syntax", scanp) /\ UNCHANGED <<tokenState, tokenStack, call, old>>

-----------------------------------------------------------------------------
(***************************************************************************)
(* peek                                                                    *)
(***************************************************************************)
PeekSpace ==
  /\ pc = "peek" /\ pos < Len(buf) /\ buf[pos + 1] \in Space
  /\ pos' = pos + 1
  /\ UNCHANGED <<reader, buf, scanp, scanned, scan, err, pc, rerr, outcome, tokenVars>>

\* Nothing is left to read.  More turns the error into FALSE.
PeekFailed ==
  /\ pc = "peek" /\ pos >= Len(buf) /\ rerr # "nil"
  /\ IF call = "more"
     THEN /\ pc' = "idle" /\ event' = "NoMore"
          /\ UNCHANGED <<reader, buf, scanp, scanned, scan, err, pos, rerr, outcome, open>>
     ELSE Refuse(rerr, scanp)
  /\ UNCHANGED <<tokenState, tokenStack, call, old>>

\* peek of the call by returns c.
Peeked(by, c) == pc = "peek" /\ call = by /\ pos < Len(buf) /\ c = buf[pos + 1] /\ c \notin Space

\* Mutant of MoreAnswers: the end of an object is not seen.
MoreAnswersArrays ==
  \E c \in Byte :
    /\ Peeked("more", c)
    /\ pc' = "idle" /\ scanp' = pos
    /\ event' = IF c = "]" THEN "NoMore" ELSE "More"
    /\ UNCHANGED <<reader, buf, scanned, scan, err, pos, rerr, outcome, tokenState, tokenStack, call, old, open>>

MoreAnswers ==
  \E c \in Byte :
    /\ Peeked("more", c)
    /\ pc' = "idle" /\ scanp' = pos
    /\ event' = IF c \in {"]", "}"} THEN "NoMore" ELSE "More"
    /\ UNCHANGED <<reader, buf, scanned, scan, err, pos, rerr, outcome, tokenState, tokenStack, call, old, open>>

\* tokenPrepareForDecode
Prepare ==
  \E c \in Byte :
    /\ Peeked("prepare", c)
    /\ IF c = Separates[tokenState]
       THEN BeginDecode("value", pos + 1, After[tokenState])
       ELSE Refuse("syntax", pos) /\ UNCHANGED <<tokenState, tokenStack, call>>
    /\ UNCHANGED old

-----------------------------------------------------------------------------
(***************************************************************************)
(* Token, when peek has returned.                                          *)
(***************************************************************************)
TokenOpens(k) ==
  /\ Peeked("token", Opening[k]) /\ tokenValueAllowed(tokenState)
  /\ pc' = "idle" /\ scanp' = pos + 1
  /\ tokenStack' = Append(tokenStack, tokenState) /\ tokenState' = Start[k]
  /\ event' = BeginOf[k] /\ open' = Append(open, [kind |-> k, items |-> 0])
  /\ UNCHANGED <<reader, buf, scanned, scan, err, pos, rerr, outcome, call, old>>

\* Mutant of TokenCloses: any bracket closes.
TokenClosesAny(k) ==
  /\ Peeked("token", Closing[k]) /\ tokenState \in UNION {{Start[l], Comma[l]} : l \in Collection}
  /\ pc' = "idle" /\ scanp' = pos + 1
  /\ tokenState' = tokenValueEnd(tokenStack[Len(tokenStack)])
  /\ tokenStack' = SubSeq(tokenStack, 1, Len(tokenStack) - 1)
  /\ event' = EndOf[k] /\ open' = Counted(Closed(open))
  /\ UNCHANGED <<reader, buf, scanned, scan, err, pos, rerr, outcome, call, old>>

TokenCloses(k) ==
  /\ Peeked("token", Closing[k]) /\ tokenState \in {Start[k], Comma[k]}
  /\ pc' = "idle" /\ scanp' = pos + 1
  /\ tokenState' = tokenValueEnd(tokenStack[Len(tokenStack)])
  /\ tokenStack' = SubSeq(tokenStack, 1, Len(tokenStack) - 1)
  /\ event' = EndOf[k] /\ open' = Counted(Closed(open))
  /\ UNCHANGED <<reader, buf, scanned, scan, err, pos, rerr, outcome, call, old>>

\* Mutant of TokenSkips: the next peek begins at the separator.
TokenSkipsUnread ==
  /\ tokenState \in DOMAIN Separates /\ Peeked("token", Separates[tokenState])
  /\ scanp' = pos + 1 /\ rerr' = "nil" /\ tokenState' = After[tokenState]
  /\ UNCHANGED <<reader, buf, scanned, scan, err, pos, pc, outcome, tokenStack, call, old, open, event>>

\* Commas and colons are elided: the loop of Token peeks again.
TokenSkips ==
  /\ tokenState \in DOMAIN Separates /\ Peeked("token", Separates[tokenState])
  /\ scanp' = pos + 1 /\ pos' = pos + 1 /\ rerr' = "nil" /\ tokenState' = After[tokenState]
  /\ UNCHANGED <<reader, buf, scanned, scan, err, pc, outcome, tokenStack, call, old, open, event>>

\* A quoted key is decoded as if it stood at the top.
TokenDecodesKey ==
  /\ Peeked("token", "dq") /\ tokenState \in {"ObjectStart", "ObjectKey"}
  /\ old' = tokenState
  /\ DecodeOr("key", pos, "TopValue")

TokenDecodesValue ==
  \E c \in Byte \ {"[", "]", "{", "}", ":", ","} :
    /\ Peeked("token", c) /\ tokenValueAllowed(tokenState)
    /\ DecodeOr("value", pos, tokenState) /\ UNCHANGED old

\* tokenError
Expected(c) ==
  CASE c \in {"[", "{"} -> tokenValueAllowed(tokenState)
    [] c = "]" -> tokenState \in {"ArrayStart", "ArrayComma"}
    [] c = "}" -> tokenState \in {"ObjectStart", "ObjectComma"}
    [] c \in {":", ","} -> tokenState \in DOMAIN Separates /\ c = Separates[tokenState]
    [] OTHER -> tokenValueAllowed(tokenState) \/ (c = "dq" /\ tokenState \in {"ObjectStart", "ObjectKey"})

TokenRefuses ==
  \E c \in Byte :
    /\ Peeked("token", c) /\ ~Expected(c)
    /\ Refuse("syntax", pos) /\ UNCHANGED <<tokenState, tokenStack, call, old>>

-----------------------------------------------------------------------------
(***************************************************************************)
(* Decode goes on.                                                         *)
(***************************************************************************)
\* Mutant of Decoded: the key that was not decoded is not taken back.
DecodedAtTop ==
  \E ok \in BOOLEAN :
    /\ event' = IF ok THEN "Value" ELSE "Error"
    /\ IF call = "key" THEN tokenState' = IF ok THEN "ObjectColon" ELSE tokenState
       ELSE tokenState' = tokenValueEnd(tokenState)
    /\ open' = IF call = "key" /\ ~ok THEN open ELSE Counted(open)

\* unmarshal may fail with what was read: tokenValueEnd has run all the same, but a
\* key is taken back.
Decoded ==
  \E ok \in BOOLEAN :
    /\ event' = IF ok THEN "Value" ELSE "Error"
    /\ IF call = "key" THEN tokenState' = IF ok THEN "ObjectColon" ELSE old
       ELSE tokenState' = tokenValueEnd(tokenState)
    /\ open' = IF call = "key" /\ ~ok THEN open ELSE Counted(open)

NotDecoded ==
  /\ event' = "Error" /\ UNCHANGED open
  /\ tokenState' = IF call = "key" THEN old ELSE tokenState

DecodeStep ==
  /\ ScanByte \/ InputEnded \/ CutDocument
  /\ CASE pc' # "idle" -> UNCHANGED <<tokenState, open, event>>
       [] pc' = "idle" /\ delivered' # delivered -> Decoded
       [] pc' = "idle" /\ delivered' = delivered -> NotDecoded
  /\ UNCHANGED <<tokenStack, call, old>>

ReadStep == Read /\ UNCHANGED tokenVars

TokenNext ==
  \/ CallToken \/ CallMore \/ CallDecode
  \/ PeekSpace \/ PeekFailed \/ MoreAnswers \/ Prepare
  \/ (\E k \in Collection : TokenOpens(k) \/ TokenCloses(k))
  \/ TokenSkips \/ TokenDecodesKey \/ TokenDecodesValue \/ TokenRefuses
  \/ DecodeStep \/ ReadStep

TokenSpec == TokenInit /\ [][TokenNext]_allVars
-----------------------------------------------------------------------------
(***************************************************************************)
(* Properties                                                              *)
(***************************************************************************)
States == {"TopValue", "ArrayStart", "ArrayValue", "ArrayComma",
           "ObjectStart", "ObjectKey", "ObjectColon", "ObjectValue", "ObjectComma"}

\* The types, and the read index of peek, which stands at or behind scanp.
TokenTypeOK ==
  /\ TypeOK
  /\ tokenState \in States /\ tokenStack \in Seq(States) /\ old \in States
  /\ call \in {"token", "more", "prepare", "value", "key"}
  /\ open \in Seq([kind : Collection, items : Nat])
  /\ pc = "peek" => scanp <= pos /\ pos <= Len(buf)

\* The states in which a collection has n items
StatesOf(kind, n) ==
  CASE n = 0 -> {Start[kind]}
    [] n > 0 /\ kind = "array" -> {"ArrayComma", "ArrayValue"}
    [] n > 0 /\ kind = "object" /\ n % 2 = 1 -> {"ObjectColon", "ObjectValue"}
    [] OTHER -> {"ObjectComma", "ObjectKey"}

StateFits(state, i) ==
  state \in IF i = 0 THEN {"TopValue"} ELSE StatesOf(open[i].kind, open[i].items)

DecodingKey == pc \in {"scan", "cut"} /\ call = "key"

\* tokenState and tokenStack say what has been returned: for every open collection
\* its kind, whether it has items, and in an object whether a key or a value is next.
\* A call of Decode, by the caller or by Token, that fails half way leaves them so.
StateFollowsTokens ==
  /\ Len(tokenStack) = Len(open)
  /\ StateFits(IF DecodingKey THEN old ELSE tokenState, Len(open))
  /\ \A i \in 1..Len(open) : StateFits(tokenStack[i], i - 1) /\ tokenValueAllowed(tokenStack[i])

\* "Token guarantees that the delimiters [ ] { } it returns are properly nested and
\* matched": as the events of the scanner do, for any stream and any calls between.
Nesting == INSTANCE FlowNesting
             WITH open <- [i \in 1..Len(open) |-> open[i].kind], verdict <- "scanning"

DelimitersNest == Nesting!Spec

\* What More says of the next element holds when it is asked for, though more input
\* may be read in between: a collection does not end after TRUE, and after FALSE
\* nothing is found in it but spaces.
MoreForetells ==
  [][/\ event = "More" => event' \notin {"EndArray", "EndObject"}
     /\ event = "NoMore" => event' \notin {"BeginArray", "BeginObject"}
     /\ event = "NoMore" /\ event' = "Value" => ~NonSpace(delivered'[Len(delivered')])]_allVars

\* When the stream has ended every delimiter that was returned has its match.
MatchedAtEnd == result = "EOF" => open = <<>>
===============================================================================
