# A TLA+ model of gyaml

`gyaml` is a YAML package for Go in the shape of `encoding/json`: a byte-driven
scanner, a decoder that runs it over a stream and builds a value from what it has
scanned, an encoder that walks Go values by reflection. This directory models its control (what changes which state, in which
order, under which guard) in TLA+, checks it with TLC on small instances and proves
with TLAPS what matters most about six of its parts, for every instance: the scanner,
the decoder with its token API, the recursion of the parser, the encoder, the walk over a
value and the cache of type encoders.

- `PROJECT.json` lists the components, the runs, the source lines every definition
  stands for, the hazards and the theorems.
- To run a check: `tlc -config MCScanner.cfg Scanner`. To check a proof:
  `tlapm ValueEncoderProofs.tla`.

## The system

| Component | Source | State | Operations |
|---|---|---|---|
| Scanner | `scanner.go` | `step`, `states`, `indents`, `idn`, `sameLine`, `lastc`, `endTop`, `err` | one call of `s.step(s, c)` per byte, `lastInput`, `eof`, `reset` |
| Decoder stream | `stream.go` 14-238 | `buf`, `scanp`, `scanned`, `scan`, `err` | `Decode`, `readValue`, `refill`, `Buffered`, `InputOffset` |
| Token API | `stream.go` 400-620 | `tokenState`, `tokenStack`, and the Decoder's | `Token`, `More`, `Decode` inside a collection |
| decodeState | `decode.go` | `data`, `off`, `opcode`, `scan`, `savedError`, `errorContext`, `anchors` | `value`, `array`, `object`, their twins for empty interfaces, `quickScan`, `rescanLiteral`, `skip`, literals, aliases |
| Encoder stream | `stream.go` 241-369 | `err`, `options`, `documentWritten`, the writer | `Encode`, `With...` options |
| encodeState | `encode.go` | `ptrLevel`, `ptrSeen`, `anchors`, `anchorNames`, `level`, `opts` | the encoder functions, recursive over the value |
| Type encoder cache | `encode.go` 321-406 | `encoderCache` (`sync.Map`), one `sync.OnceValue` per miss | `typeEncoder`, by any goroutine |
| Struct fields | `encode.go` 1209-1473 | `fieldCache` | `typeFields`, `dominantField` |
| Pools | `scannerPool`, `encodeStatePool` | states to reuse | `newScanner`, `freeScanner`, `newEncodeState`, `Put` |
| Text | `strings.go`, `quote.go`, `number.go`, `time.go`, `tags.go`, `fold.go` | none | pure functions |

They interact by calls. `Unmarshal` runs `checkValid`, a scanner over the whole
input, and then a `decodeState`, which runs a scanner of its own over the same bytes
a second time. `Decode` runs the scanner to find the end of a value in the stream,
cuts a document out of the buffer by looking for separators in the text, and hands it
to a `decodeState`. `Encode` takes an `encodeState` from a pool, has the value
written to it, and copies the result to the writer; the encoder functions come from a
cache that all goroutines share.

### What is hard in it

- The scanner answers one byte at a time and keeps everything in a record that some
  forty state functions read and write. Errors are both returned and kept, and a few
  callers drop what is returned.
- Block collections end by indent, flow collections by brackets, and both are on the
  same stack.
- The stream comes in pieces that end anywhere. The position, the buffer and the
  scanner must agree after every refill, and two mechanisms, the scanner and a search
  for `---` and `...` in the text, both decide where a document ends.
- The scanner does not tell a key from a literal; the parser looks ahead in the text
  with rules of its own (`quickScan`), and knows from the depth of the scanner's stack
  where a block collection ends. There are two copies of its loops, for targets
  of a type and for empty interfaces, which differ in detail.
- The text the encoder writes without quotes has to be the text the scanner and the
  parser take for a scalar.
- `Token` answers brackets itself and calls `Decode`, with a fresh scanner, between
  them.
- The writer may fail between the separator and the document.
- The walk over a value is recursive over a graph that may have cycles; errors are
  panics that leave it in the middle, and its state is used again.
- The cache is filled by goroutines at the same time, with types that need
  themselves.

### What makes each part correct

- Scanner: whatever the input, the stack stays consistent with what is open, an error
  is never lost, what is accepted has nothing open and no error.
- Decoder stream: the documents of the stream are delivered once and in order,
  however the bytes arrive, then `io.EOF`.
- Encoder stream: documents are separated; an error is final.
- encodeState: aliases stand for the value that carries the anchor; the recursion
  ends; the state is clean when it is used again.
- Cache: one encoder per type, the right one, and nobody waits for ever.
- decodeState: what `Marshal` writes is read back; the parser stays in step with the
  scanner and consumes what the scanner accepted; aliases get the value of their
  anchor.
- Token API: delimiters nest, `tokenState` says what has been returned, whatever
  failed, and `More` foretells what the next call finds.

## The modules

| Module | What it models |
|---|---|
| `ScannerOps` | The state functions of `scanner.go` as operators on a scanner record. No variables. |
| `Scanner` | `checkValid`, driven by every byte: one scanner, every input. |
| `FlowNesting` | Abstract: flow collections open and close properly nested, and nothing is accepted while one is open. |
| `Separators` | The search for `---` and `...` in a text, as `Decode` and `Unmarshal` do it. |
| `Decoder` | `Decode`, `readValue`, `refill` over a reader; it steps the scanner of `ScannerOps`. |
| `DocumentStream` | Abstract: the documents one by one and in order, then `io.EOF`; only a failing reader is an error. |
| `MCDecoder` | The streams the runs of `Decoder` use. |
| `TokenDecoder` | `Token`, `More`, `peek` and `Decode` in between: the actions of `Decoder` with the token state around them. |
| `MCTokenDecoder` | The streams of its runs. |
| `ParserOps` | The moves of `decodeState` over its data: `scanWhile`, `skip`, `quickScan`, `rescanLiteral`. No variables. |
| `Values` | The values the decoder builds and the types of its targets. No variables. |
| `Parser` | `Unmarshal`: the recursion of `value`, `array`, `object` and their twins for empty interfaces. What becomes of a literal is a parameter (`StoreLiteral`, `LiteralInterface`, `Unquote`, `ZeroOf`). |
| `Literals` | The values of these parameters, from the text of a scalar to a value: `storeLiteral`, `literalInterface`, quotes, block literals, anchors. No variables. |
| `ValueText` | The text the encoder functions write for a value, as a function of it. |
| `MCParser` | The inputs of the runs of `Parser`: texts of `ValueText` with the value they stand for, and all short texts. |
| `ParserClaims` | What comments say of decoding that the code does not do. |
| `Encoder` | `Encode` and the options over a writer that may fail. |
| `ValueEncoder` | The recursion of the encoder functions over a graph of values. |
| `MCValueEncoder` | The graphs of its runs. |
| `TypeCache` | `typeEncoder` and the calls of encoders by goroutines. |
| `MCTypeCache` | Types that need each other, or themselves, and an interface. |
| `ScannerFacts` | What every call of a state function preserves, one lemma per state function. No variables. |
| `ScannerProofs`, `DecoderProofs`, `ParserProofs`, `EncoderProofs`, `ValueEncoderProofs`, `TypeCacheProofs` | The theorems; `DecoderProofs` is about `Decoder` and `TokenDecoder`. |
| `SequenceFacts` | Lemmas they use: the least and the greatest element of a set of numbers; replacing the top of a stack. |

Each operator of `ScannerOps` is one state function and has its name without `state`.
It takes the scanner and the byte and returns the scanner after the call, with what
the call returned in the field `op`. A tail call (`return stateInStringUnq(s, c)`) is
an application of the operator. `Step` is the call through `s.step`. The loop
in `stateBeginLine`, which pops a frame and calls itself, is `FramesKept`: the number
of frames that are left when it stops. Bytes are classes: two bytes are in the same
class when no state function tells them apart.

In `Decoder`, one action is one turn of the loop of `readValue` (`ScanByte`), one
`refill` (`Read`), the end of the input (`InputEnded`), and what `Decode` does before
and after (`DecodeCall`, `CutDocument`). `delivered` records what is handed to
`unmarshal`, without line breaks around it. In `Encoder` the steps of one `Encode`
are actions of their own, because the writer may fail at any and recover.

`TokenDecoder` extends `Decoder`: a call that ends in `Decode` goes on with the actions
`ScanByte`, `InputEnded`, `Read` and `CutDocument` of that module, and `DecodeStep`
adds what `tokenValueEnd` and `Token` do when it returns. `peek` is `PeekSpace`,
`Read` and `PeekFailed`; what its caller does with the byte is an action for each case
of the switch in `Token`. `open` and `event` record what the caller has been given.

In `Parser` the stack of Go calls is `calls`. Every frame is a call of `value` or of a
loop (`array`, `object`); `iface` marks the twin for empty interfaces
(`valueInterface`, `arrayInterface`, `objectInterface`), so that each difference
between the twins stands in one place. One action is the code between two calls:
`ValueBegin` and `ValueEnd` around the call of a loop, `ArrayNext` and `ObjectNext`
before an element, `ArrayStored` and `ObjectStored` after it. A method that only moves
`d` is an operator of `ParserOps` on the record `d`, and steps the scanner of
`ScannerOps`. Its loops end within the text, so they are recursive functions of the number of
turns, of which the first that meets the condition of the loop is taken. `Unmarshal` runs `checkValid` first, as the code does. A panic, which
`unmarshal` recovers, is the outcome `panic`.

In `ValueEncoder` the stack of Go calls is `stack`; an encoder function is an action
that enters a value, one that goes on to its next element and one that leaves it;
`Panic` unwinds the stack with its deferred deletes; `Marshal` takes the state from
the pool and resets what `newEncodeState` resets. In `TypeCache` the operations of
`sync.Map` and `sync.OnceValue` are atomic, and everything between two of them may be
interleaved. A lookup begins with a value (`Begin`) or, in the middle of one, with what an interface
holds (`EncodeInterface`).

## The runs

Runs that pass:

| Run | Module, configuration | Shows |
|---|---|---|
| `scanner` | `Scanner`, `MCScanner.cfg` | Over every input within the bounds: the frames of flow collections are never covered by block frames (`FlowStaysOnTop`); a block literal is never interrupted (`LiteralKeepsControl`); a complete value has nothing open (`EndTopMeansEmpty`); the depth limit is reported although two callers ignore it (`DepthReported`); block collections nest by indent (`IndentsNest`); `sameLine` is reset on every path (`SameLineHasKey`); errors are kept and what is accepted has none (`ErrorIsKept`, `AcceptedIsClean`); the scanner implements `FlowNesting`. |
| `decoder_blocks` | `MCDecoder`, `MCDecoderBlocks.cfg` | The buffer is a window of the stream and what is unread follows it (`BufferIsWindow`), and the decoder implements `DocumentStream`, its liveness included. |
| `token` | `MCTokenDecoder`, `MCTokenDecoder.cfg` | However `Token`, `More` and `Decode` are mixed and whatever fails: `tokenState` and `tokenStack` fit the tokens returned (`StateFollowsTokens`), the delimiters returned implement `FlowNesting` (`DelimitersNest`), the next call finds what `More` has said (`MoreForetells`), `InputOffset` never goes back (`OffsetAdvances`), `peek` never reads behind `scanp` (`TokenTypeOK`). |
| `parser` | `MCParser`, `MCParser.cfg` | What `Marshal` writes `Unmarshal` reads back (`RoundTrip`), to an empty interface, to the type a program would declare, and, of a type that holds less, what it holds; aliases give the value of the anchor. For those texts and all short ones: no more collections are being read than bytes have been (`RecursionFollowsText`), every element of a sequence has taken a byte (`ElementsWereRead`), success means that the document was read to its end (`NothingUnread`). |
| `encoder` | `Encoder`, `MCEncoder.cfg` | Separators and documents alternate up to the first error kept (`SeparatedUntilError`), `nil` means written (`OkMeansWritten`), and no call gets past an error that is kept (`ErrorIsFinal`). |
| `value_encoder` | `MCValueEncoder`, `MCValueEncoder.cfg` | Every alias written follows the one anchor of its name, on the same value; the two anchor maps are inverse, `ptrSeen` is what is on the path and empty in the pool, `ptrLevel` covers the path, brackets match, and the recursion ends when the cycles go through pointers and maps. |
| `type_cache` | `MCTypeCache`, `MCTypeCache.cfg` | Each encoder is built once, is the right one and is called only when it is built, also when its type is met first in the middle of a walk; there is no cycle of waiting; every call returns. |

Runs that show where the code does not do what its comments say:

| Run | What happens |
|---|---|
| `decoder_first_lost` | Of a stream of block documents as `Encoder` writes it the first is never delivered. |
| `token_arrays` | Of `[a]` `Token` returns `[`, then the string `a]`, then `io.EOF`. |
| `parser_unknown_field` | The block value of a field that the struct does not have takes the fields after it with it. |
| `parser_nesting` | The lines `a:` and `b: c: d:` are accepted, and so is any number of keys on the second: the decoder recurses deeper than the limit on the scanner's stack. |
| `value_encoder_cyclic_slice` | A slice that contains itself is encoded without end. |

### Bounds

- `scanner`: `MaxNestingDepth` is 2 in place of 10000, so that the limit is met and
  passed: stacks go up to `MaxStack` = 3, one above it. Lines are indented by at most
  `MaxIdn` = 4, which lets three block collections nest (`- ` adds 2) and return to
  each level in between. All classes of bytes occur; the length of the input is not
  bounded. Decisions of the scanner look at the top frame, the frame below it and the
  difference of indents, except for two that look at the whole stack (`eof`, the
  popping of frames), which three frames exercise.
- `decoder_blocks`: up to three different block documents (a mapping, a mapping in a
  mapping, a sequence), each after a `---` line, with and without a comment before
  them, in pieces of every size (`MaxChunk` is longer than the streams) with the end of the stream
  reported with the last bytes or after them, and a reader that fails anywhere. Three
  documents are a first, a middle and a last one. A `Read` that returns nothing and no
  error, which `io.Reader` discourages, is left out.
- `token`: all streams of up to four pieces of an array or of an object (brackets,
  separators, quoted scalars), of up to three pieces with plain scalars and white space,
  and three longer ones that nest and hold keys, values and spaces; read one or two
  bytes at a time, so that every token is met at the end of the buffer and inside it.
  Most of these streams are not well formed: the properties do not need them to be.
- `parser`: four families of inputs. (1) Lists and maps of up to two elements,
  nested up to four deep, of words, numbers, strings with a colon and
  strings of two lines, each written with four sets of options and read to an empty
  interface and to its declared type: two elements are needed to come back to a loop,
  and nesting to come back to it from inside another. (2) Every string of up to two of
  fourteen bytes and up to three of five, at the top, in a list and in a map, and with
  single quotes: the decisions about quotes look at the first, the last and two
  neighbouring bytes. (3) Every text of up to four of nine structural bytes, and of
  five without brackets; each is either rejected by `checkValid` or decoded; and texts
  with up to four keys on a line, for `RecursionFollowsText`. (4) Short texts with targets that have
  no place for them, so that the decoder skips: all texts of three
  bytes and seven types, and of five bytes without brackets for a slice of strings. The texts go
  through the whole of `checkValid`, so that what is decoded is what the scanner accepts. `MaxNestingDepth` is not reached, except in `parser_nesting`, where it is 2. The
  proofs remove these bounds for `RecursionFollowsText` and `ElementsWereRead`, as long as the
  target is an empty interface.
- `encoder`: six parts of output, two values, indents 0, 2 and 4; the proofs remove
  these bounds.
- `value_encoder`: five values of different kinds, 1296 graphs; the threshold of
  cycle detection is 2 in place of 1000, and an anchor name has two suffixes in place of
  ninety-nine, so that both limits are passed. The proofs remove these bounds, for
  `RecursionIsBounded` as far as the set of values is finite.
- `type_cache`: two goroutines and four types: two that need each other, an interface in the
  first of them, and one that needs itself and that the others can meet only in the
  interface; values three levels deep, so that it is met inside another value. The race in question is between the one that
  stores and one that does not.

`CHECK_DEADLOCK FALSE` stands only in the runs of `Decoder` and `TokenDecoder`, where
the caller stops after `io.EOF`, and of `Parser`, which stops when `Unmarshal` has
returned.

### Fairness

`Decoder` assumes weak fairness of its next step: `Decode` runs on, and a reader
that is asked for bytes returns some, or an error, in the end. With it the decoder comes to an end on
every stream of the run. `TypeCache` assumes weak fairness of the steps of each goroutine: the
Go scheduler runs every goroutine that can run, and `sync.OnceValue` wakes those
who wait when it is done. A goroutine need not begin another value. The other
modules have safety properties only. That `Unmarshal` returns is stated without fairness: each call of a
loop has taken a byte of the text (`RecursionFollowsText`), so has every
element (`ElementsWereRead`), and TLC has run every input to its end.

## The proofs

Each proof has the same shape: an inductive invariant, a lemma that the initial states
have it, one step or one lemma per action that keeps it, and for each property of a run
the short argument that the invariant implies it.

### Scanner

`ScannerProofs` proves every property of the run `scanner`, for input of any length,
lines of any indent, any depth of nesting and any depth limit.
The invariant is `Sound(scan)` of `ScannerFacts`, a condition on one scanner between two
calls of `s.step`, and `StepSound` says that every call keeps it, for any byte. There
is one lemma per state function, because they call each other. Two conditions are needed
besides the properties themselves:

- `TopSteps` and `LiteralSteps`: while the top-level value is complete, or a block literal
  is on top, only a few state functions can run. Without this the properties are not
  inductive: any other state function would push on the frames, or pop them.
- `Ready(s)`, which is what a state function may count on that pushes and toggles frames,
  where `Sound(s)` is what the next call of `s.step` may count on. `stateBeginLine` comes
  to `stateBeginValue` in the middle of a call, with a scanner that need not be `Sound`.

The loop in `stateBeginLine` (`FramesKept`) has an end to choose, because the frames up to
which all are popped are a bounded set of numbers (`GreatestNatural`). What it leaves is a
prefix of both stacks, and `IndentsNest` and `FlowStaysOnTop` are of a kind that a
prefix keeps. `AcceptedIsClean` needs one more argument (`EofClean`): `eof` takes `endTop`
for success without a look at `err`, after it has called the step function with a line break.
But a line break that completes the value does not record an error in the same call
(`LineBreakClean`); a byte other than a line break may (`stateEndTop`).

`ScannerFlowNests` is the refinement: `Scanner` implements `FlowNesting`, with the kinds of
the flow frames (`FlowKinds`) as the open collections. Those frames lie next to each other on
the stack (`SpanExists`, from `FlowStaysOnTop`). `Turns(q, c, t)` says what a call on byte `c` may do to
the open collections `q`: open one, only on a bracket, and answer its opening event; close the
innermost and answer the closing event of its kind; record an error; or leave them alone.
Again there is one lemma per state function, and `StepTurns` joins them. The steps map so:
`ReadByte` to `Reject`, `Begin`, `End` or `Other`; `EndOfInput` to `Accept` or `Reject`, since the line
break that `eof` adds is no bracket (`EofKinds`); `Reuse` to `Restart`. The line break behind a
`---` clears the stack, and is mapped to `Other` because `stateNewDoc3` clears it only
where nothing is open.

### Decoder and token API

`DecoderProofs` is about any set of streams and reads of any size, and
uses `StepSound` for the scanner inside `readValue`. `DecInv` adds to `BufferIsWindow` where
the indices are (`Placed`: `scanp` within the buffer, except after `io.EOF`, where the end marker
at the beginning of the buffer takes it beyond; see *Known limits*). `TokInv` adds what
a call of the caller has in progress (`Waiting`) and that `tokenState` and `tokenStack` fit
the open collections (`Tokens`). From it:

- `TypeOK`, `BufferIsWindow`, of both modules, `TokenTypeOK`, `StateFollowsTokens`.
- `DelimitersNest`: `TokenDecoder` implements `FlowNesting`. The mapping takes each step
  to `Begin`, `End`, `Other` or a stutter (`Tells`); that the bracket closes a collection of its
  kind is what `StateFollowsTokens` is needed for.
- `MoreForetells`: `Fore` follows what `More` has seen up to the next call, over the
  reads in between.
- `OffsetAdvances`, under the hypothesis that no stream holds a separator `---`. It is
  needed: `dec.scanp = start` (`stream.go` 106) sets an index of the value where it should
  add it, and takes the offset back (*Known limits*). The streams of the run `token` have
  no separators, and the theorem says that nothing else can take it back.

### Parser

`ParserProofs` is about texts of any length, accepted by `checkValid` or not, targets of any type,
and literals that become anything (`StoreLiteral` and its like are parameters without an
assumption). It stands on `StepSound`: the parser runs the scanner itself.

- `ParserTypeOK`. `ParserInv` says that the scanner of `d` is sound and the read index in the
  text (`Scans`), that only the end is met behind the text (`Good`), and that the calls of `value`
  and of the loops alternate on the stack, each waiting for the one above it (`IsStack`,
  `Alternates`). There is one lemma per move of `ParserOps`; all moves but `skip` never go back
  (`Ahead`).
- `RecursionIsBounded` and `ElementsAreBounded` state `RecursionFollowsText` and
  `ElementsWereRead` for targets that are empty interfaces. Neither is inductive. `AnyInv` makes the bytes read pay
  for the stack (`Paying`): two places of it, the call of a collection and the call of its
  element, cost one byte, and each element of an array another. A collection that waits for its element has
  a byte to spare for it, unless the running call is still to read the first byte of its own
  (`Awaits`, `Covered`). So a call that is made on credit must read before it calls or returns: that
  is one lemma for each kind of step (`PushPays`, `ReplacePays`, `PopPays`).
- `RescanProgress` is what this needs of `rescanLiteral`, and where the code could go wrong: when
  `quickScan` finds that a literal is a key, the index is set back to the `:`. It lands behind where it came
  from because a literal never begins with a `:` (`Fresh`). That is a fact about every state
  function (`Follows`), with one exception: the opcode of a block literal is kept by a `:` that ends it,
  and then the scanner is left with an error or in another line of the literal, and the
  rescan reads on.

The hypothesis `input.type = AnyType` is needed by the argument: for targets of a type the decoder
skips what it has no place for, and `skip` sets the read index back by a byte
(`decode.go` 220-230). For an empty interface nothing is ever skipped, which `Uniform` says. For typed targets
both properties are checked by TLC.

### Type cache

`TypeCacheProofs` proves every invariant of the run, for any goroutines, any types however
they refer to each other, and values of any depth. `Inv` says what each function in the
cache, in a once object and on a stack is, and which call can stand on which (`Over`,
`Ordered`). Two facts carry the proof. The once objects only grow (`Grows`), so that what
a goroutine knows of them stays true while others run. And the once object that a call
runs or waits for is younger than all that are run below it on the same stack, because
`LoadOrStore` of a new one comes after the calls below it: so a goroutine waits only for
an object that is younger than those it runs, and a cycle of waiting would have to get
younger for ever (`NoWaitingCycle`). The youngest object of such a cycle refutes it.

### Values and streams written

`ValueEncoderProofs` proves of `ValueEncoder`, for every set of graphs, names,
addresses and every threshold:

- `AliasesAlwaysResolve`, `AnchorInverse`: the anchors written are exactly the entries
  of `anchors` (`OutInv`), and both maps are inverse to each other as long as the
  recursion runs (`AnchorsInv`). The inverse alone is not inductive: that a new anchor
  has a new name needs that `uniqueAnchorName` returns a name that is not taken (the
  least free suffix, by `LeastNatural`), and that a value that has a name is
  found by `getAnchor` before `storeAnchor` is called.
- `SeenIsThePath`: each frame has put its own key into `ptrSeen` (`SeenInv`). An encoder that
  meets a key that is there panics, so two frames never have the same one and a deferred delete
  removes only its own.
- `LevelCovers`: `ptrLevel` counts at least the pointers and maps on the path
  (`LevelInv`), by the cardinality of the set of their positions on the stack.
- `BracketsAlwaysMatch`: the style a collection was entered with is the style of the
  moment, or what the struct around the running field goes back to (`StyleInv`).
- `RecursionEnds`: `RecursionIsBounded`, for every finite set of values and under the
  hypothesis that every graph can be ranked (`Ranks`), which says that each of its cycles
  passes a pointer or a map. Without it the property is false, as `value_encoder_cyclic_slice`
  shows; TLC checks it for the graphs of `value_encoder` (`SharingRanked`). `PathInv` adds to
  the stack the order of its calls: a pointer that left no key was entered while `ptrLevel`
  was within the threshold, so by `LevelInv` there are no more of them than that; those that left
  one are of different values, by `SeenInv`; and between two of them the rank falls with each
  call (`PathBound`, `DepthBound`).
- `TypesCorrect`, on which the others rest.

`EncoderProofs` proves of `Encoder`, for every set of values and indents and for
outputs of every length, the invariants of its run, `ErrorIsFinal`, and two that the run
does not check: no separator stands without a document (`NoSeparatorAlone`), and no
document is written with an indent below 2 (`IndentAlwaysLegal`). The
properties speak of the output alone. The inductive invariant `EncoderInv` adds what
holds between the steps of a call: while no error is kept the output ends in a
document exactly if one was written, and in a separator when one is due.

### Assumptions and limits

The assumptions are those stated in the modules, and TLC evaluates them on the instances of
the runs: `NamesAssumption`, `AddressesAssumption` (0 is no address), `CycleCheckAssumption`,
`GraphsAssumption`, `IndentAssumption`, `MaxNestingDepthAssumption`, `InputAssumption`,
`StreamsAssumption`, `InputsAssumption`, `CallsAssumption`, `ElemsAssumption`, `InterfacesAssumption`,
`DepthAssumption`. They say of what
kind a constant is, and bound none. `RecursionEnds` alone has hypotheses of its own.

Only model-checked:

- liveness (`CallsReturn`, the end of `DocumentStream`), which is out of reach of the prover;
- `ImplementsDocumentStream`, which depends on the streams of the run: the known limits are streams
  for which it is false;
- `RoundTrip` and `NothingUnread` of the parser. The first compares with a reference that is recursive over
  values. The second depends on the text: comments and explicit types are texts for which it is
  false (*Known limits*);
- `RecursionFollowsText` and `ElementsWereRead` for targets with a type, because of `skip`.

## Known limits

The texts and values that the runs leave out because the code is known not to treat
them as its callers would expect. Each is described here rather than excluded in silence;
`KnownLimit` and `UnreadString` of `MCParser` are the ones that concern `RoundTrip`.

Scanner: after an unfinished document that ends in `...` the error is returned once and
every later byte is answered with `scanEnd` (`scanner.go` 126 promises that an error
is returned again).

Streams:

- documents without a separator before the first (`decoder_first_lost`);
- scalar documents after `---` lines: `dec.scanp = start` (`stream.go` 106) sets an
  index of the value where it should add it, and a document may be delivered twice;
- a scalar that is not followed by a separator: the line break after it is left in the
  buffer and the next `Decode` returns a document of that line break alone
  (`stream.go` 122 looks for a document of no bytes);
- an empty document between two separators: `io.EOF` is returned for it, though
  documents follow;
- the end marker `...` at the beginning of the buffer: four bytes are skipped where there
  are three (`stream.go` 119), and `scanp` lies beyond the buffer;
- a writer that fails once leaves a document without its separator (`stream.go` 355 goes
  on after the failure; the error is kept, so nothing follows that document).

`Token` cannot be used for plain scalars in collections (`token_arrays`), nor for
objects: for `{"a":"c"}` the key is decoded together with its `:` and value.

Decoding:

- unknown fields with a block value (`parser_unknown_field`); an empty value of an unknown
  field (`a:` before another field) is a recovered panic, since there is no target to
  set (`decode.go` 802);
- a sequence that is not empty directly in a block sequence, and an element after a
  mapping in a block sequence that is `[]`, `{}` or a block literal;
- a block literal in a block sequence decoded to an empty interface and followed by
  another element: `arrayInterface` lacks the second look at `- ` of `array` (`decode.go`
  589);
- a literal block that ends in `:`, which is lost; a string of line breaks alone;
- a second key on a line when the first has pushed no frame (`parser_nesting`): the limit
  `maxNestingDepth` does not bound the recursion of the decoder, only the length of the text
  does;
- a text that ends in a comment leaves it unread, and so does `!!str "a":"b"`, of which only the
  first string is decoded (`NothingUnread`); the inputs of `parser` have no comments and no types;
- strings that hold a single quote, written with quotes that `Unmarshal` rejects: `Marshal("'")`
  writes `"'"` (`scanner.go` 828); the strings of `parser` hold none;
- flow style and a string with a line break in it, unless strings are quoted;
- plain strings that are written without quotes and not read back: those that begin
  with `:` or `--`, `<`, `<<`, `..`;
- an alias inside the value that carries its anchor, which `Marshal` writes for a value that
  contains itself: `Unmarshal` stores an anchor when its value has ended (`decode.go` 396). `AliasesResolve`
  is about the text alone, in which the anchor comes first;
- anchors in flow collections decoded to an empty interface, and an alias
  of an anchor stored with another static type (an error is saved, or `Set` panics);
- a `- ` without a value where a typed target expects a scalar (`a: -` into a map of
  strings): `skip` sets the index back by one and the next read panics, which `unmarshal`
  recovers;
- separators that are not complete (`[]-`, `-: a`), which `checkValid` accepts and the
  parser answers with an error or a recovered panic;
- `>+` followed by empty lines alone, with more line breaks than bytes, indexes below
  zero (`decode.go` 1570), a recovered panic;
- the twins differ: `~` and `!!str` have their meaning only for a target with a
  type; an empty interface inside a collection gets their text.

## What is not modelled

- Methods of the user (`MarshalYAML`, `UnmarshalYAML`, `MarshalText`,
  `UnmarshalText`), whose behaviour the package does not know. That a value or
  a key of a map cannot be written (an unsupported type, a marshaler that fails) is in
  `ValueEncoder` as `RefuseValue` and `RefuseKey`.
- Conversions of scalars: times, durations, the kinds and widths of numbers, words with
  a meaning (`true`, `null`, `.inf`) other than `~` and `-`. A number is the text that
  spells it. Bytes are classes, of which each stands for one byte.
- Targets: pointers, keys of maps that are not strings, fields that are found by their
  folded name, `DisallowUnknownFields`, which adds an error. `errorContext` only adds text.
- `typeFields`, tags and the folding of names: pure computations by reflection.
- `fieldCache` computes the same value twice at worst.
- Omitted fields of structs. A field that is omitted is as a field that is not there.
- Addresses: values of `ValueEncoder` have different addresses. In Go a struct and
  its first field share one, and an anchor given to the one is then found for the
  other. The pointers to one value have one type: the key of a pointer in `ptrSeen` is the value it points to
  (`Key`), where the code also has the type of the pointer.
- A target that holds something already. A key of a struct that comes twice adds to the map
  or struct its field has from the first time, and a literal that cannot be stored leaves
  what is there; `Parser` begins with a new target (`EmptyAcc`) and stores a zero value.
  No input of `parser` has a key of a struct twice.
- The texts of errors, and their offsets.

## Plan

Done, in this order: `ScannerOps` and `Scanner`, on which the decoder and the parser
stand; `FlowNesting`; `Decoder` and `DocumentStream`; `Encoder`; `ValueEncoder`;
`TypeCache`; the proofs about `ValueEncoder` and `Encoder`; `ParserOps`, `Literals`,
`Parser` with `ValueText` as the source of its inputs; `TokenDecoder`; the proofs about
`Scanner`, `Decoder`, `TokenDecoder` and `TypeCache`; `ParserOps` without recursive operators, and
the proofs about `Parser`.

Next:

1. Proofs: `RecursionFollowsText` for targets with a type. `skip` gives a byte back, so the
   call that has skipped must be shown to have read two.
2. `Fields`: `typeFields` and `dominantField` against a reference definition of Go's
   rule for embedded fields, on small sets of types.
