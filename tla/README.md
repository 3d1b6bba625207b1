# A TLA+ model of mini-LMc

mini-LMc is a small LLM inference engine in C: it maps a GGUF file, checks that
it holds a Qwen2 model, runs tokens through the decoder with a key/value cache,
and offers that as the commands `show`, `info`, `forward`, `generate` and
`chat`. This directory models the parts that keep state or must agree with each
other, checks them with TLC on small instances, and proves with TLAPS, for every value
of their constants, every safety property that the runs find to hold. What TLC
alone says is liveness. Paths below are relative to the repository's root.

The program is one process and one thread. Its difficulty is not interleaving
but long sequences of calls, of which any may fail at any point, over flat
buffers addressed by arithmetic, with checks at one place that another place
relies on. The one actor beside it is another process that changes the size of
the file being mapped.

## Inventory

| Component | State it keeps | Operations | Talks to | What is hard | Correct when |
|---|---|---|---|---|---|
| File mapping, `src/platform.c` | a descriptor, a view, an impl block | map, unmap; two builds | the OS; gguf | failure after each of its steps; a file resized meanwhile | all or nothing is held; what may be read is mapped |
| GGUF loader, `src/gguf.c` | metadata values (nested arrays), tensor descriptors, data offset | load, free, find, find_tensor, tensor_data | mapping below, everything above | truncation at every field, recursion, ownership while it unwinds, sums that wrap | a failure frees everything; a loaded file's ranges are inside it |
| GGML types, `src/ggml_types.c` | a constant table | traits, storage size | gguf, dequant | products that exceed a `size_t` | the size is exact or refused |
| Dequantization, `src/dequant.c` | none | half and bfloat conversion, row conversion, GEMV | model | subnormals, rows and whole tensor sized apart | a conversion is exact; reads stay in the tensor |
| Model, `src/model.c` | config | load, free | gguf | the same tensors are checked at load and looked up at every use | a model that loads never fails a check later |
| KV cache and forward, `src/model.c` | keys, values, capacity, token_count | state_init, reset, free, forward | model; the commands | flat addressing, failure half way through the layers, reuse after a reset | the cache is the cache of the context |
| Tokenizer's vocabulary, `src/tokenizer.c` | two open-addressing tables, the merge array | init, free, lookups | gguf; the encoder | probing with no bound but a free slot, failure in the middle of the merges | a lookup finds exactly what the file holds |
| Encoding and writing, `src/tokenizer.c` | a piece array, the id array | encode, encode_segment, write_token | the vocabulary; the commands | merge order, where segments end, markers, byte symbols | the tokens spell the text's symbols; what has a symbol the writer knows comes back |
| Sampling, `src/tokenizer.c` | the caller's random state | sample | the commands | top-k ties, rounding of the cumulative sum | each candidate is drawn for its share |
| chat, `src/main.c` | first_turn, context_full, the reply's limit | a turn: three texts in, a reply out | read_line, tokenizer, forward, sampling | partial feeding, three limits meeting at the full context | the context is the conversation shown |
| read_line, `src/main.c` | a growing buffer | one line | stdin; chat | growth at the last place, the end of input inside a line | the line is what was typed |
| generate, `src/main.c` | prompt, max_tokens | the prompt in, a reply out | as chat | the cache is sized up front, the last token is not forwarded | output continues the prompt; status 0 means all of it was written |
| forward, `src/main.c` | the arguments | one pass and a line per argument | forward pass | a bad argument after good ones, a line that is lost | a line that gets out answers the arguments up to its own |
| show, info, `src/main.c` | locals | load, print, free | gguf | - | all is freed |

The components interact by plain calls: a command owns a model, a tokenizer, a
state and a logits buffer, passes pointers down, and frees them at its end. The
tokenizer keeps pointers into the loaded metadata, and tensor data are pointers
into the mapped file. `PROJECT.json` lists every component with its status and
every hazard at its line.

## Modules

| Module | Models | Relation |
|---|---|---|
| `Decoder` | what a decoder state promises its callers | abstract |
| `KVCache` | `src/model.c`: the state, the cache, one pass layer by layer | implements `Decoder` |
| `KVCacheProofs` | the theorems about `KVCache` | extends it |
| `Chat`, `Generate`, `Forward` | the three commands of `src/main.c` that run the model | each instantiates `Decoder` |
| `ReadLine` | `read_line` of `src/main.c` | - |
| `Main`, `MCMain` | the process: one command, and chat's calls of `read_line` | composes the four above |
| `MainProofs` | the theorems about `Main` | extends it |
| `MappedFile` | `src/platform.c`, POSIX and Windows | - |
| `GgufLoad` | `src/gguf.c`: load, free, and the accessor's own checks | - |
| `GgufFile` | a file from mapping to unmapping | composes the two above |
| `GgufFileProofs` | the theorems about `GgufFile` | extends it |
| `Qwen2Model` | `src/model.c`: config, tensor validation, and a pass's checks | takes files that `GgufLoad` accepts |
| `TensorRows` | `ggml_tensor_storage_size`, and what `mlmc_gemv` and `mlmc_dequantize_row` read | - |
| `HalfFloat` | `mlmc_fp16_to_fp32` on bit patterns | - |
| `Model`, `MCModel` | the tensors of a model file: sizes, rows, elements, and the model made of them | composes the three above |
| `ModelProofs` | the theorems about `Model` | extends it |
| `Dictionary` | what a hash table of the tokenizer promises | abstract |
| `ProbeTable`, `MCProbeTable` | the two open-addressing tables of `src/tokenizer.c` | implements `Dictionary` |
| `ProbeTableProofs` | the theorems about `ProbeTable` | extends it |
| `Vocabulary` | `mlmc_tokenizer_init` and `_free` | two instances of `Dictionary` |
| `Encoding` | `mlmc_tokenizer_encode`: segments and markers | - |
| `Bpe` | `encode_segment`: merging | - |
| `Tokenizer`, `MCTokenizer` | a tokenizer built, used and freed | composes the three above |
| `TokenizerProofs` | the theorems about `Tokenizer` | extends it |
| `SequenceLemmas` | lemmas about sequences, `FlattenSeq`, folds, sums and induction | used by the proofs |
| `ByteSymbols` | the byte alphabet, and `mlmc_tokenizer_write_token` | - |
| `Sampler` | `mlmc_sample` | - |
| `Output`, `MCOutput` | the next token: drawn, then written | composes the two above |
| `OutputProofs` | the theorems about `Output` | extends it |

A component that others call is composed with its callers in one of two ways.
Where the interface is narrow an abstract module stands for it, and the detailed
one is shown to implement that: the commands call `Decoder`, which `KVCache`
implements (`ImplementsDecoder`, checked and proved), and `Vocabulary` looks
texts and pairs up in `Dictionary`, which `ProbeTable` implements
(`ImplementsDictionary`, checked and proved). Elsewhere the composite module has
the variables of both, and an action for every call and every return that is a
step of caller and callee.

### KVCache

The two arrays are functions from cell numbers to cells, one cell standing for
the `head_dim` floats of one kv head, so `CachePosition` is the code's own
arithmetic and an array shorter than the addressing assumes is representable
(`Calloc` truncates the byte count to a `size_t`). A cell records what its
floats were computed from: layer, position, head, and the tokens they depend on
(one token in layer 0, everything up to the position deeper). `Attended` is
`attention()`: if each row it reads is the row the formula calls for, the result
depends on the tokens of those rows; any other row makes it depend on no
well-formed context, and that shows in every later layer and in the logits. So
wrong addressing, a stale row or the wrong order of storing and attending all
surface without any arithmetic on floats.

`mlmc_qwen2_forward` is `ForwardBegins`, one `RunLayer` per layer and
`ForwardSucceeds`; `ForwardRefused`, `LayerFails` (before or after the copies)
and `OutputFails` are its failures. `state_init`, `state_reset` and `state_free`
are one action each. Every caller zeroes a state before `state_init` and frees
it once, so `StateInit` is taken only on a closed state. Not modelled: a state
used with a model other than its own (no caller holds two); the values of the
floats.

### Main: Chat, Generate, Forward, ReadLine

One action per step of a command: each acquisition with its release list, each
token fed, sampled, written or forwarded, each way to stop. Text is the sequence
of tokens it encodes to; `mlmc_sample` returns any token of a small set or
fails; `mlmc_tokenizer_encode` and the writes may fail. `said_full` records the
message of `src/main.c` 346-349. `turns` in `Chat`, `output` in `Generate` and
`printed` in `Forward` record what the user has seen, so that the context can be
compared with it. A line of `forward` may be lost without a sign (`PrintLine`):
`cmd_forward` does not look at what `printf` returns and flushes nothing.
`ReadLine` reads character by character into a buffer of which
each doubling and each store is a step; the tokens of a chat text are the
characters of its line. Parsed arguments are inputs. The mismatch between
`tokenizer.token_count` and `vocab_size` leaves the tokenizer's tables to the
process's exit; `ReleasedAtExit` names that one path as an exception.

### GgufFile: MappedFile, GgufLoad

`held` is what the operating system and `malloc` have given out and not got back
for the mapping; every step may fail and then releases what its own line
releases. `stat` is the size at `fstat`; `disk` is the file's size now, which
another process may change except while Windows keeps the file open without
sharing it for writing. In `GgufLoad` a heap block is named by the pointer that
owns it; `linked` is the set of blocks some pointer in `*out` leads to,
`Reachable` what `gguf_free` gets to by following them. `parse_value`'s recursion
on arrays is an explicit stack, its error path one `Unwind` per level. The
file's contents are arbitrary: each field takes any value of a small set and the
file may end before any of them. Scalar types share one action; strings have one
length. `InRange` is the load's check of a tensor, `TensorData` what
`gguf_tensor_data` answers, with checks of its own; `TensorsMapped` says that
both come to the same bytes.

### Model: TensorRows, HalfFloat, Qwen2Model

In `Model` a tensor of the file is sized and read, an F16 element of it is
converted, or a model is loaded and run, one after the other; none of them
depends on the others' state, so the conversion and the model wait for one
tensor that stands for all.

In `Qwen2Model` a file is a metadata record and a table of tensor descriptors,
which `gguf_load` has accepted (`Open`). The load checks them once; then a pass runs in which the checks of `rms_norm`, `add_bias`,
`matrix_gemv` and `copy_embedding` are the only way to fail.

`StorageSize` has the casts and the order of checks of
`ggml_tensor_storage_size`. `read` collects the positions of the bytes a kernel
reads; a row's start is computed from the row's own size, as the code does, and
compared with the size of the whole tensor that the loader checked. `HalfFloat`
has one action per branch of the conversion and one per turn of its loop.

### ProbeTable

The slots are an array of numbers or `Empty`; hash values are any function from
keys to numbers, so every pattern of collisions is a case, and masking with a
power of two less one is the remainder. `Extra` tells the two tables apart (one
slot more is asked for merges). Insertion's loop has no bound, as in the code;
lookup's has one. Building and one lookup after the other are steps.

### Tokenizer: Vocabulary, Encoding, Bpe

Characters are what segmentation tells apart: letters, blanks, newlines, digits,
the apostrophe, the characters of `<|` and `|>`, and `cut`, a first byte whose
continuation is missing. In a token a blank has another symbol, as the byte
alphabet gives it. `Vocabulary` has each allocation, each token, each merge with
its temporary buffer, and each way to fail. `Encoding` finds the next segment or
marker as the code does and calls `Bpe` for it, which adds one symbol, merges one
pair or appends one id per step; a failure anywhere discards what was encoded.
`IdsCoverText` compares the tokens' strings with the text's symbols; what
`write_token` makes of symbols is not assumed here but modelled in `ByteSymbols`.

### Output: Sampler, ByteSymbols

`Output` draws a token and then writes one; a token is written alike, however it
was drawn, so that one draw stands for all.

Logits are integers, a weight `exp((l - max) / t)` is a whole number of a small
unit that falls with the distance and may underflow to 0, and the random target
is any number up to the total; the total itself stands for a remainder that
rounding leaves over. `draws` is what the generator has given in the call. The
sort is `qsort`'s contract: the ids in an order that `compare_candidates` finds
sorted.

A text's bytes become symbols as in the first loop of `encode_segment`, and
`mlmc_tokenizer_write_token` writes the token that all of them would merge into.
Tokens that no text encodes to are written as well, because the vocabulary comes
from the file. Here bytes are bytes: the properties are about the conversion.

## What the runs check

Each property has a mutant in `PROJECT.json`: a plausible bug in the modelled
code under which TLC finds the property violated; in composites there is one in
each part. The mutated operators stand before the definitions they replace and
are used by nothing else.

| Run | Bounds | Shows |
|---|---|---|
| `kvcache` | 2 layers, 2 kv heads for 4 query heads, 3 positions, 2 valid ids and a bad one; SIZE_MAX such that a cache of 4 positions does not fit | `TypeOK`, `CacheMatchesContext`, `PassFollowsContext`, `InFlightInBounds`, `CountedRowsKept`, `ImplementsDecoder` after every sequence of init, forward, reset and free with failures anywhere |
| `commands` | chat: 17 positions, replies of up to 3, lines of 0 to 8 characters, a buffer of 2 that may not grow beyond 8; generate: 4 positions, prompts of 0 to 5, max_tokens 1 to 3; forward: 3 positions, 1 to 4 arguments | `TranscriptKept`, `SampleUsesFreshLogits`, `RoomForEveryToken`, `LinesAnswerPrefixes`, `SuccessIsEarned`, `LineComplete`, `ReleasedAtExit`, `EndsOrAsks` |
| `gguf_file` | 2 entries, 2 tensors, arrays of up to 2 items nested twice, SIZE_MAX 255, both builds, files of three sizes | `AllReleased`, `PointersExact`, `TensorsMapped` |
| `model` | four block layouts, shapes of 1 to 4 dimensions around block sizes and a SIZE_MAX of 1023; every half; 49 configurations, a good file for each and all with one tensor or entry wrong | `SizeExact`, `RowsExact`, `SameValue`, `LoadedModelRuns`, `DimensionsAgree` |
| `probe_table` | every array of 1 to 4 of four keys, one of them empty; three hashes per key; a sentinel of 3, so that an array of 4 is refused | `PathsFull`, `FreeSlotLeft`, `ImplementsDictionary`, `BuildEnds` |
| `tokenizer` | three kinds of files, see below | `NothingLeft`, `TablesMatchFile`, `IdsCoverText`, `MatchesReference`, `MarkersKept`, `WordsKept`, `CallsEnd` |
| `output` | up to 4 logits of 4 values, or one not finite; top_k 0 to 3 and beyond; every one-byte text, so every symbol; code points of 1 to 4 bytes, and tokens that break off or are not UTF-8 | `AmongTopK`, `DrawnByWeight`, `AnswersOrRefuses`, `SymbolsTranslatedBackOutsideGap`, `AsciiUnchanged`, and no read past a string's end (`TypeOK`) |
| `chat_message` | as `commands` | violated: see below |
| `byte_symbols_docs` | ASCII and four valid UTF-8 letters and marks | violated: see below |
| `tokenizer_docs` | as `tokenizer` | violated: see below |

Why the bounds are enough. Aliasing in the cache needs two layers, two positions
and two heads, and a third position separates the first row from the last; two
tokens tell contexts of the same length apart. In `chat` the first prompt takes
9 to 15 of the 17 positions and the next one 6 or more, so that replies end at
the marker, at their limit, cut short by the context and with no room at all,
and a later prompt does not fit; lines end below, at and above a doubling, at
the largest buffer, and without a newline. In `generate` `max_tokens` falls
short of, meets and passes the room left, in `forward` the arguments pass the
context and hold bad ones anywhere. In `gguf_file` files end early, in the data
section or after all of it, any read, system call and allocation may fail, and
the offsets pass both the end of the file and SIZE_MAX. In `model` dimensions
are one below, at and above a block, two blocks and the width; each tensor check
is met by a file with only that tensor wrong; the metadata varies head counts,
lengths, epsilon and architecture. In `probe_table` four
keys share homes in the middle and at the end of tables of 2, 4 and 8 slots, so
probes collide, pass other keys and wrap around. In `tokenizer` the broken files
have each defect `init` looks for, and each kind of id and flag; the language
has every short text of its characters and pieces of markers, and a marker that
has another one's text inside it; and the
vocabularies of two symbols have every list of up to two short merges and many
of three, on every text of five symbols that begins with the first. In `output`
the conversions work one code point at a time; four logits give a tie at, above and below the boundary of top_k.

Fairness. The process is single-threaded and waits only for the terminal, or in
a library module for its caller. `Main`, `Tokenizer`, `ProbeTable` and `Output`
have weak fairness on the steps that follow a call; nothing is assumed of the
user, who may never type again, or of a caller, who need not call. `EndsOrAsks`
says that a command ends or waits at its prompt, `CallsEnd`, `BuildEnds` and
`AnswersOrRefuses` that the unbounded loops of the tokenizer and the sampler end.
The other modules state no liveness: their loops count up to a bound.

Three disagreements between the program and what it says of itself:

* `chat_message`: a failure to sample, write or forward sets `context_full` to
  leave the loop, so the user reads that the model context is full
  (`src/main.c` 346-349) when it is not.
* `byte_symbols_docs`: `src/include/tokenizer.h` 42 says that `write_token`
  translates the symbols back to bytes. Bytes 128 to 159 get the symbols U+0180
  to U+019F and `byte_for_codepoint` has no case for these, so text such as
  U+00DF comes back as the symbol.
* `tokenizer_docs`: README.md:47-48 says that the tokenizer follows the
  Qwen2/GPT-2 pre-tokenization pattern. Everything before the next `<|`, be it a
  marker's or not, is one segment (`src/tokenizer.c` 619-645), so merges may
  cross its words there, and the same text may encode differently before a
  marker than at the end.

Observations that no property is about. README.md:30 says generation stops at
EOS or the context limit; `cmd_generate` refuses the prompt when `max_tokens`
exceeds the room the prompt leaves (`src/main.c` 394), so it never gets to the
limit. A run of punctuation takes the `<|` of a marker right behind it, so
`<|<|m|>` does not give the marker `<|m|>`; and a marker whose text holds
another one's, such as `<|s<|m|>` with `<|m|>`, is taken whole. `MarkersKept`
is stated outside these two cases. On a 32-bit build a file's size and a
tensor's block count are cast to `size_t` before they are checked
(`src/platform.c` 105, `src/ggml_types.c` 80); the casts are in the model, the
runs take one width. `cmd_forward` ignores `printf`'s result
(`src/main.c` 525) and neither flushes nor looks at the stream's error, so it may
exit with status 0 and lines missing; no document says otherwise. Of `forward`
`SuccessIsEarned` therefore says only that every argument ran, of `generate`,
which flushes and checks, that everything was written.

## What is proved

`KVCacheProofs` proves, from `ConfigAssumption` alone (what `load_config`
accepts of the sizes, `src/model.c` 83-93), for every number of layers,
positions, heads and tokens and every SIZE_MAX:

* `TypeCorrect`, `CacheCorrect`, `PassCorrect`, `InBounds`: the run's four
  invariants;
* `RowsKept`: no step of a pass rewrites a counted row;
* `Implementation`: `KVCache` implements `Decoder`.

The inductive invariant is `IInv`, the conjunction of `TypeOK`,
`CacheMatchesContext` and `PassFollowsContext`. None is inductive alone: that a
finished pass may be counted (`CacheMatchesContext`) needs that its rows are in
every layer already, which is what `PassFollowsContext` carries through the
layer loop; that in turn needs the rows of the earlier positions to be the
context's. All are invariants of the run `kvcache` too.

The argument has two halves. The arithmetic half (`TimesMonotone`, `Digits`,
`PositionDigits`, `CellsDistinct`, `CellsInRange`) shows that layer, position
and head are digits of a cell's number, so no two rows share a cell and all lie
inside what `Calloc` returned (`CallocExact`). The other half shows what one
step does to rows: `StoredRows`, `StoreKeeps` for the copies, `AttendedContext`
for attention over the rows of one context, `RunLayerKeeps` for a layer and
`SuccessExtends` for counting. `StepKeeps` puts them together, one step per
action, and shows in the same cases that the step is one of `Decoder`'s or
leaves its variables alone.

`ProbeTableProofs` proves, from `TableAssumption` alone (keys have hashes, a
token array is not empty), for every array of keys, every hash function, every
number of slots that doubling reaches, and both tables:

* `PathsStayFull`: the probe for an item never meets an empty slot before it;
* `SlotStaysFree`: some slot is always empty;
* `Implementation`: `ProbeTable` implements `Dictionary`, which is that
  insertion refuses exactly what is there, and a lookup answers exactly what was
  inserted, no matter that it stops at the first empty slot.

`PathsFull` is not inductive alone: that storing an item does not hide another
needs that the probe under way has met only taken slots (`WalkPassed`), and that
a key which probing did not meet is new needs both together: `PathsMeet` says
that of two slots one lies on the way from a home to the other, so that an empty
slot and an item of the key cannot both exist (`AbsentKey`). `ItemsDistinct`
makes the number of an entry unique and, counted, equal to the number of entries
(`EntryOf`, `EntryCount`); `WalkCounted` says that a lookup with as many steps
as slots has seen all of them, which the free slot excludes
(`WalkNeverComplete`); and that a slot is free is the pigeonhole principle over
`PathsFull` and the slots asked for (`SomeSlotFree`). `IInv` is the conjunction,
and TLC finds it invariant on the run's instance as well.

`SequenceLemmas` has what the proofs below need of sequences. `FlattenSeq` is
defined by recursion over its argument's length; `JoinExists` and
`FlattenIsJoin` show that it is what the recursion says, `FlattenAppend` and
`FlattenConcat` what it makes of longer arguments. The induction they need is
`NatSetInduction`, which is stated with a set of numbers, not a property of
them, and follows from the pigeonhole principle for finite sets.

`MainProofs` proves, from `MainAssumption` (sizes and limits are positive, an
input line has its newline at the end or not at all, `forward` has an argument),
for every context size, limit, prompt, list of arguments and typed line:

* `ConversationKept`, `SampledFresh`, `RoomKept`, `LinesExact`, `StatusTrue`,
  `LineExact`, `AllGivenBack`: the run's safety properties. `StatusTrue` is about
  the output of `generate` and about the passes of `forward`, and `LinesExact`
  about those of its lines that get out.

`Inv` says for each command where it is, what it has acquired by then, and what
the decoder's context consists of. No property is inductive alone. That a token
is sampled from fresh logits needs that a turn's or prompt's last token was just
forwarded; that none is forwarded into a full context needs, in `chat`, the
number of tokens the admitted turn has left against the room it was admitted
with, in `generate` that prompt and limit together fit; and that the context is
the transcript needs, inside a turn, how much of its texts has been fed
(`RemainingTakes`). For `read_line`, `LineInv` says that the buffer and what is
still to be read split what was typed (`Splits`) and that the buffer has room
for one more character wherever one is stored. The transcript is a
`FlattenSeq`, so a turn's end is `TranscriptGrows`.

`GgufFileProofs` proves, from `GgufAssumption` and `GgufFileAssumption` (sizes
are positive and of a `size_t`, there are two platforms), for every depth of
arrays, layout, alignment, offset and SIZE_MAX, and failures anywhere:

* `NothingLeaks`: a load that failed and a file that was freed leave nothing;
* `PointersKept`: what is allocated is what pointers lead to;
* `TensorsInFile`: tensors lie inside the view, and the accessor, by its own
  checks, answers with these bytes.

Freeing follows pointers from the root, so that nothing is lost needs at every
step, inside every level of arrays, that each block is reached through blocks
that are there: `HeapInv`. That it stays so while `parse_value` goes into an
array and comes back is `StackInv`: `Shape` makes the path of each call the
path of its caller and the item that one is at, with nothing allocated behind
that item, and `Vacant` leaves the value that is next without a block, so that
what is allocated there is not allocated twice. `LayoutInv` carries what each
check established to the accessor; `RangeExact` shows that the checks, written
as subtractions, say what the sums say without wrapping. `MapInv` does the same
for the steps of both platforms' mapping. While this was proved, `OwnershipExact`
(a part of `PointersExact`) was strengthened to the steps that undo a load.

`ModelProofs` proves of a model's tensors, from `TensorRowsAssumption` (blocks have
elements and bytes, a block's bytes fit in a `size_t`, no dimension is 0, as
`gguf.c` checks) and `HalvesAssumption`, for every table of types, every shape
and every SIZE_MAX:

* `SizesExact`: a size that is returned is the size, and nothing else is refused;
* `ReadsExact`: no kernel reads outside what the loader checked, a product reads
  all of it and no byte for two rows;
* `HalvesKeepTheirValue`: a half becomes the float of the same value.

The first two have the premise `SameWidth`, that dimensions fit in a `size_t`
(64-bit builds): without it they are false, see the observations above.
`SizesExact` compares two folds over the dimensions, one that refuses by a
division and one over whole numbers that is capped above SIZE_MAX: `SizeFold`
and `CappedFold` give what each has come to after every dimension, `TimesIs` and
`CappedIs` one step, and once either is over the limit the rest only grows
(`ProductGrows`). `ReadsExact` then needs that the rows, sized apart, tile the
tensor (`RowBytesIs`, `MatrixSize`), and `Inv` that the rows so far were read
side by side. `ElementInv` is the loop invariant of the conversion: the mantissa
has been doubled as often as the exponent went down (`DoublingKeeps`).

Of the model made of them it proves, from `ModelAssumption` (the metadata are 32-bit
numbers, and tensors have whole blocks in a row, which is what `gguf.c` accepts),
for every configuration, number of layers and table of tensors:

* `LoadedRuns`: a model that loaded passes each check of a pass;
* `SizesAgree`: the dimensions a pass computes with agree.

`Validation` says at each step of loading what has been validated so far: the metadata,
the tensors outside the layers, and the layers below the loop's counter, in a
pass all of them. `ValidityStays` shows that this depends on nothing that changes
afterwards, `MatrixRuns` and `LayerRuns` that it implies the checks of a pass.

`TokenizerProofs` proves, from `TokenizerAssumption` (what
a file holds are sequences of texts and integers, and no character has the name
the model gives to a blank's symbol), for every file, vocabulary, list of merges
and text, and failures anywhere:

* `NothingStays`, `TablesRight`: what a tokenizer holds when it was refused or
  freed, and when it is ready;
* `WordsAreKept`: where encoding splits a text, and where it does not;
* `MarkersAreKept`: a marker becomes its id;
* `TextCovered`: the ids spell the symbols of the text, and markers as they stand;
* `ReferenceMatched`: merging gives what byte pair encoding is defined to give.

`VInv` is the invariant of building: the token table numbers the first tokens of
the file (`IdsInv`), the merges read so far are those of the file and the merge
table has exactly their pairs (`MergesInv`, `PairsInv`), and the merge under way
has the two parts whose text, joined, is looked up (`CurrentInv`). For encoding,
every step of `Tokenizer` is one of `Rests`, `Starts`, `CutsOff`, `Works`,
`Advances` and `Ends` (`StepIs`), which say what it does to the text, and each
part of `EncodingInv` is shown for these: `PlacesInv` that the segment and the
marker behind it lie in order in the text, `WordsInv` that segments begin at
boundaries of words, `MarkersInv` that a marker is still ahead of the encoder, is
the one it is about to take, or was taken. The lemmas before them characterise
what the code's searches return: `SegmentEndIs`, `ContractionIs`, `MarkerIs`,
and `MarkerCuts` with `OpenCuts`, that no segment ends inside a marker or takes
its beginning. `CoverInv` is the loop invariant of what the ids spell: those so
far the text up to the encoder's place, as `Shown` has it, the pieces of a
segment that segment's symbols, and a merge leaves that as it is because the
merged token's string is the joined one (`PairSpells`, from `VInv`).
`SpellingConcat` takes joined ids to joined strings, by induction; `ShownGrows`
says that a step forward shows a segment as symbols, the marker behind it as it
stands, and nothing before them differently.

`ReferenceMatched` is about two ways of merging: the code looks for the pair of
the lowest rank again after each merge, the definition sweeps over the segment
once for each merge of the list, by rank. `BpeInv` says that the definition,
applied to the pieces so far, gives what it gives for the segment, and that
nothing is mergeable once ids are put out. That one merge keeps this
(`MergeKeepsEncoding`) has three parts: the merges of lower rank find nothing to
do in the pieces, before and after (`WithoutStays`, for a pair of lower rank
would need the merged token, which training gives only a higher rank:
`Trained`); the sweep of that very merge would have made the same merge first
(`PrefixStays`, `SweepSame`); and from there on both go through the same
sequences. `SweepTrace` and `MergeTrace` give the folds over pieces and merges
as what they have come to, one element after the other.

`OutputProofs` proves of the draw, from `WeightAssumption` (a weight is a whole
number, positive at distance 0, and does not grow with the distance), for all
logits, every top_k and every number drawn:

* `TopKKept`: the answer is among the top_k largest, equal ones by id;
* `WeightsKept`: each token is drawn for exactly the numbers that are its own.

`SamplerInv` has a part for each loop; in the walk, what is left of the number
drawn is that number less the weights of the candidates passed (`Left`). The
property speaks of sets of ids and the code of places in an array: `SortedIs`
shows that the ids before one of a sorted array are those at the places before
its own, as many as these, by the pigeonhole principle. A sum over a set that is
taken in any order is the same sum (`SumExists`, `SumIs` of `SequenceLemmas`),
so the code's total and the property's sum over what is before a token are sums
over places (`TotalIs`, `AheadIs`).

Of the bytes it proves, from `StringsAssumption` (strings have no byte 0), for
every text and every string a vocabulary may hold:

* `BytesTyped`: no place runs past its string, and what is written are bytes;
* `TextComesBack`: a text without bytes 128 to 159 is written back;
* `AsciiWritten`: a token of plain ASCII is written as it stands.

The invariant of the round trip has the places where each byte's symbol ends
(`Ends`): the writer is always at one of them, with as many bytes written
(`SymbolsInv`), because what `decode_codepoint` reads there is the symbol
(`ReadBack`) and no symbol can be taken for a shorter or longer one.

Two attempts failed for a reason. `MarkersKept` was false of a marker inside
another one, which no vocabulary of the run had: the property now has the
premise, and the run such a vocabulary. And `OwnershipExact`, as it was stated,
said nothing of the steps while a load is undone.

The theorems hold for every value of the constants, so also for the instances of
the runs, where TLC checks the same properties without the proofs.

Only model-checked: liveness (`EndsOrAsks`, `CallsEnd`, `BuildEnds`,
`AnswersOrRefuses`), which is beyond the prover, as is ENABLED. What the proofs
do give for it is the safety that each argument for termination rests on: the
free slot that insertion ends at (`SlotStaysFree`), and that each step of
encoding moves on in the text (`PlacesInv`).

## Not modelled

* Values of floats: softmax, RoPE, SwiGLU, norms, the sums of a product, `exp`.
  They are out of TLC's reach; what their inputs depend on is modelled.
* The order `qsort` moves candidates in and the bits of the random generator:
  any target of the right range is drawn.
* Which code points are letters, digits, blanks or punctuation
  (`src/tokenizer.c` 408-460): a table of ranges; characters have a class.
* Argument parsing and the wording of output; `show` and `info` beyond load and
  free; the block conversion of Q8_0 and the bfloat shift, which are arithmetic
  on floats and a shift.
* The stack that nested arrays use (the model bounds their depth) and the signal
  a truncated mapping raises when it is read: neither has a counterpart in the
  program.
* `make_test_model.c` and the tests, read as documentation.

## Plan

1. Done: the modules above, their composites, both refinements, and a proof of
   every safety property of a passing run.
2. Left to TLC: all liveness.
3. Open: a width of `size_t` below that of the file's numbers, for which
   `SizeExact` is false; and nested arrays on a bounded stack.
