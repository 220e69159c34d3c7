# A verification development for astroframe-rs

astroframe reads a FITS or XISF frame: its header and its pixels, native or normalized.
It is a decode-only library. Nothing in it runs concurrently and nothing is persisted: a
`Reader` is driven by one caller through `&mut self`. What makes it hard is the *sequence*
of calls over bytes that may be wrong, cut short, or readable only once: a caller may stop
between any two rows, retry, narrow to a channel, change its mind or ignore an error, and
the next header must still be found and every row delivered must be the right one.

The code is in `src/src/`. This directory models the reader, the FITS side and the XISF side,
from the parse of the header to the last row of a block.

## Inventory

| Component | Source | State it keeps | Operations |
|---|---|---|---|
| Reader | `reader.rs` | phase, range override, selected channel, advances, `pixels_started`, `pixels_failed` | `next_image`, `set_bounds`, `select_channel`, `chunks` / `next_chunk`, `for_each_chunk`, `read_samples(_into)`, `read_image(_into)`, queries |
| Byte source | `source.rs` | cursor; origin and length when seekable | `read_exact`, `read_some`, `skip`, `seek_to` |
| FITS decoder | `fits/decoder.rs` | position, pending and current HDU, header, pixel state, `pixels_read` | `next_image`, `abandon`, `begin_pixels`, `next_chunk` |
| FITS HDU | `fits/hdu.rs` | none | image position, first fault, data unit size, geometry, header |
| FITS cards | `fits/cards.rs` | none | card folding (`CONTINUE`), value lexing |
| XISF decoder | `xisf/decoder.rs` | occurrences, current, pixel state with a subblock walk, `pixels_read`, codecs | the same four |
| XISF codecs | `xisf/codec.rs` | one open stream per codec | decompress, open, fill, `require_end` |
| XISF blocks | `xisf/block.rs` | none | location, compression, subblocks, checksum, unshuffle |
| XISF occurrences | `xisf/image.rs`, `attributes.rs`, `cache.rs` | document-scoped memo | the occurrence walk, decline order, granularity |
| XISF keywords | `xisf/keywords.rs` | none | `CONTINUE` folding of attribute triples |
| XISF XML | `xisf/xml.rs`, `scalars.rs` | arena, namespace scope | a guarded pull parse |
| Normalization | `normalize.rs`, `samples.rs`, `image.rs` | none | one sample to `[0,1]` |
| Limits, options | `limits.rs`, `options.rs` | none | the caps |
| Report types | `header.rs`, `metadata.rs`, `error.rs` | none | accessors |

**Interaction.** The reader owns the source and one decoder and passes the source into
every decoder call. The decoder owns the header of the position it sits on; the reader
reads it for every check. A `Chunks` cursor borrows the reader, so no other call can be made
while one lives; `for_each_chunk` and the tier-2 calls drive a cursor of their own. The FITS
decoder interprets an HDU through `hdu.rs` and walks the file as the caller advances. The XISF
decoder reads the whole header when it is built: `xml.rs` makes a document of it, `image.rs`
walks the document into occurrences (a header to report and a plan to decode by) under one memo,
and decoding follows a plan. A plan's block is streamed row by row (through a `SubblockWalk` when
it is compressed) or materialized whole by `codec.rs`. Both decoders move the source only through
`skip`, `seek_to` and `read_exact`.

**Hard behaviours.** Calls in any order (protocol); an error between two steps of a call
that then may or may not be repeated (partial failure); sources with no length that skip by
reading (bounds, termination); several counters of one thing, such as row, offset and cursor
(off by one); one set of cards or attributes read several times for several purposes; state that
describes one position and is written in several places (staleness); two routes to the same
bytes, and two foldings of the same keywords, written apart; a memo that must not show; sizes
that overflow.

**What makes each correct.** Reader: configuration fixed during pixels and scoped to one
image, a failed decode stays failed, caps applied on every path. Source: cursor moves and
refusals. FITS decoder: the walk reads headers only where they stand, every image once, the
rows delivered are exactly the ones selected. HDU: size, fault and geometry agree. Keywords:
both containers give what the standard describes, under the same cap. XISF XML: names under the
scope they are written in, text to its element, nothing cut off accepted. XISF occurrences: the
memo invisible, order kept, the reported granularity the path a decode takes. XISF codecs: a
stream and a materialized block agree, an end that is not checked is never trusted. XISF decoder:
the same promise to the caller as the FITS one, whichever way a block is stored.

## Modules

| Module | Models | In which terms |
|---|---|---|
| `Checked` | u64 arithmetic | `None` is `Option::None`; `MaxU` is the width, a parameter |
| `Source` | `source.rs` | each operation is the *set of outcomes* `[res, pos]`; short reads and I/O errors are among them |
| `Reader` | `reader.rs` | variables named as the fields; each public call an action; `...Returns` operators are the code after the decoder answers |
| `FrameSession` | what any reader promises | frames, a position, a selection, a stream; no format |
| `FitsHdu` | `fits/hdu.rs` | operators over a record of cards; a number is `None` when its card is missing, quoted or no integer |
| `FitsSizing` | headers written card by card | any cards, up to a number of `NAXISn`; the size told over the integers, for the properties |
| `FitsDecoder` | `fits/decoder.rs` | the decoder's fields and one action per step of its methods |
| `FitsReader` | the composition over FITS | `Init`, `Next`, the specification and every property of a session |
| `KeywordText`, `FitsCards`, `XisfKeywords` | `fits/cards.rs`, `xisf/keywords.rs` | a fold is a function of a state and one card or record; text is a sequence of symbols |
| `KeywordFold` | the two folds side by side | one record at a time, against the standard told of the records |
| `XmlHeader` | `xisf/xml.rs` | one action per event of the XML reader; a qualified name is its parts |
| `XmlDocument` | | a header written tag by tag into `XmlHeader`, and the document as it was written |
| `XisfDoc` | `Doc` of `xisf/xml.rs` | nodes in document order; references resolved one hop |
| `XisfBlock` | `xisf/block.rs`, `BlockPlan` | operators over an attribute's fields; how a pair is read; the shuffle |
| `XisfImage` | `xisf/attributes.rs`, `image.rs` | an attribute reads as a value and a fault apart; the decline order; granularity; the plan |
| `XisfCache` | `xisf/cache.rs` | the memo, as maps |
| `XisfDocument` | the walk of `image.rs` | one turn of each loop is an operator over `[.., cache]` |
| `XisfWalk` | that walk as a system | one root child a step, against the header read with no memo |
| `XisfCodec` | `xisf/codec.rs`, resident | a codec is external: what it makes of a pair is the pair's content |
| `SubblockWalk` | `SubblockWalk`, `Stream` | each method the set of its results `[res, pos, walk, out]` |
| `BlockStream` | one compressed block | `fill`, `advance`, `finish` around `SubblockWalk`, against `XisfCodec` |
| `XisfDecoder` | `xisf/decoder.rs` | construction, the walk over occurrences, `begin_pixels`, `materialize` |
| `XisfDelivery` | `xisf/decoder.rs` | `next_chunk`: which row, reading or decoding to it, the channel's samples |
| `XisfReader` | the composition over XISF | the specification and every property of a session |
| `BlockContent` | what a block holds, told from its pairs | no decoder and no source is asked; `ConformingPlan` is a plan whose header was read |
| `XisfConforming` | a document by the time it is walked | a tree whose attributes were split into fields that read or did not |
| `Folding` | what a left fold computes | the step and the claim are parameters; proofs only |
| `FitsHduProofs`, `HeaderProofs`, `FitsReaderProofs` | | the theorems about one HDU, about FITS headers, keywords and the XML of an XISF header, about a FITS session |
| `XisfBlockProofs`, `BlockStreamProofs`, `XisfWalkProofs`, `XisfReaderProofs` | | the theorems about one block and its plan, about a stream of it, about the occurrence walk, about an XISF session |
| `MC...` | | the instances TLC checks |

`FitsReader` EXTENDS `FitsDecoder`, which EXTENDS `Reader` (which EXTENDS `Source`) and
`FitsHdu`. `XisfReader` EXTENDS `XisfDelivery`, then `XisfDecoder`, which EXTENDS the *same*
`Reader`, and `SubblockWalk` (over `Source` and `XisfCodec`) and `XisfDocument` (over `XisfImage`
and `XisfKeywords`). `Reader` knows nothing of either format, and both compositions are shown to
implement the same `FrameSession`. `BlockStream`, `KeywordFold`, `XisfWalk` and `XmlHeader` check
a part of this by itself, where its own cases can be enumerated.

**Steps.** `pc` is `"idle"` between public calls. A call either returns in its first step or
leaves in `pc` the decoder method it waits for; the decoder's steps end with the matching
`...Returns`. A loop iteration is a step: `walk` and `read_next_hdu` alternate in
`next_image`, and a `for_each_chunk` or tier-2 call asks for row after row. No other call
interleaves with a call, as `&mut self` guarantees; what interleaves is the environment: an I/O
error, or the end of the bytes, at any step.

**Bytes.** A FITS file is its HDUs, each with the offset it starts at, its header's length and
its cards. The decoder is never told where an HDU is: `NextHdu` looks for one at the cursor, and
at any other offset the bytes fail to parse. A chunk records the offset its row was read *from*
and the destination it goes *to*. An XISF unit is its document and how many bytes its source
holds. A byte is a *name* for itself: the byte of the file at an offset, the k-th byte of an
embedded block, or the k-th byte a codec gives for a pair. A delivered sample is the sequence of
the names of its bytes, so a misplaced, stale, unshuffled or swapped byte shows whatever the
samples hold. What each image really shows is written beside the unit by hand (`shows`), and only
properties look at it. An assumption that every run evaluates compares it with `Pictured`, the
image told from the pairs of its block and the places its storage gives the samples.

**Attributes and cards.** A text is given as the fields it splits into, a number that does not
parse being `None`. A qualified name, a keyword's value and a digest are small symbolic values.

**Codecs** (zlib, zstd, lz4) are external. A pair's content is `[output, ends, needs, window,
kept]`: every byte the codec can give, whether it then ends rather than refuses, how many stored
bytes that takes, whether its frame declares too large a window, and whether it is a zstd frame
that stops before its end with all it gave kept back in its window. How far a codec reads ahead is
left open, so no property rests on it. Right, short, long, refused, oversized and unfinished
contents all occur in the instances. What a codec makes of a pair is a fact about the bytes, so
both routes read the same content; what the *code* makes of it is modelled on each route from its
own lines (`PullFramed` from `fill_upto`, `DecodePair` from `decompress`), and an unfinished frame
is where they part (see Findings).

**Two histories** are not the code's: `stream`, the chunks the current cursor delivered, and
`broken`, that a FITS walk ended on an error. No action of theirs reads them. `XmlDocument`
keeps the document as it was written in `written` and `open`, for the properties alone.

**Slips.** An operator whose name starts with `Slip` is not part of any specification here. It
is the definition that follows it with a plausible mistake in it (a dropped guard, a counter
tested early, a reset left out), and documents that the property named with it in
`PROJECT.json` notices that mistake.

## What the runs check

| Run | Checks | Shows |
|---|---|---|
| `fits_session` | `TypeOK`, `AlignedWalk`, `EveryImageOnce`, `StreamIsExact`, `WholeImage`, `CallDiscipline`, `HeaderIsCurrents`; `PoisonHolds`, `ConfigurationScoped`, `KeepsThePromise`, `CallReturns` | any order of calls, either source, files whole or cut, an I/O error at any step; refinement; liveness |
| `fits_caps` | `CapsHold`; `BoundedAdvance` | the same, and a file of longer rows, under caps that some file exceeds, each of them |
| `fits_sizing` | `SizedExactly`, `SamplesInsideUnit`, `DecodableIsReadable` | the readings of one header agree, over all small headers |
| `block_stream` | `RowsAreTheBlocks`, `SameBlockEitherRoute`, `CutShortIsNoticed`; `FailedOpenIsEmpty`, `StreamEnds` | every small compressed block, whole or cut, streamed against materialized |
| `keyword_fold` | `FoldsLikeTheStandard`, `CapAppliesToBoth` | every header of up to five records, from cards and from elements |
| `xisf_walk` | `MemoIsInvisible`, `PropertiesInDocumentOrder`, `OnePastTheCap`, `GranularityMatchesThePath`, `PairsTileTheBlock` | documents with shared elements, and every small image element |
| `xisf_session` | `TypeOK`, `StreamIsExact`, `WholeImage`, `EndMeansVerified`, `HeaderIsNeverPixels`, `UnverifiedNeverDelivered`; `KeepsThePromise` | any order of calls over XISF units of every kind of block, with an I/O error at any step |
| `xisf_caps` | `CapsHold`; `CallReturns` | the same under caps that units exceed, in a build without checksums |
| `xml_header` | `ForeignNeverBare`, `TreeIsTheDocument`, `AcceptedIsWhole` | headers written tag by tag, cut anywhere |
| `fits_stale_header` | `NoHeaderAfterTheEnd` (violated) | finding 1 |
| `fits_no_groups` | `AlignedWalk` (violated) | finding 2 |
| `keyword_comment` | `LastCommentElseFirst` (violated) | finding 3 |

The properties, in words. Of a session over FITS:

- `AlignedWalk`: a header is read only at an offset where one stands (or where the data
  ends), whatever was read, dropped or failed before.
- `EveryImageOnce`: advances and image positions correspond; a walk that reached the end
  missed none.
- `StreamIsExact`, `WholeImage`: what a cursor delivered is a prefix of the rows selected,
  each from its own bytes and within the source; and all of them when the decode says so.
- `CallDiscipline`: what each point of a call relies on holds there.
- `HeaderIsCurrents`: the header shown is that of the HDU pixels would be read from.
- `PoisonHolds`, `ConfigurationScoped`: a failed decode delivers nothing more; configuration
  neither changes while pixels are read nor survives its image.
- `CapsHold`, `BoundedAdvance`: the caps, as what can be observed. An advance steps over a
  bounded number of HDUs and, on a source that cannot seek, each step of it reads a bounded number
  of bytes. A tier-2 decode is held to the bytes its destination really takes: those of the samples
  in `read_samples`, four each in `read_image`, which the cursor tells apart.
- `KeepsThePromise`: the reader implements `FrameSession`, the contract without a format.
- `CallReturns`: every call returns.

Of a session over XISF, beside the same ones:

- `StreamIsExact`: each chunk is its own row, sample by sample and byte by byte, once, out of
  planar or interleaved storage, streamed or whole, shuffled or not, shared or not.
- `EndMeansVerified`: a decode that read all of a block and ended had every pair of it end where it
  said; one that did not read all of it is not refused for what it did not ask for.
- `HeaderIsNeverPixels`, `UnverifiedNeverDelivered`: no sample from the header or past the source;
  none of a block whose digest was not found right.
- `CapsHold`: neither side of a pair held whole, its stored bytes and what they decode to, is past
  `materialized_bytes`, nor either side of a block materialized, nor a staging row.

Of the parts:

- `RowsAreTheBlocks`, `SameBlockEitherRoute`: a streamed block gives its own bytes in order, and
  ends in the result and the bytes the materialized route gives, but for the one kind of pair named
  `Unended`. `CutShortIsNoticed`: never in success over a source without a byte that some pair
  cannot be decoded without, delivered or not (`Needed`: of a framed pair what its codec needs to
  its end, of any other all that is stored). `FailedOpenIsEmpty`: a pair that failed to open leaves nothing
  to read. `StreamEnds`: it ends.
- `FoldsLikeTheStandard`, `CapAppliesToBoth`: both keyword folds give the standard's list, and one
  refuses a header exactly when the other does, which is when a value grows past the cap.
- `MemoIsInvisible`: each occurrence reads as though nothing was read before it, refusals included.
  `PropertiesInDocumentOrder`: one split index is enough to merge a document's and an image's.
  `OnePastTheCap`: the walk keeps one occurrence too many, so that the reader can refuse it.
- `GranularityMatchesThePath`: what the header reports is what the decoder will do.
  `PairsTileTheBlock`: accepted pairs add up to the stored and the decoded size in true integers.
- `ForeignNeverBare`: a name is a core one only when its prefix says so in its own scope.
  `TreeIsTheDocument`: every element has its own children and its own text. `AcceptedIsWhole`: a
  header that stops early is refused.

**Bounds of the FITS runs, and why they are enough.** `BLOCK` is 4 rather than 2880, so a data
unit has padding that matters with three bytes in it; `MaxU` is 255 (254 for sizing, where a sum
that fits and a rounding that does not must both occur). Four files (`MCFitsReader`) hold every
kind of HDU the walk distinguishes: an image in the primary, a table with a heap, an `IMAGE` with
no axes, two channels, a header of two blocks, an inherited `BSCALE`, a tile-compressed table and
random groups (declined positions), an extension of unknown size, one decodable but of unknown
size, and a damaged header. Each is given whole and cut: inside a header, inside a unit, at a
row, at a boundary. One I/O error (`MaxFaults = 1`) may strike at every step; a
second one meets states the first already leads to, as no operation counts errors.
Channel numbers go one past the single channel, up to the second of two. `Roomy` caps let every
decode through; `Tight` caps are each exceeded by some file. Their output cap is 5 bytes, so that an
image of three one-byte samples passes in `read_samples` and not in `read_image`, and `fits_caps`
adds a file (`Large`) whose first image exceeds it in either and whose second has a sample too many.
`fits_sizing` enumerates every header of up to three `NAXISn` over small values that read, do not
read, are negative, zero, in range and past it, with integer and floating-point `BITPIX` of four
widths; its deadlock check is off because a header ends being written.

**Bounds of the XISF runs.** In sessions the preamble is two bytes, a header four, `MIN_HEADER`
three and `MaxU` 255. The units (`MCXisfReader`) are one for each way a block can be kept: plain
interleaved and planar, stored before or behind another, shared by a `Reference`; split over pairs
that rows straddle, with a last pair that owes nothing and is sound or not; one zstd frame that is
exact or a byte too long; lz4 held pair by pair, and whole; shuffled behind a digest that matches
or not; embedded, of the right size or not; an attachment inside the header or of the wrong size;
a frame that owes nothing and never ends; lz4 pairs whose stored or decoded side alone is past the
cap; and the headers that are refused. Geometries have at most two rows and two channels: the counters
that could part (row wanted, row held, row streamed) already part there. `xisf_caps` has caps of a
few bytes, each of which some unit meets.

`block_stream` enumerates blocks of one to three pairs of up to two stored and two decoded bytes,
with every content around exact and frames that never end, for a codec of each container shape, every row length that
divides the block, and sources ending up to two bytes early. `keyword_fold` draws five records
(`MaxRecords`) from twelve that have no, one or several trailing `&`, blanks and doubled quotes,
under a cap (`ValueBytes = 4`) that some chains meet exactly and others pass. `xisf_walk` starts
from documents of up to five root children, four of them images under a cap of two, over seven
shared elements, and from single images of
every combination of a few shapes, places, packings and digests, whose subblock list a step then
writes pair by pair, up to three, past the cap of two; `MaxU = 31` makes sums of two pairs
overflow. `xml_header` has up to four elements, three deep, from seven tags that bind, shadow,
undeclare and misuse prefixes and five that are refused, two pieces of character data (`MaxPieces`), so that
one element's text is broken up by a child or a reference, and an end at any point; its deadlock check is off because a parse ends.

**Assumptions on files.** A FITS session starts with a reader that was built: a primary header
that parses with `SIMPLE = T`. HDUs stand where their sizes put them, which the instances write out
by hand instead of computing with the decoder's formula. Files with `GCOUNT = 0` images are left to
`fits_no_groups`, since with them `AlignedWalk` is false of the code and the rows delivered,
though at the offsets `StreamIsExact` names, are other HDUs' bytes. An XISF session starts before
the first byte is read, and construction is an action that may fail.

**Fairness.** Weak fairness of the decoder's steps only (`DecoderStep` of `FitsReader` and
`XisfReader`, `Step` of `BlockStream`): inside a call the code is a loop that runs until it returns,
and nothing else can run meanwhile. Nothing is asked of the caller, who may stop at any moment
between calls, nor of the source.

## What is proved

For every set of files or documents, every cap, every block and row size, every width of u64, any
number of faults and channels, and any order of calls. The runs show each property on small
instances; the theorem of the same line is the general statement.

| Module | Theorem | States |
|---|---|---|
| `FitsReaderProofs` | `TypeCorrectness`, `CallsAreDisciplined`, `HeaderNeverMisleads` | `Spec => []TypeOK`, `[]CallDiscipline`, `[]HeaderIsCurrents` |
| | `FailedStaysFailed`, `ConfigurationKeepsToItsImage` | `Spec => PoisonHolds`, `ConfigurationScoped` |
| | `RowsAreExact`, `ImagesAreWhole` | `Spec => []StreamIsExact`, `[]WholeImage` |
| | `CapsAreKept` | `Spec => []CapsHold` |
| | `StepsAreBounded` | `Spec => [][BoundedStep]_vars`: the half of `BoundedAdvance` that holds of any file |
| | `WalkIsAligned`, `ImagesAreReportedOnce`, `AdvancesAreBounded` | over conforming files, `Spec => []AlignedWalk`, `[]EveryImageOnce`, `BoundedAdvance` |
| | `ReaderKeepsThePromise` | over conforming files, `Spec => KeepsThePromise`: the reader implements `FrameSession` |
| `HeaderProofs` | `EverySizeIsExact`, `DecodableHeadersRead`, `DecodesStayInside` | `SizingSpec => []SizedExactly`, `[]DecodableIsReadable`, `[]SamplesInsideUnit`, for cards that say any integers or do not read, every `BITPIX` and any number of axes |
| | `FoldsAlways`, `CapAlways` | `Spec => []FoldsLikeTheStandard`, `[]CapAppliesToBoth`, for any records, any number of them and any cap |
| | `ForeignIsNeverBare`, `TreeIsAlwaysTheDocument`, `AcceptedIsAlwaysWhole` | `DocumentSpec => []ForeignNeverBare`, `[]TreeIsTheDocument`, `[]AcceptedIsWhole`, for any start tags, nested any way |
| `BlockStreamProofs` | `SameBlockAlways` | `Spec => []SameBlockEitherRoute`, the exception it names included |
| | `RowsAlwaysTheBlocks`, `CutShortAlwaysNoticed`, `FailedOpensAreEmpty` | `Spec => []RowsAreTheBlocks`, `[]CutShortIsNoticed`, `FailedOpenIsEmpty` |
| `XisfWalkProofs` | `MemoInvariance`, `MemoIsNeverSeen` | `Spec => []MemoInv`, `[]MemoIsInvisible`: every occurrence is what its image says when read alone |
| | `PropertiesAreInOrder` | `Spec => []PropertiesInDocumentOrder` |
| | `OnePastTheCapAlways`, `GranularityAlwaysMatches`, `PairsAlwaysTile` | `Spec => []OnePastTheCap`, `[]GranularityMatchesThePath`, `[]PairsTileTheBlock` |
| `XisfReaderProofs` | `TypeCorrectness`, `CapsAreKept`, `SamplesAreNeverTheHeader`, `SamplesAreAlwaysVerified` | `Spec => []TypeOK`, `[]CapsHold`, `[]HeaderIsNeverPixels`, `[]UnverifiedNeverDelivered` |
| | `StreamIsAlwaysExact`, `EndedImageIsWhole`, `EndsAreVerified` | `Spec => []StreamIsExact`, `[]WholeImage`, `[]EndMeansVerified` |
| | `EndsAndCounts` | only a finished decode that did not fail answers "end", and the positions counted are those passed |
| | `ReaderKeepsThePromise` | `Spec => KeepsThePromise`: the reader implements `FrameSession` over XISF too |
| `XisfBlockProofs` | `UnshufflingPermutes` | the index an XISF block is unshuffled through is a permutation of the block's offsets, for every length and item size |
| `Folding` | `FoldOfOneMore`, `FoldKeeps` | a fold over n + 1 elements is one step on the fold over n; a claim every step keeps holds of the whole fold |

**Assumptions.** Those the modules name, and TLC evaluates each on every run of a module that
extends them. Most are weak: `None` is none of the values it is an alternative to (numbers,
geometries, places, pairs, byte strings, decodes under way), `BLOCK`, `MaxAxis` and `MaxU` are
positive, caps and offsets are naturals, a file has a primary HDU, its HDUs start at natural offsets
and no two at the same. Seven say what the inputs are:

- `FilesConform`, a hypothesis of the theorems about the walk: HDUs stand where their sizes put
  them, and an `IMAGE` has `GCOUNT` at least one. `SessionsConform` evaluates it on the files of
  `fits_session` and `fits_caps`; `fits_no_groups` shows the theorems fail without it (finding 2).
- `DocsAssumption`, of `XisfWalk` and `XisfReader`: `ConformingDoc`, a tree of elements under
  `xisf`, numbered in document order as the parser numbers them (`InDocumentOrder`), whose
  attributes are split into u64 fields or fields that did not read. What they say is unconstrained.
- `PlansAssumption`, of `BlockStream`: `ConformingPlan`, an attachment in pairs that add up to its
  stored and decoded sizes. `ReadSubblocks` refuses any other, which is what `PairsAlwaysTile`
  proves of the plans the walk makes.
- `NumbersAssumption`, of `FitsSizing`: a number card says an integer or does not read.
- `ShowsAssumption`, of `XisfReader`: a unit says something of every occurrence beside its document,
  and what it says of one whose block lies past the header and has the size its image implies is
  `Pictured(plan)`: each sample is made of the bytes the block holds where its storage places it,
  the image is sound when every pair of its block is exactly what it declares, and trusted when its
  digest, if it has one, is found to be that of the bytes. `Pictured` reads no row, keeps no cursor
  and knows no order: it shares with the decoder the index of `unshuffled_byte`, which the runs
  check against planes written out by hand, and, for the few blocks that are embedded *and*
  compressed, `Decompress`.
- `RecordsAssumption`, of `KeywordFold`: a record is no `END` card, which ends a header and is none
  of its records, and its text is a sequence of symbols.
- `TagsAssumption`, of `XmlDocument`: a name is one part or more, as splitting at colons gives them,
  and a tag has a sequence of attributes. Which names, prefixes and values is unconstrained.

Others say that alternatives differ: no run of samples is `None` (`NoRunAssumption`), no name of
an element is (`NoNameAssumption`) and not the XISF namespace (`XisfAssumption`), nor anything a filter array, a resolution or a display function
reads as (`NoReadingAssumption`), no text of a record and no chain of a fold (`NoTextAssumption`,
`NoChainAssumption`), and no error that declines a position is called `"end"`
(`DeclineAssumption`).

**The FITS session.** The inductive invariant is `IInv == TypeOK /\ CallDiscipline /\
HeaderIsCurrents`. `TypeOK` alone is not inductive: a row's channel is a quotient by the
height, a number only when the image is decodable. That follows from the cards
(`DecodableAxes`: a position with no fault that has a geometry has no empty axis), if the header
in force was built from those cards (`HeaderIsCurrents`) and not declined
(`CallDiscipline`). The proof has one lemma per operation of the source (an outcome is
*fair*: it leaves a natural offset, and an I/O error only while one may occur), one per helper
of the decoder, one per action, and `NextPreserves` collects them. The action properties
follow from the invariant: only steps inside a decode add to a stream, which a failed
decode never reaches; only steps inside a walk change the image, where nothing is
configured.

A decode keeps its position three times: as the rows counted (`next_file_row`), as the cursor
and as what the caller was given. `SInv` strengthens `IInv` to say they agree: an HDU held was
parsed where the file has it (`Located`), the plan of a decode is the current image's and its row
counter is the length of the stream (`Planned`), the stream is that many chunks of the image
(`Delivered`), and only a decode that delivered all of them said it ended (`Ended`). The step that
matters is `NextChunkIsRight`: the row read is the next chunk of the image, in its channel, from
its bytes. It rests on where a successful read leaves the cursor (`ReadExactLands`, `SeekToLands`,
`ReadRowLands`, `NextHduLands`). Neither theorem needs HDUs to stand where their sizes put them: a
walk that went astray would still decode nothing but what it parsed a header for. `CapsAreKept`
adds to `SInv` that a decode under way passed its refusals (`Capped`), the tier-2 ones with the
bytes of the destination each call fills. `StepsAreBounded` adds `Counted`: while the walk runs it
has stepped over no more than its cap. It asks nothing of the file either. What does need
`FilesConform` is that the positions counted are the HDUs the file has, which `AdvancesAreBounded`
adds.

The decoder keeps no offset of the next header: it computes one from the image it sat on,
wherever pixel work left the cursor. `WInv` ties the three together. While the walk runs,
`traversed` counts the HDUs passed since that image, none of them an image (`Strides`); while an
image is sat on, the cursor has not passed the end of its data unit (`Parked`), which holds because
what a decode reads lies inside the unit. The last is a fact about one header
(`SamplesInsideUnit`): the size the walk steps by is a saturating fold over all axes with `PCOUNT`
and `GCOUNT`, and the rows are products of at most three of them. The refinement maps a step of the
walk that reaches an image to `Advance`, a delivered row to a chunk of the frame, the answer `"end"`
to the end of a stream, and every other step to a stutter.

**One header.** `Elements` multiplies in u64 and gives up for good as soon as a product leaves it.
`MulsAreExact` relates this fold, after every axis, to the one over the integers: what was not given
up is the product, of axes that all read; and when no axis is empty, it was given up only because
the product is too large. The second half does not hold with an empty axis, which may stand after
the product left u64; `SizedExactly` says so. From there `CheckedIsExact` and `ExactIsChecked` are
the two directions for PCOUNT, GCOUNT and BITPIX, `WidthIsBits` takes the bits of a sample to its
bytes, and `PaddedIsLeast` is the rounding. `DecodableHeadersRead` uses this the other way round:
no axis of a position that decodes is empty, so its size is not nothing, and can be missing only
when it passes u64 or a count of its extension does not read as a positive number.

**Keywords.** `Standard` is told of a whole list of records: which of them fold into the one before,
the text assembled at each, and the keyword each of the others begins. The two folds see one record
at a time and keep different things. The one over cards holds the text of the open chain as it
grows. The one over elements holds only how long that text would be and how many `&` it ends with,
and builds it once, when the chain closes, out of the records it began and ended with. `FitsHolds`
and `XisfHolds` say what each state stands for, in terms of the records read: the keywords so far
are the standard's, but that the last may be missing its text while a chain is open (`Agrees`), and
the chain is the text assembled (`FitsChain`), or its length and its `&` (`XisfChain`). So the
standard has to be told one record further: what a record more changes is the last keyword or one
after it (`StandardFolds`, `StandardGrows`), and a keyword already closed stays as it is
(`HeadingStays`). The counts of the second fold are those of the text because of one arithmetic
fact about a text that is cut by its last `&` and continued (`JoinedText`, `TextCounts`), and
`TakesAll` is the text built late. Both fold a record in where a chain is open and nowhere else
(`FoldsWhere`), hence refuse together.

**The XML.** The code keeps no scope per open element: one list of bindings, a map from each prefix
to its innermost one, what each binding shadowed, and where each element's bindings start. That this
answers as the declarations around an element do is `DocumentInv`, of three parts. `WellBound`: the
map holds the last binding of each prefix, and what a binding shadowed was the last before it, so
that undoing bindings one by one from the end leaves the map of the ones that remain (`Undone`).
`Segments`: the list is cut by the marks into the declarations of the open elements, in order.
`Standing`: the stack is the path of the innermost open element. From the first two, `Resolves` finds
the element of the binding a prefix leads to: no element further in declares that prefix, and one
element declares it once, since a tag that writes a key twice is refused. `TreeOf` says the nodes are
the elements written, with their children and text; the step that matters is a new element, which is
the child of the innermost open one and of no other (`ChildOf`), since its path is theirs and itself.
A tag that is refused ends the parse, and the document is dropped with its bindings.

**Blocks.** A compressed block is a list of pairs that a walk opens one after another, through a
codec that reads ahead by amounts left open. `Tells(p, w, done)` says where a walk stands: the bytes
taken so far are those of the pairs before the open one and the beginning of what that one gives,
the stored bytes left and the decoded bytes owed are what the pair still has, and the next pair
begins where this one ends. One lemma for each operation (`PullsYield`, `OpenLands`,
`AdvanceMoves`...) shows that it moves from one such place to the next or fails. `BInv` of
`BlockStreamProofs` is this, with `done` the rows delivered and the staging row.

`SameBlockAlways` compares two computations, and each has to be said in the same terms: the pairs.
`DecompressedIsStated` and `Saying` say of the materialized route that it gives what all pairs
state, or the refusal of the first that is bad (`FirstBad`). `Reasoned` says of the streamed one,
beside `BInv`, that a walk which failed with the block in hand and no fault of the source failed at
its open pair, and that this pair is the first bad one (`Blamed`). The two routes do not ask the
same of a pair: `Holds` is what a stream takes of it, `PairDecodes` what `decode_pair` does, and
they differ for an `Unended` one, on which the theorem makes its exception (`FirstRefused` is the
first the whole-block route refuses). `Blamed` needs `Calm`: a source that
holds the whole block and does not fail gives every read that stays inside it, so that nothing but
the content of a pair is left to blame. The caps that only the materialized route tests are excepted
by name (`Uncapped`).

That a cut is noticed is about bytes nobody may have been handed. `Provided` says that of every pair
left behind the source held what it needs (`Supplied`), and of the open one that what was read of it
was there (`Drew`). A stored pair was read to its length; a held one was read whole when it was
opened, also one that owes nothing; a framed one has read what its codec needs by the time it gives
its last byte or says it ended, which `require_end` makes it do. `finish` takes the walk through the
pairs past the last row, so that the claim is of all of them.

**Documents.** `Planned(o)` says what is known of an occurrence with a plan: its geometry, format,
granularity and place are those the header states, its pairs add up in true integers, and each
carries its codec's content. It is proved of everything `BuildOccurrence` returns, a decline at a
time, and carried through references, memo hits and the merging of properties (`Walked`).
`WalkInv` adds the count of images passed, from which `OnePastTheCapAlways` follows.

That the memo is invisible relates the walk to one that never ran: each image read by itself, with
an empty memo (`Fresh`). `MemoInv` adds to `WalkInv` that every occurrence built so far, kept or to
be handed out again, is that of its image (`Recalls`), that a refusal is an image's own, and that
the memo is *honest*: what it holds of an element is what reading the element alone gives
(`HonestOf`). For a keyword, a property or an ancillary element this is one equation. For a chain it
is not: the memo keys a chain by the elements it was assembled from, and what the assembled keyword
says depends on how the records were joined. `HonestChains` says that a chain remembered under a key
is the one its elements give (`ChainOf`), however its image came by them. From there the argument
goes up the calls of the code. A fold over an image's records that consults an honest memo stands,
after every record, where the fold without one does (`Turn`, `Memoed`), and adds only honest entries
(`FoldsAsAlone`); the delicate case is a record that a Reference reached inside a chain that began
without one, which must neither be looked up nor be remembered. Collecting an image's children
(`CollectReads`) and the document's properties (`SharedReads`) keep the memo honest, and so does an
occurrence (`BuildsFresh`), a turn of the walk (`RecallsTurn`) and a hit among the occurrences.

`PropertiesAreInOrder` needs where elements stand and not what they say. What is shared ascends,
because the `Metadata` elements are children of the root and their children stand between them
(`MetadataAscends`); an image's own ascend, and none of the shared ones stands among them
(`OwnAmongShared`), because no `Metadata` is inside an image. So one number, how many of the shared
stand before the image (`SplitCounts`), says where the image's own go (`Interleaved`). A Reference
has the position of the reference and not of its target, without which this would be false.

**The XISF session.** The inductive invariant is `RInv`, of five parts. `Grounded`: the occurrences
are what the constructor made of the unit, and the header is that of the one sat on. `Disciplined`:
what a call has checked before it comes to a point; a pixel phase under way passed `PixelRefusal`,
and `begin_pixels` found the row, and the block when it is held whole, under `materialized_bytes`
(`Fits`), and its digest, if it has one, to be right (`Vouched`). `PixelsHeld`: a decode, also one
that a failure or a dropped cursor left behind, holds no more than its plan says, none of it header
or past the end (`Sits`). `Underway`: the decode of an image being read is that image's under the
channel selected, and a compressed stream has told a beginning of its block (`Told`). `Delivered`:
none of what was handed over is header, or past the end.

None of the theorems is inductive by itself. That a staging row stays within a row needs `Sized`:
the row, the block and the total are saturating products, and an image whose total times a sample's
bytes fits u64, which is what `PixelRefusal` tested, is one where nothing saturated
(`SizesAreExact`). That a block held whole has the length implied needs the pipeline
(`PipelineFits`): `decompress` is a fold over pairs that add up, by `Folding`. That no sample comes
from the header needs every read to land where it was asked (`Lands`), the attachments inside the
header to have been refused (`Stands`), and every index a sample is cut through, unshuffled or not,
to lie inside what is resident: `RunStaysInside`, out of `validate_row_range`, and
`UnshufflingPermutes`. That the last chunk, kept back until `finish`, is still in hand when the
trailing pairs have been walked is `InHand`. That nothing is handed over unverified needs a block
with a digest never to be streamed, and the pipeline to verify before it decompresses. There is a
lemma for each action, `InitRInv` for the constructor, and `NextKeeps` collects them.

`RInv` says that what is handed over was a beginning of the right bytes; which chunk it is takes
three counters more. A decode counts the chunks asked for (`chunks_done`), the line of the block it
holds (`raw_row`) and the lines a compressed stream has yielded (`stream_row`), and the caller
counts what it was given. `ExactInv` has two parts, over `RInv`. `Exactly`: a block held whole is
`BlockBytes` and was sound, a line held is that line (`HoldsItsBlock`); a stream stands right after
the line of the last chunk, before the line of the next while that one is being fetched, and past
all of them while the end is being verified, and then every pair has told all it states (`InStep`);
the caller has every chunk counted, but the one `finish` keeps back (`Handed`). `Promised`: the
chunks delivered are the first of the image `Pictured` for the channel selected. The step that
matters is `CutIsShown`: a sample cut from what is resident is the one `RowShown` names. It rests on
`LineIsPlaced` (a line is its part of the block, whichever route it came), on `LinesClimb` (the
chunks of a decode, narrowed to a channel or not, want lines in the order of the block, so that a
stream never has to go back), and on `DecompressedIsStated` (a block materialized in one go holds
what its pairs state one after another, and all of them were exact). `InStep` of a finished decode
gives `EndMeansVerified`: one that yielded all the lines is sound, one that stopped early promised
nothing.

The refinement maps the walk to the next image to `Advance`, past the last one to `End` or a
stutter, `abandon` and a call for the next image to `Leave`, a chunk handed over to `Deliver`, a
failed step to `Fail`, a cursor opened to `Open`, and every other step to a stutter. `Deliver` needs
the chunk to be the next one of the frame, which is `Promised` before and after the step. `End`
needs an answer `"end"` to come from nothing but a decode that is through: every helper down to the
codecs passes on results, and that none of them is ever called `"end"` is a lemma for each
(`...NeverEnds`), an induction for `decompress`. `Ended` and `Counted` collect this.

**Folds.** The prover has no induction rule that takes an operator, and a fold is defined by
`CHOOSE` over a recursive function. `Folding` proves the two facts that stand in for one, of `Fold`,
which is `FoldLeft` of the sequence library with its definition expanded: the proofs that use it
expand `FoldLeft` to meet it. The step is a CONSTANT of the module, so that a proof about it is
first-order, and the induction is the well-founded one over a *set* of counterexamples: the least
number of elements for which the claim is wrong is neither none nor one more than a number for which
it is right. Each use is an INSTANCE with its own step and claim: products of axes, sums of pairs,
images among children, the bytes of pairs.

**The shuffle.** `UnshufflingPermutes` is about the formula of `unshuffled_byte` and not about a
run: an offset below the last complete item is a quotient and a remainder, the index is their
transposition, and `DivisionIsUnique` says the two determine it; the trailing bytes stay in place.
It is what lets the code skip a second bounds check.

**Only model-checked.** Liveness (`CallReturns`, `StreamEnds`), which is out of the prover's reach.

The theorems of `XisfWalkProofs` are about the specification `Spec` of `XisfWalk`, for any
documents. The run `xisf_walk` checks the same properties under `HeaderSpec`, which first writes
the subblock list pair by pair so that TLC meets every short one.

## Findings

1. **A header after the end** (`fits_stale_header`). When an advance fails, the FITS decoder
   sets `position = Done` and keeps `header` and `current`. The next `next_image` returns
   `Ok(false)` from its early return, and `current_header` still answers with the last
   image, which a seekable source will even decode. The documentation of `current_header`
   says `InvalidRequest` after the call that reported end of source.
2. **No groups** (`fits_no_groups`). An `IMAGE` extension with `GCOUNT = 0` is not declined; its
   data unit is empty and its axes are not. Its rows are read from the HDUs behind it, and
   the walk, which only ever skips forward, resumes past the next header.

3. **Whose comment** (`keyword_comment`). The comments on `fold_records` and `close_chain` in
   `xisf/keywords.rs` say an assembled keyword takes the last continuation's comment when it has
   one and the opening record's otherwise. The code keeps the last continuation comment that is not
   empty, so an earlier continuation's wins over the opening record's. `fits/cards.rs` does what
   the comments say, so the same records give two different keywords. The documentation of the
   field `comment` of the chain describes what the code does: the sources disagree with each other.

**An unfinished frame, either route.** The streamed and the materialized route of a compressed block
disagree on one kind of block, and `SameBlockEitherRoute` says which instead of leaving it out. Take
a zstd pair that owes no bytes whose frame does not end, its blocks' output all kept back in the
window. `decompress` drives `zstd_pull` (`xisf/codec.rs:440`) until the frame ends, meets the end of
its input and refuses the block as `Malformed`. A stream asks the pair for one more byte in
`require_end`; `fill_upto` (`xisf/codec.rs:971`) collects nothing, sees the stored bytes used up and
returns short without an error, which `require_end` takes for the end. The design document says a
pair is decompressed "to exactly `u` bytes, and the codec must end there, or the block is
`Malformed`" (`docs/design/2026-08-18-astroframe-library.md:2803`). No sample is wrong for it: the
pair owes none. It is the exception of `SameBlockEitherRoute`, in the runs (`Kept` of
`MCBlockStream`, `Unfinished` of `MCXisfReader`) and in the theorem.

Also seen, and not contradicting any document: an `abandon` that fails (an image whose data
unit has no size) is repeated by every later `next_image`, while the same failure
without pixel work ends the walk; the image that trips `images_per_source` stays current and
readable after `LimitExceeded`; a sequential source may retry a decode whose first failure
consumed nothing.

## Not modelled

- Construction errors of FITS and the format sniff (a constructor that fails leaves nothing to
  check); feature flags other than `checksum`; narrowing to `usize`.
- What a failed read leaves in the operating system's stream. The model follows the
  program's own cursor and takes the stream to stand where that cursor says.
- Bytes that are no FITS header yet read as one: at a wrong offset the model always fails.
- Sample values and normalization: IEEE arithmetic on one sample, with no state, which neither TLC
  nor the provers can do. The sampling *positions* and byte order are modelled.
- The syntax of numbers, dates and booleans (`scalars.rs`, the lexing of a card): pure text.
- The XML reader (quick-xml) and the codecs: external, as used. The 4 GiB limit of interned text.
- The option builders, and the metadata a header only reports and nothing later depends on.
- Tests, fuzz targets, examples and tools.

## Plan

The modules planned are written. A session, over FITS and over XISF, and each of the parts is proved
but for liveness. The parts left under "Not modelled" keep no state, or fail before there is any.
