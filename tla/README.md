# J2KPayload: TLA+ models, checks and proofs

J2KPayload receives a JPEG 2000 (HTJ2K) video stream as RTP packets over UDP
(the payload format with resynchronisation points), parses the code stream of
every frame while it arrives, and tells how far it got. This directory models
the receiving program `j2kpay` (`src/main.cpp` and what it calls): the ring
between its two threads, the packet loader with its loss recovery, the loop
that drives the parser, the start and end of the threads, and the parser
itself, from the bit reader to the table of precincts. It also models the
sender `RTPsender2`, how the diagnostic tools find frames in a recording, and
the command line parser all programs share.

Paths below are relative to `src/`.

## 1. Inventory

| component | state | operations | modules |
|---|---|---|---|
| leaky bucket ring, `source/leaky_bucket_buf.hpp`, `leaky_bucket_buf/buf.cpp` | a circular list of slots (bytes, `data_size`), `next_write`, `next_pop`, `current_num_data`, a mutex and a condition variable | `receive`, `inspkt`, `push` (receive thread); `pop`, `dest` (analysis thread); `get`, `clear` (no caller) | `LeakyBucket`, `DropOldestQueue` |
| UDP sockets, `source/UDP.hpp` | a socket, one `msghdr` | `recvmsg`, set-up | outcomes of `recvmsg` in `LeakyBucket` |
| RTP receiver, `source/RTP_header.hpp`, `netio/RTP_header.cpp` | `j2k_packets` (at most 16 segments), `pos`, `PID`, `pre_sequence_number` | `load_main_packet`, `load_body_packet`, `terminate`, `pop` | `RTPReceiver`; `pop` in `BitReader` |
| analysis thread, `main.cpp` 263-503 | `table_index`, `analysis_frame`, `img_clock`, the tile and its table of precincts | main header, the loop over `load_body_packet` results, `frame_update`, `buffer.dest` | `AnalysisThread`, `DecodingUnit` |
| receive thread, main, signals, `main.cpp` 51-55, 511-616, `stop_j2kpay.cpp` | `sig_flag`, `frame_delay`, `img_inc`, `analysis_stoper`, the promises `first_mhd_prm` and `frame_delay_prm` | receive loop, period measurement, Enter, `-d`, SIGINT, joins | `Lifecycle` |
| bit reader `J2kBuf`, `source/codestream.hpp`, `codestream/j2kbuf.cpp` | the payload at hand, byte and bit position, the last byte | `get_bit`, `get_byte`, `step`, `r_fill`, `check_FF`, `make_packet_data` | `BitReader` |
| packet header, `decoding/decoding_unit.cpp` 10-116 | lengths and missing bit planes of code-blocks | `read_packet_header`, `read_packet` | `PacketReader` |
| marker segments, `codestream/marker.cpp` | the parsed main header | `MainHeader2::read`, the getters | `MainHeader`, `Profile` |
| tile geometry and precinct table, `decoding/decoding_unit.cpp` 118-366 | components, resolutions, precincts, `table` | `init`, `build_table` | `TileGeometry`, `PrecinctTable` |
| memory resources, `mem_resource.hpp` | an arena per type | `prev_allocate`, `do_allocate` | `PrecinctTable` |
| RTP sender, `RTPsender2.cpp`, `source/RTPsender2.hpp`, `wrap_number.hpp` | a recording in memory, the place in it, numbers, counters of losses | restamp and send, twelve commands | `RTPSender` |
| diagnostic tools, `RTP_show.cpp`, `file_parse.cpp` | - | finding a range of frames | `FrameScan` |
| argument parser, `source/argument.hpp` | sorted option tables; the word at hand | searches, `getopt`, getters of numbers and lists, the help page | `ArgumentList`, `ArgumentValues`, `HelpText`, `ArgumentParser` |
| containers, header codecs, old decoder library, measurement | - | - | by their effect, or not modelled (`PROJECT.json` says why for each) |

How they interact. The **receive thread** alone writes into the ring and never
waits for the analysis: a full ring gives up its oldest packet. The **analysis
thread** pops from it and sleeps on the condition variable when it is empty;
what it pops is a *pointer* into the ring, which `RTPReceiver` keeps until the
parser is done with the segment. `RTPReceiver` returns SUCCESS, MAIN_HEADER,
FAILURE or FINISH, or throws `buffer_leak`; the loop of the analysis thread
moves `table_index` accordingly. The receive thread tells the analysis thread
the frame period through `img_inc`, ordered by `first_mhd_prm` only, and (with
`-d`) when to begin, through `frame_delay_prm`. Main presses on after Enter
and joins the two. SIGINT is unblocked in the receive thread alone; a one-byte
packet whose RTP version is not 2 is the terminator and ends both threads.
The **parser** pulls: each read asks `RTPReceiver` for the next payload when the
one at hand is used up, and `buffer_leak` is how it hears that there is none. The
main header decides the table, the table decides how often `read_packet` is
called with how many code-blocks, and the PID of a resync point is looked up in
it. The **sender** numbers packets so that all of this works at the other end.

What is hard: the ring's unlocked writes; pointers into a ring that goes on
turning; two state machines (receiver and table) that must stay aligned
through loss, repeats, exceptions and resynchronisation, each of which moves
only a part of the state; wrap-around of sequence numbers and timestamps; five
loops that must all notice the terminator; promises set from three places;
reads that cross payloads at any byte and any bit; sizes rounded up three times
that have to agree with a grid counted another way; counters of one thing kept
in two classes; sorted tables searched by halves and by first letters.
`PROJECT.json` lists each hazard at its line with the properties that cover it.

What makes each component correct: the ring is a FIFO that loses only its
oldest elements and wakes its reader; the receiver and the loop parse each
segment as the precinct it is, and parse every frame that arrived whole;
each thread ends once the stream or the operator ended it; what is parsed does
not depend on where packets were cut; every precinct is in the table once; the
sender does what was typed and its numbers follow each other; a command line
means what is written.

## 2. The modules

```
DropOldestQueue          what the ring promises
   ^ refined by
LeakyBucket              the ring and its two threads      <- LeakyBucketProofs
RTPReceiver              packets, segments, loss recovery
   ^ EXTENDS
AnalysisThread           table, results, exceptions, dest  <- MCAnalysisThread (streams),
                                                              AnalysisThreadProofs
Lifecycle                threads, promises, signals, end   <- MCLifecycle, LifecycleProofs

Profile <- MainHeader    markers, what they move and mean
        <- TileGeometry  resolutions, subbands, precincts
MainHeader, TileGeometry <- PrecinctTable   components, build_table, memory
BitReader  <- PacketReader                  payloads, bits; one packet <- BitReaderProofs
PrecinctTable, PacketReader <- DecodingUnit one frame      <- MCDecodingUnit,
                                                              DecodingUnitProofs

RTPSender                the sender                        <- RTPSenderProofs
   ^ EXTENDS
FrameScan                frames of a recording             <- MCRTPSender

ArgumentList <- ArgumentValues, HelpText <- ArgumentParser <- MCArgumentParser,
                                                              ArgumentParserProofs

CommonLemmas                                lemmas the proofs share
```

### LeakyBucket, DropOldestQueue

Atomicity is that of the code. The critical sections of the mutex are single
steps (`Publish`, `Inspkt`, `Pop`); everything before the lock is not:
`receive` is `RecvMsg` (recvmsg fills the slot under `next_write`),
`StoreReceived` (`data_size` and `next_write`), `Publish` (the counter, and
`next_pop` when full), `Notify`. `push` writes the length, then the byte, then
counts. `Pop` is `get_impl` with `is_advance`, for `pop` and for `dest`;
`Wait` and `SpuriousWakeup` are the condition variable. `apc` says for what the
analysis thread pops: a main header ("main", where nothing catches what `pop`
throws: "aborted"), a body ("pop") or `dest`; "loop" is the head of its loop, where
`TestSigFlag` looks at `sig_flag` (`main.cpp:309`), and `Onward` where a packet may
lead. `Signal` sets the flag at any time; the receive thread sees it before
`recvmsg` (`StopReceiving`) or as `EINTR` (`RecvFailed`).
A packet is its arrival number; its bytes are present or overwritten as a
whole. `Held` stands for the pointers `RTPReceiver` keeps: the last `Held`
packets popped. `dirty`, `raced`, `tight` and `held` are history variables
and guard nothing.

The header says of `next_pop` that only `pop` accesses it
(`leaky_bucket_buf.hpp:97`); `receive`, `push` and `inspkt` move it as well,
under the mutex, and the model does what they do.

`DropOldestQueue` has three steps: `Put`, `Leak` (only when full), `Take`. The
refinement mapping reads the counted slots oldest first. A write that began on
a full ring has already destroyed the oldest packet, so the mapping drops it at
that moment, before the code moves `next_pop`. The refinement holds up to the
first time a slot is popped in the middle of being written (`raced`). After such a
race the terminator of the final `push` may be lost; that happens only behind a SIGINT
or a failed `recvmsg`, for a terminator that was received is counted whole.
`ShutdownUnlessRaced` excludes it: without a race the analysis ends, by a terminator or by
`sig_flag`.

### RTPReceiver, AnalysisThread

A stream is `Frames` repetitions of `Layout`, a sequence of packets with the
fields the code looks at: MH, ORDB, M, PID, and the chunks of data before and
from the resynchronisation point. `BufferPop` picks what arrives next, so that
loss on the network, loss in the ring and repeats are one choice, within
budgets. `LoadMainPacket`, `LoadBodyPacket` and `Discard` are one turn of the
three loops of the loader; an assertion that fails and a `push_back` on a full
vector give the result "aborted". Chunks are tagged with their frame, so the
model knows whether `read_packet` is handed the data of the precinct the table
says. If it is not, what the parser does is open: it goes on, throws, or fails
the assertion on the EOC marker.

`AnalysisThread` adds one action per branch of the loop of main.cpp:
`Success`, `MainHeader`, `Failure`, `Catch` (with `Dest`), `Finished`.
`frame_update` is the increment of `analysis_frame`; the clock is not modelled.
The assertion on EOC (`Abort`) ends the thread in phase "aborted" with the result
SUCCESS, those of the loader with the result "aborted": `BodyNeverAborts` excludes the
step from the loop to that phase, so both. SIGINT is left to `LeakyBucket` and
`Lifecycle`, which have the look at `sig_flag` before each body load.
`parsed`, `garbage`, `leaked`, `damaged`, `unnoticed` and `headless` are history.

### Lifecycle

The receive thread at the grain at which others see it: the look at `sig_flag`,
`recvmsg`, the look at the packet, the last promise, the last push. The
socket is blocking (the `ioctl` of `UDP.hpp` 87-92 is commented out), so a
SIGINT between the look at `sig_flag` and `recvmsg` is noticed at the next
packet only; `Signal` leaves that in. Here the ring is a sequence that drops
its oldest element and `load_body_packet` is any number of pops: `LeakyBucket`
and `AnalysisThread` have the detail, and neither promise depends on it.

### BitReader, PacketReader

A reader is a record, and each method of `J2kBuf` an operator from reader to
reader; what it returns is the field `val`. `st` is "ok", "leak" once
`buffer_leak` was thrown, or "undefined" once the code has read outside a payload.
`pop` skips one empty payload and takes the next without looking, as the code does.
`get_byte` starts the byte at hand over (`j2kbuf.cpp:89`). `Follow` is the loop
of `make_packet_data` over the payloads a code-block lies in. `Stream` is what the
payloads carry together, `Position` and `Consumed` where in it a reader stands.
`PacketReader` is one packet: the fields of a code-block's header bit by bit,
the placeholder passes, the two lengths, then the data in the same order.

### Profile, MainHeader, TileGeometry, PrecinctTable

`MainHeader` takes a marker segment as its fields and computes from the moves
its constructor makes (`Get`, which goes on into the next payload, and `Step`,
which does not) where the reader stands after it. `Outcome` says which segments
throw or do what C++ leaves undefined. `TileGeometry` is the arithmetic, modulo
`Word` where the code is unsigned; `PrecinctTable` puts it together into
`Components` and `BuildTable`, and has the arenas the table and its subbands are
allocated from. The loops of the two progression orders are two orders of the
same positions (`Visits`, `Earlier`): an entry's place in the table, the counters
`current_pcount` and `cmp_prc_count` when it is put there, are how many of the
positions that start a precinct are earlier (`Before`).

### DecodingUnit

One frame: `ReadMarker` per marker segment, `InitTile`, `LoadBody` (the next
chunk of segments from the receiver, with the PID to stop at), `ReadPrecinct`,
`AtResync`, `EndOfTable`. `ref` is a reader that makes the same calls on the same
bytes in one payload; it is a yardstick and guards nothing. Ends: "done", "lost"
(`buffer_leak`), "abort" (no EOC marker, or an assertion of the constructors that
make the components: `ComponentOutcome`), "thrown", "undefined", "desync" (a marker
is read from the middle of a segment), "exit".

### RTPSender, FrameScan

`phase` walks through the inner loop of `RTPsender2.cpp`: "read" is `read_line`,
"send" the packet. Each command is an action of its own. The four counters
of `packet_sender`, the one of `cli_parser` and the numbers of `packet_os` are kept
as the classes keep them, since the properties are about their agreement. `asked`,
`stamped` and `origin` are history. `FrameScan` adds what `RTP_show` and `filep` do
with a recording; it has no state and is looked at in the initial states.

### ArgumentList, ArgumentValues, HelpText, ArgumentParser

Characters are codes and words are sequences of them, for the parser tells
prefixes, first characters and single characters apart. `ArgumentList` has the
bubble sorts and the searches, `ArgumentValues` the getters for the three kinds of
number the programs ask for (unsigned, `int`, `double`), each with the numerals
`std::from_chars` takes for it and, as in the code, without a look for the end of
the argument: `At` is the character behind a number, or the NUL that ends the word (the
property says that an argument is the end of a word of `argv`). The getters of lists
have no caller and are checked as the header offers them. `HelpText` is the page
`--help` prints, computed twice as in the code: `length` gives the size of the
array, `char_array` fills it. `ArgumentParser` is `getopt`, one action for each shape
of a word. `Returns` leaves open whether the program ends itself at an option.

## 3. What is checked

| run | instance | what it shows |
|---|---|---|
| `leaky_bucket` | 4 slots, 2 held, 7 packets, `EAGAIN` possible | `RingPosition`: pointers and counter agree although `next_write` moves without the mutex; `DirtySlotPoppableOnlyWhenFull`; `HeldIntact`: pointers handed out stay valid while every write found room; `RingInv`, the inductive invariant; `RefinesUntilRace`; `NoLostWakeup` although `notify_one` comes after unlock; `ShutdownUnlessRaced`: a terminator or `sig_flag` ends the analysis |
| `analysis_loss` | 4 frames of 6 packets, sequence numbers modulo 10 (two wrap-arounds), 3 losses, 1 repeat, parser exceptions | `GarbageOnlyAfterGap`, `BodyNeverAborts` (every assertion of the loop, that on EOC included), `IntactFramesAreParsed`, `FrameCountNotAhead`, `Terminates` |
| `analysis_wrap_gap` | the same with 1 loss | **violation**: a loss beside the wrap is no loss to `check_rtp_sequence` |
| `analysis_resync_end` | last packet of a frame has a resync point, 1 loss | **violation**: the next main header fails its assertion |
| `analysis_single_resync` | first precinct is the only resync point, no loss | **violation**: the frame is never parsed and the next main header aborts |
| `lifecycle_enter` | `-e` and `-d Enter`, 4 frames, timestamps 7, 0, 1, 2 modulo 8, 1 loss | `PromisesSetOnce`, `PeriodMeasured`, `ImgIncSettledBeforeRead`, `StreamEndEndsProgram`, `SigintEndsUnlessBlocked` |
| `lifecycle_delay` | `-d 2`, 5 frames, period 3 modulo 8 | `DelayHonoured`, `LifecycleInv` (inductive) |
| `lifecycle_short_stream` | `-d 2`, 2 frames | **violation**: analysis and main wait for ever |
| `decoding_unit` | 2 levels; every order of 6 markers, every cut of a header in two, pools of 7 sizes, 300 tile shapes; 3 packets cut in every way, all sequences of 4 bytes from {00, 80, E2, FF} | `HeaderAligned`, `StylesByComponent`, `ShiftCountsSplits`, `TableComplete`, `ReservationSuffices`, `CutsDoNotMatter`, `IntactFrameDecoded` |
| `sender` | 9 recordings of up to 7 packets at the wrap of both numbers, up to 2 loops, 3 commands with 0, 1, 2 or 7 | `CommandDone`, `LossExact`, `CountersAgree`, `NumbersFollow`, `SenderEnds`; `FramesFound` for all recordings of 5 packets |
| `command_line` | 4 option tables, all lines of up to 3 of 20 words, with and without positional ones, 1,500 numbers and lists of them in three types, 380 explanations in 2 styles | `NamesResolve`, `CodesResolve`, `ReadAsWritten`, `OptionNotTaken`, `NothingPassedOver`, `ValuesAsWritten`, `ExplanationShown`, `HelpLaidOut` |

The violations are described in `PROJECT.json` "findings" with the line they
contradict. All of them are what the code does on the inputs of the run; they
restate no assumption of the model.

`CHECK_DEADLOCK FALSE` is in every cfg because the programs end: one that
stopped has no step.

The type invariants of the ring and of the threads are parts of `RingInv` and
`LifecycleInv`; that of the sender is proved (`SenderTypeCorrect`). Where a property
has an exception, the exception is what the code really does: `HeaderAligned` names
the two ways the reader loses its place (a segment skipped over the end of a
payload; a QCD of style 0), for headers without a DFS byte of 0xFF (`NoStuffing`),
`TableComplete` says which grids `build_table` was made for, `CutsDoNotMatter` which
payloads `pop` and `make_packet_data` cope with, `NothingPassedOver` when words are
ignored without a message, `ExplanationShown` when `--help` loses a character.

### Bounds, and why they are enough

- *Ring*: 4 slots and 7 packets let the ring fill, leak, be drained and turn
  around once more, with 2 held packets spanning the wrap. The real ring has up
  to 13600 slots; every action touches only `next_write`, `next_pop` and the
  last `Held` pops, and the proofs below are for every size.
- *Streams*: three precincts give a first, a middle and a last resync point,
  with data before and after them and a packet without one. Four frames let
  a frame be damaged between intact ones, over two wraps; `MaxLoss` of 3 reaches
  `BufferLength`, so that `buffer_leak` is thrown. `Capacity` is 4 for the 16 of
  the code: the streams need exactly 4 (a kept tail, a plain packet, the head and
  tail of the next resync point), so one segment too many overflows it.
- *Numbers*: the 24-bit extended sequence number is scaled to 0..9, the
  32-bit timestamp to 0..7, both so that the stream passes the wrap. Only equality,
  successor, difference and order of these numbers matter to the code.
  `ex_sequence_max = 100` switches the wrap off where it is not the question. The
  sender's numbers are modulo 16, kept in a word of 64 (2^24 in 2^32), its `size_t`
  is modulo 256.
- *Lifecycle*: 4 or 5 frames is enough for the delay, the measurement and a
  lost header in either; the ring of 2 leaks.
- *Decoding*: two decomposition levels (5 in the code) have a lowest and a
  highest level and a direction for each; images up to 31x16 samples with precincts
  from 2 samples to the whole image give several on an axis, cut at its end.
  Four arbitrary bytes reach through a whole packet header into its data; the three
  packets of `Packets` hold a stuffed bit after 0xFF, a code-block of two bytes and an
  empty packet, and are cut between every two bytes. `Word` is 2^16: no sum of
  the run passes it, as none does in 32 bits for the sizes a frame has.
- *Sender*: six or seven packets are two frames and a begun third; 7 is more than
  one loop holds, 2 more than one frame. Three lines are enough for one to set a
  counter, one to depend on it and one to look; `MaxLines` is then the end of input.
- *Command line*: three words are an option, its value and what follows; the
  tables have ambiguous names, one that begins another, options without short and
  without long ones, as those of the programs do, with names cut to what tells them apart.
- `MaxPackets`, `MaxLoss`, `MaxRepeat`, `Frames`, `MaxLines` and `MaxBytes` are bounds of the model and
  have no counterpart in the code.

### Fairness

- `LeakyBucket`: both threads are scheduled (weak fairness of the analysis
  thread, and of every receive step that does not need the network). `recvmsg`
  owes nothing: the network need not deliver, the operator need not interrupt.
- `AnalysisThread`: the receive thread feeds the ring until it pushes the
  terminator, so the analysis thread is never stuck in a pop (weak fairness of
  `Next`).
- `Lifecycle`: the three threads are scheduled and the operator presses Enter
  when asked. There is no fairness on `Network` and `Signal`.
- `RTPSender`: the program runs (weak fairness of `Next`); `SenderEnds` is about the
  sender without `--Enter`, which waits for nobody.
- `DecodingUnit` and `ArgumentParser` state safety only: the one is driven by the
  analysis thread, whose end is `Terminates`, the other by the length of the line.

## 4. What is proved

Every theorem is about all values of the constants that meet the named
assumptions; `CommonLemmas` has the lemmas that the proofs share: on quotients,
remainders, least elements, recursive functions, flattened sequences, ranks in a finite
order and sums.

`LeakyBucketProofs`, for every `BufferLength > 0`, `Held < BufferLength`,
`MaxPackets`, blocking or not:

- `TypeCorrect`, `RingPositionCorrect`, `DirtySlotCorrect`, `HeldIntactCorrect`,
  all from `RingInvCorrect`, `Spec => []RingInv`.
- Why a stronger invariant: `HeldIntact` speaks about bytes and is not
  inductive. A write hits slot `next_write`; to know that this is none of the held
  slots one needs where the held slots are (`HeldBehindPop`: right behind
  `next_pop`), where `next_write` is (`RingPosition`), and that while a write is
  going on there is room between the two (`RoomForHeld`, which needs
  `DirtyPhases`). `RingInv` is the conjunction. `RingPosition` avoids the modulo:
  the difference is 0, one or two ring lengths.
- `RingImplementsQueue`, `Spec => RefinesUntilRace`: every step of the ring is a
  `Put`, a `Leak`, a `Take` or a stutter of `DropOldestQueue`, up to the first race. It
  needs `WholeInv` besides `RingInv`: until a race every packet in the queue, and the
  one about to be counted, has its bytes.

`LifecycleProofs`, for every stream, modulus, ring and every `-e`/`-d`:

- `LifecycleTypeCorrect`; `LifecycleInvCorrect`; from it
  `PromisesSetOnceCorrect`, `DelayHonouredCorrect`, `ImgIncSettledCorrect`.
- The invariant says of each promise what its value tells about the variables
  it was decided by: `FirstHeaderPromise` (set exactly when the period was
  measured or the receive thread gave up), `DelayPromise` (set exactly when the
  count reached 0, or by main exactly after Enter, never both), `DelayCount`
  (headers seen against frames left), `FirstFrameWaits` (while the period is
  unknown the analysis is at most waiting for it in its first frame) and
  `DelayPassed` (past the wait, the delay's promise is set). `DelayHonoured` follows
  from `DelayPassed`, `DelayPromise` and `DelayCount`; no write
  of `img_inc` meets a reader because of `FirstHeaderPromise` and
  `FirstFrameWaits` together.
- `PeriodMeasuredCorrect`, from `PeriodInv`: without a loss `pre_timestamp` is the timestamp
  of the last main header looked at, and the remainder of the difference of two that
  follow each other is the period, over the wrap too. `PeriodAssumption`: the period is
  less than the modulus.

`AnalysisThreadProofs`, for every layout of a frame, table, number of frames, loss and
repeat, with or without exceptions of the parser:

- `AnalysisTypeCorrect`. The other theorems name what they suppose of the
  stream: `InTableOrder` (precincts come in table order and the last packet has the
  marker bit and no resync point), `CutForReceiver` (the first body packet has a
  resync point, PIDs differ, the segments between two resync points fit into
  `j2k_packets`) and `CarriesCodestream` (the packets carry the code-stream without a
  hole). `MCAnalysisThread` checks that the streams of the passing run meet them; the
  violating runs `analysis_resync_end` and `analysis_single_resync` show what happens
  to layouts that do not.
- `FrameCountCorrect`, from `NotAhead`, the place of loop and stream compared: before,
  at or behind the same entry of the same frame; `ResyncInv` says with which PID each
  result comes.
- `BodyNeverAbortsCorrect`, for `CutForReceiver` and `CarriesCodestream`, from
  `AlignedInv` and `DataInv`: while `load_body_packet` runs,
  `table_index` is the entry at which the packet before stopped, and the segments kept
  are no more than the packets since the last resync point gave. So no `push_back` and no
  assertion of the loader fails; that the bytes behind the table are EOC follows from what
  the segments hold (`HoldsUpTo`, below).
- `NoGarbageCorrect`, from `DataInv`: the segments flattened are the chunks of one frame
  from the entry the loop is at to the packet at hand (`HoldsUpTo`), and after a
  resync point the last segment is that packet's tail. This is the alignment of the two
  state machines.
- `IntactFramesCorrect`, from `ParsedInv`: each frame behind is parsed whole or is in
  `damaged`, the entries before `table_index` likewise, and the discard loop runs only in a
  damaged frame or between frames.

`DecodingUnitProofs`, for every conforming header (`StreamsAssumption`: the declared lengths
are those of the fields, and no byte of DFS levels is 0xFF), markers in any order, cut anywhere:

- `HeaderAlignedCorrect`: the moves of each segment's constructor add up to its length, so
  that the reader is at the next marker except in the two named cases. It needs that a
  read goes over the end of a payload and a skip does not (`Moved`), for every segment.
- `StylesCorrect`: from `HeaderInv`, `main_header` holds the COC and QCC read so far, each
  of them, and no others.
- `ShiftsCorrect`, with `ShiftIsSplits` below.
- `CutsCorrect`, `Spec => []CutsDoNotMatter`, for every body of any bytes and length
  (`BodiesAssumption` is its type), cut in any way `Within` allows: no two empty
  payloads in a row, none at the end, no more than the loop of `make_packet_data`
  follows. `CutsInv` says that the reader and the one with a single payload are readers
  of the same stream (`ReadersOf`) and agree (`Same`): they failed alike, or stand at the
  same byte and bit of the stream with the same byte and value in hand. `CutsDoNotMatter`
  alone is not inductive: without `bit_purge` two readers at the same place may go on
  with different bits. `BitReaderProofs` has the argument. `Readers` is what a reader of given
  payloads can be: its `cur` is the payload `pos` counts to, its place within it, and within
  a byte there is a byte. `ReachIs` says that a reader at the end of its payload goes on
  with the next byte of the stream or leaks, whether or not `pop` skips an empty
  payload. From there every operation, a bit, a byte, `r_fill`, `check_FF`, the payloads
  of a code-block, has a lemma on what it gives in terms of the stream (`...Is`), and one that
  it keeps two readers in agreement (`...Same`); so have the loops of the packet header, by
  induction over their turns, up to `PacketIs` and `PacketSame`.

- `TableCompleteCorrect`: where the loops' steps meet the starts of all precincts
  (`PitchDivides`), every precinct is in the table once and in its place, in both progression
  orders. The table is followed from the header on: `GridIs` says that what
  `j2k_Resolution` counts is what fits into the tile in steps of `Spacing` (from
  `CountOnGrid`), for sizes that leave room to round up in 32 bits (`SizesAssumption`). The
  positions at which a precinct starts are the corners of that grid (`PlacedAre`,
  `AllPlaced`) and each has a number, row by row; both loop orders visit
  the corners of one resolution in the order of these numbers (`PlacesNumbered`), so that the count
  `construct_precinct` keeps is the number (`PlaceIs`, from `Numbered`: in a finite order the
  rank of an element is its number). For the PIDs no grid is needed: the ranks of any finite
  order are 0, 1, 2, ... (`Ranked`). `ProfileDirections`, which the property supposes too,
  turns out not to be needed.
- `ReservationSufficesCorrect`: nothing is thrown while the table is built, unless a pool was
  asked for that is smaller than the count. `WeightsFit` compares the two sums: an entry has
  a resolution and a number in it, no two entries the same, and that number is less than
  the precincts the resolution counted (`PlaceBounded`, also off the grid, where precincts are
  missing and not added). So the entries, and the subbands they allocate one
  precinct after the other, are no more than `total_precinct` and `total_pband`
  (`TableReserved`). `AllFit` follows the second arena through the allocations. That they
  are aligned needs `AlignAssumption`: `prev_allocate` does not pad the pointer of the second
  arena, and it is aligned only because `sizeof(j2k_Precinct)`, 56, is a multiple of
  the alignment of `j2k_PrecinctSubband`, 4.

In the same module the arithmetic of `TileGeometry`:

- `CeilIntIsCeil`: where the sum does not pass the word, `ceil_int` is the ceiling.
- `CountOnGrid`: the number of precincts on an axis, computed from sizes rounded up
  three times, equals the number of multiples of the product below the tile's end:
  what is reserved is what the loops of `build_table` find, for every size.
- `PrecinctsPartition`, `PbandsShareOut`: precincts share out the samples of a
  resolution, and the subbands those of a precinct, for every size.
- `ShiftIsSplits`: what `ceil_NL` passes over and what it counts are all the levels, for
  every pattern whose levels that split the axis come last.

`RTPSenderProofs`, for every recording, number of loops, command and modulus:

- `SenderTypeCorrect`; `SenderLossExact`, from `LossInv`: as long as packets remain to
  be lost, the count of `packet_sender` is what `cli_parser` has to go, and one more
  while a packet is at hand, and what was lost and what is to
  be lost are together what was asked for. `LossExact` alone speaks of prompts only and
  is not inductive over the packets between them.
- `SenderNumbersFollow`, from `NumbersInv`: the next numbers, wrapped around, are
  what `origin` says follows from the last packet stamped. The raw word of the
  sequence number has to be a multiple of its modulus (`SenderAssumption`).
- `SenderCountersAgree`, from `CountersInv`: the four counters as functions of the loop
  and the place in it.
- `SenderCommandDone`, from `CommandInv`: handled and still to handle make up what was
  asked for; for `r` and `e` the stopping packets passed so far and ahead are n, counted
  once along the recording and once from the packet at hand. A recording has fewer
  packets than `size_t` counts (`SenderAssumption`).
- `FramesFoundCorrect`, for recordings of any length (`RecordingsAssumption` is their
  type): the state of the loop after k packets is given in closed form (`After`) by
  where frame a opens and frame b closes, and the loop's body takes it from k - 1 to k.

`ArgumentParserProofs`, for every option table, command line and room for ambiguous names:

- Of a table is supposed what the constructor asserts (`check`), that it has an option,
  and that no name begins with '=' (`ParserAssumption`: `front` of an empty name reads the
  '=' behind it); of `Room`, that `get_ambiguous` finds the end of the first run of names
  before the end of the table (`RoomAssumption`). TLC evaluates both for the tables
  of the programs.
- `BubbleSorts`: a pass moves an element that is greater than those behind it to its end
  (`PassSettles`), so that after i passes the last i places hold the i greatest in order
  (`Settled`), whatever the order `Swap` stands for, as long as it is one. The order of
  the names is one that puts those without a name last, although `init_l_sort_table` swaps
  two of these as well (`NameLe`). `ListIsOk` collects what the constructor gives:
  both tables are the declared options in order, and the errors are -1 to -4.
- `CodesResolveCorrect`: in a sorted table the half that is searched has the code, if the
  table has it (`HalfIsEnough`).
- `NamesResolveCorrect`: the names with the same first character are neighbours, so that the
  run has every option a name begins (`RunIs`, `HitsAre`), and a name given in full
  stands before the longer ones it begins (`ExactIsFirst`), so that looking at the first two is
  enough (`LongFound`).
- `ReadAsWrittenCorrect`, `OptionNotTakenCorrect`, `NothingPassedOverCorrect`, from
  `ParserInvCorrect`. The three are not inductive: where a word begins has to be tied to
  `current_str`, and what is left of a word, `parsing`, to the option returned last.
  `VerifyKeeps` is the step all options share.

Only model-checked:

- liveness (`NoLostWakeup`, `ShutdownUnlessRaced`, `Terminates`, `StreamEndEndsProgram`,
  `SigintEndsUnlessBlocked`, `SenderEnds`): fairness and ENABLED are out of the prover's
  reach;
- `IntactFrameDecoded`, which is about the bytes of given packets;
- `ValuesAsWritten`, `ExplanationShown` and `HelpLaidOut`: what the getters and the help page
  compute, by folds over the characters of a word or a text.

## 5. What is not modelled

- Code nothing calls: `get`, `get_noexcept`, `clear` of the ring; the old
  interface of `RTPReceiver` (`first_check`, `check`, `pop(uint8_t*&, size_t&)`);
  `count_bit`, `l_fill`, `reset` of `J2kBuf`; `construct_precincts`; most of
  `fixed_capacity_vector`; `MainHeader_old`; the library `Decoding` (tile.cpp, other.cpp,
  tagtree.cpp, decoding.hpp, fast_table.hpp), which is built and linked by no program;
  `RTPsender.cpp`, superseded by `RTPsender2.cpp`.
- The build variants `DISABLE_TABLE`, `NO_BLOCKING_MTX` and `GENERATE_RECEIVE_PROBABILITY`.
- DFS levels with a byte 0xFF (four levels of direction 3): `DFS::DFS` reads them with
  `get_bit`, which drops the bit behind such a byte.
- "inf", "nan" and values out of a double's range on the command line; the next double to a
  decimal is not computed, `ArgumentValues` keeps mantissa and exponent.
- Clocks: `img_clock`, sleeping, measurement, the summary main prints.
- A main header that spans two packets: `LoadMainPacket` aborts on the second
  one as `RTP_header.hpp:406` does, but the streams of the runs have one. In
  `DecodingUnit` it may span two, as `J2kBuf` allows.
- PIDs from 65536 on, which `get_body_PID` cuts to 16 bits (`RTP_header.hpp:126`;
  `PIDModulus`): in the runs every PID fits. A PID that no table entry has makes the
  loop of main.cpp 451 endless; `TableComplete` shows which PIDs the table has, those
  a sender numbers its precincts with; the loop is not run against such a table.
- A `-d` below -1 (-1 is Enter): the promise `frame_delay_prm` is then never set
  (`LifecycleInv` says for every delay when it is), and the program waits for ever. No
  property claims that it ends.
- `RTPsender2` commands with 0 never ask again; the run types them, and `CommandDone`
  leaves them out.
- A stream joined in the middle of a frame: `load_main_packet` accepts what comes
  before the first resync point. `GarbageOnlyAfterGap` allows for it (`headless`).
- Repeated packets in `Lifecycle`: a repeated main header would measure a
  period of 0; `PeriodMeasured` speaks of streams without loss and repeats.
- Undefined behaviour (an empty `optional` of a header without SIZ, an index never
  set, a read past a recording, a division by a period of 0) ends a behaviour as
  "undefined"; what the build does from there is not followed.
- Values of the main header that are only printed or handed to the decoder behind
  the program (guard bits, step sizes); the precision timestamp; bit positions of
  header fields; messages.

## 6. What is left

1. Composition of `LeakyBucket` and `RTPReceiver`: leaks that come from the
   ring itself, the pointers really held instead of `Held`.
2. Composition of `AnalysisThread` and `DecodingUnit` over more than one frame.
3. Proofs: `IntactFrameDecoded` from what `PacketIs` says of a packet's bytes, for frames
   whose bytes were written by an encoder, which would have to be modelled.
4. The bit positions of the RTP and payload headers, set and read back.
