# Verification of the NestDAQ user works

The repository holds the user devices of a data acquisition that is built on
FairMQ (NestDAQ): samplers read front-end modules, builders combine what they
send into events, filters look for triggers in it, sinks write it to files, and
a watchdog restarts what hangs.  This directory holds TLA+ models of those parts
whose correctness depends on the order in which things happen, the TLC runs that
check them on small instances, and proofs, checked by TLAPS, for any size.

* `tlc -config X.cfg M` checks one of the runs of section 4.
* `tlapm M.tla` checks the proofs of a module of theorems: `TimeFrameBuilderProofs`,
  `FileSinkProofs`, `RawToDST0Proofs`, `EventBuilderProofs`, `HulStrTdcChainProofs`,
  `SamplerProofs` (with the watchdog), `LogicFilterProofs` and `FilterReplayProofs`.
* `PROJECT.json` names, for every definition, the lines of the code it models,
  and lists runs, mutants, hazards and theorems.

## 1. Inventory

Every device but the watchdog is a FairMQ device: a state machine of FairMQ calls
`InitTask`, `PreRun`, then `Run`, `ConditionalRun` or an `OnData` callback until
a new state is requested (`NewStatePending()`), and `PostRun`.  Devices interact
through channels only: bounded queues of multipart messages, several sub-channels
per channel, and a `Send` that waits, times out, or is interrupted by a stop.
Several runs follow each other in one process, so that state that is not reset
is carried into the next run.

| Component | State | Operations | Interaction | Hard behaviour | What makes it correct |
|---|---|---|---|---|---|
| Time frame builder (`exam6`, same loop in `recbe`) | parts per frame id with the time of the first, output direction, counters | receive, complete, time out, decimate, copy to dqm, send, drain | front ends, outputs, decimators, dqm, clock, stop | late and lost parts, slow outputs, stop between two sends, leftovers of a run | a frame is whole, of this run, sent once; a complete set is sent; buffers empty |
| Worker threads (`e16` TaskProcessorMT) | splitter, worker and merger queues, turns, stop flag | split, receive, work, send, merge, join | threads over in-process channels | order across workers, results given up, stop while one waits | order kept, all is written, join ends |
| File sink (`e16`) | file position, writes, limit, handler options | handle message or parts, compress, write, drain | sender, worker threads | limit reached by the merger thread while others run, two runs | file in order, limit kept, stop ends the run |
| Unpacker (`e16` RawToDST0) | begin-run data shared by threads, unpackers | store begin-run data, unpack, send | event builder, workers, next device | a map without a lock, begin-run data of an earlier run, uninitialised timeout, a drain that leaves messages | threads at the map together only after such a drain or a loss, right begin-run data, stop ends the run |
| Event builder (`e16`) | fragments per source, frames per tag, begin-run data, resolutions, counts | receive, build in five phases, time out, send with retries, clear | sources, sinks by type and sub-channel, clock | late, missing, foreign and duplicated fragments, failing sends | fragments accounted for, complete frames whole, begin-run data first |
| Logic filter and trigger (`LogicFilter`) | time region, signals, truth tables, direction | build block map, mark, scan, look up, dqm, output | builder, outputs, dqm | blocks of different front ends, edges of the region, dead receivers | hits are the rising edges of the expression, frames go on |
| Process watchdog (`watchdog`) | last hash, count of changes per field, subscription | listen, read, count, stop, script, run | Redis, sampler, script | reads late, errors between STOP and RUN, reconnection | nothing missed, counts earned, stopped samplers run again |
| Sampler, sub time frame builder, time frame builder (`elph2018`, copies in `exam3`) | bytes of the socket, words of the stream, heartbeat counter, frame number, discard list | read a cycle, cut at heartbeats, fill, finalise, send, match by number, discard | front end over TCP, outputs, stop | words cut anywhere into messages, a second run without a reset, a socket that breaks | frames start at heartbeats, words kept in order, a time frame holds the same heartbeats |
| Samplers (`recbe`) | socket, header, trigger number | write registers, connect, read header, read body, send | front end over TCP, register access over UDP, outputs | partial reads, timeouts, late answers | a part is one event of the front end; a register reported as written is |
| Samplers (`e16`: Sampler, TagBroadcaster, TagSubscriber) | tags, count of iterations, request thread, flag of its end | read, choose the builder, send, answer requests, broadcast, drain | trigger system, event builders, monitors | two threads, each sampler chooses alone, tags of the last run | all fragments of an event meet; requests are answered; a run can end |
| Trigger filter (`exam6`: flttrig; fltcoin before it) | block map, flags of what is sent, headers | combine the blocks, drop, write headers anew, send | players, outputs, dqm | front ends without hits, split methods, a filtered file filtered again | no triggered hit is dropped; headers agree with what follows |
| File players (`exam4`-`exam6`) | file, position, split method | read header and body, cut into messages, send | outputs | lengths and counts trusted from a file | what was written is what is played |
| Trigger proxy, dispatcher, monitors, DQM (`e16`) | counters, histograms | receive, copy, send, reply | trigger system, outputs | retries | copies do not hold the output |
| Displays, histograms, checkers, conversion tools, examples, run scripts, utilities | local | | | sequential | |

`PROJECT.json` lists each with its files and its status, and under `hazards` what
is hard to test, each at its line and with the properties that would show it.

## 2. Modules

| Module | Models | Composes |
|---|---|---|
| `TimeFrameBuilder` | `exam6/TimeFrameBuilder.cxx` with front ends, consumers and clock | instance of `FrameAssembly` |
| `FrameAssembly` | abstract: what a frame builder promises | |
| `TimeFrameBuilderProofs` | theorems, among them the refinement | `TimeFrameBuilder` |
| `TaskProcessorMT` | channels, turns and thread loops of `e16/TaskProcessorMT` | |
| `FileSink` | `e16/FileSink` handlers, writes, limit | `TaskProcessorMT` |
| `RawToDST0` | `e16/RawToDST0` handlers, begin-run data, output | `TaskProcessorMT` |
| `FileSinkProofs`, `RawToDST0Proofs` | theorems | `FileSink`; `RawToDST0` |
| `EventBuilder`, `MCEventBuilder` | `e16/EventBuilder`; tags, quotas for TLC | |
| `EventBuilderProofs` | theorems | `EventBuilder` |
| `LogiCalc` | infix parser, stack calculator, truth table | |
| `Trigger` | time region: mark and scan | |
| `LogicFilter`, `MCLogicFilter` | the filter device; data for TLC | `LogiCalc`, `Trigger` |
| `LogicFilterProofs` | theorems | `LogicFilter` |
| `HulStrTdcSampler` | `elph2018` sampler: the socket and the messages it makes of it | |
| `HulStrTdcSTFBuilder` | sub time frame builder: cutting, counting, sending | `HulStrTdcSampler` |
| `HulStrTdcTFBuilder` | `elph2018/TimeFrameBuilder.cxx` | `HulStrTdcSTFBuilder` |
| `HulStrTdcChain`, `MCHulStrTdcChain` | the three devices over several runs; streams for TLC | `HulStrTdcTFBuilder` |
| `HulStrTdcChainProofs` | theorems | `HulStrTdcChain` |
| `RBCP` | register access over UDP | |
| `ReadoutSampler`, `MCReadoutSampler` | the samplers of `recbe`; bodies for TLC | `RBCP` |
| `TagBroadcaster`, `TagSubscriber`, `Sampler` | the devices of `e16/Sampler` | |
| `TaggedReadout`, `MCTaggedReadout` | these in a run, with front ends and monitors; tags for TLC | all three |
| `SamplerProofs` | theorems | `ReadoutSampler`, `TaggedReadout`, `ProcessWatchdog` |
| `TFBFilePlayer` | how the players of `exam6` cut frames into messages | |
| `FltTrig` | what `exam6/flttrig.cxx` makes of a time frame | `TFBFilePlayer` |
| `FilterReplay`, `MCFilterReplay` | player, filter, file, and once more; time frames for TLC | `FltTrig` |
| `FilterReplayProofs` | theorems | `FilterReplay` |
| `ProcessWatchdog` | `watchdog/processwatchdog.py` | |

Definitions keep the names of the code.  A comment that begins with "Mutant"
marks a wrong form of the definition that follows it: what a plausible slip would
make of it.  Every property of every run is violated by at least one of them.

## 3. How the models correspond to the code

**TimeFrameBuilder.**  `pc` is the place of the device thread: `Recv` (the
`Receive` of `ConditionalRun`), `Sweep` (the loop over `fTFBuffer`, one step per
buffer visited), `Decimate`, `Dqm` and `Output` (the three send loops), `Drain`
(`PostRun`).  `fTFBuffer` maps an id to the sequence of its parts; `age` stands
for `steady_clock::now() - start`, counted in ticks.  `frame` is the frame being
sent, removed from its buffer only after the loop (`ClearBuffer`).  The front
ends are external: each sends one part per trigger, in order, or loses it, stops
some time after the stop was requested, and starts the next run from trigger 0.
One assumption is about time: a front end has stopped before the last of the
eleven empty receives (of a second each) of `PostRun`.  Without it parts of a run
reach the next one, and nothing in the builder would tell them apart.
The three consumers take a message whenever they like.

**TaskProcessorMT, FileSink, RawToDST0.**  A message is its number in the run.
`splitter`, worker and merger queues are sequences bounded by the buffer size of
the in-process channels; worker `i` receives the messages whose number is `i`
modulo the number of threads, and the merger takes from the workers in turn
(`fNOutput % fNThreads`).  A step of a worker is a receive, its handler, or its
send; a send may be given up when the timeout passes, and the code ignores its
result.  `Join` waits for all threads, then `PostRun` drains the input channel.

The drain of the unpacker ends at the first reception that finds nothing, and after ten
at the latest (`RawToDST0.cxx:307`); it looks at sub-channel 0 alone.  The sender may not have stopped then,
and may have sent more: messages stay on the channel and are the first of the next run.
`undrained` remembers that a drain ended like this, `beginLost` that the begin-run data
of the run were given up.  The map `fBeginRunData` has no lock.  The device thread writes it
(`BeginRunData` and `BeginRunStored`, two steps), and so do the workers: the test for a
missing source compares a count with less than zero (`186`), and `operator[]` inserts the entry
(`190`), which is what `hasEntry` is about.  `Race` is the state in which two threads are at the map and
one of them writes; from then on (`corrupt`) a look-up gives any begin-run data, or none.  A
crash is left out, and a look-up that never ends is excepted from `StopEndsRun`.

**EventBuilder.**  A fragment is a source, a tag and a run.  `Build` has the
phases of the code (begun?, ready?, resolutions and mask, duplicated frames,
merging, complete frames, timeouts), each send a step with its own outcome.
Tags are masked by the resolution of the coarsest source (the runs have equal
resolutions); the time of a frame is
a tick at which it may be found too old.  PostRun receives until its channel is
empty and then clears; a source may still send after that (`late`).

**LogiCalc, Trigger, LogicFilter.**  An expression is a sequence of tokens; the
model contains the infix parser with its precedences, the commands with their
stack and masks, and the table they give.  What an expression is *meant* to be is not
computed from its words: it comes with it, as the set of settings of the signals for
which it holds (`holds`).  `Entry`, `Mark` and `Scan` of the
trigger are steps over one heartbeat block; a frame is a sequence of sub time
frames, each with heartbeats, each with hits.  `pc` follows `ConditionalRun`
from the receive over the block map to the two sends.

**ProcessWatchdog.**  `doing` is the place in `main`.  Every access to Redis is a step of its own, before which
the hash may change and at which the connection may fail.  `commands` is what was
last published for each sampler.  `unread`, `looked` and `seen` count the real
changes of a field, to compare them with `consecutive_field_count`.

**HulStrTdcSampler, -STFBuilder, -TFBuilder, -Chain.**  A word is its head and its
place in the stream of its front end; the sampler's cycle takes what the socket
has, a multiple of the word or not, and a message is the words of a cycle.
`HandleData` is one step over a message (`fInputPayloads`, `fWorkingPayloads` and
`fOutputPayloads` have the names of the code), `DqmSent`, `DqmInterrupted` and `OutputSent` the sends.
A front end pauses, closes or breaks off at most `MaxFaults` times; after a broken
read the words that follow may have any head of `Garbled`, and `lost` remembers the
front end.  `Leave` is the arrival of a stop at one device.  The last run is not
stopped, so that it can go as far as the streams do.  With `OutOfStep = FALSE` runs are
not followed that begin with parts left in a channel, or with counters that
differ: such runs occur in the code and mix heartbeats (section 5).

The devices see a stop between two calls of their handler and, in FairMQ, in a `Send` or
`Receive` that waits.  Inside a handler they ask for `GetCurrentState()`, which stays `Running`
until the handler has returned.  So a stop ends the one `Send` to dqm and the copies of the time
frame builder, whose failure is only logged or ignored (`DqmInterrupted`, `CopyInterrupted`),
and not the loops that repeat a `Send` to an output (`HulStrTdcSTFBuilder.cxx:282`,
`TimeFrameBuilder.cxx:111`), nor the sampler's loop over a bad socket: `MayStopSTF`, `MayStopTF`
and `MayStop` are false there.  `Stuck` names these three, and `StopEndsRun` says that a stop
ends the run of every other device.  An output whose receiver has left the run before
is such a case, so that the order in which a stop reaches the devices decides.

**RBCP, ReadoutSampler.**  A byte of the stream is its position; the model reads a
header in pieces, and what is read where no header begins shows any length and
number of `Sizes` and `Trigs`.  The two `recv` of a part are `header`/`header2` and
`body`/`body2`; `Failure` has for each of the four what the code does with an
error that is not a timeout.  `clean` says that every event so far was received from its
first byte.  UDP loses requests and answers, and answers may be late: an
answer is counted, not numbered, because the code does not look at the number.

**Sampler, TagBroadcaster, TagSubscriber, TaggedReadout.**  There are two setups, as in
the code: the test pair, in which tags are published to a subscriber, and front ends,
of which each has the tag with as many bits as its hardware keeps
(`EventTags`, `SpillTags`).  The DAQ library is external: it calls `ProcessData` for a
frame, asks whether to go on (`CancelRequested`), and may throw.  `Direction` has three of
the four policies of `GetDirection`; with `timestamp` (`Sampler.cxx:203`) the builder depends on a time that the
unpacker of the front end reads, which is in a submodule.  The field `run` of a
tag is for the properties only; no code sees it.  Scalers and other frames without a
tag count as iterations.  A monitor asks one request at a time.

**TFBFilePlayer, FltTrig, FilterReplay.**  A frame is a sequence of units - headers,
hits, ends of a spill, heartbeats in pairs - a length is a number of units, and
a header is one.  The two players differ in what they do at single heartbeats, and the
model keeps that.  `Blocks` has the dummies, `BlockMap` the rule for front ends
without messages, `Suppress` the flags and the new headers.  The trigger is
a coincidence of all front ends; the full one is `Trigger`.  What the filter
writes is played by `TFBFilePlayer` and filtered again (`pass` 2); a player led
outside its buffer is `undefined`, without saying what it would do.  Both players end
their run at a body shorter than a header: of a sub time frame in `STFBFilePlayer` (`180`,
`StfHeaderWords` words of data), of a time frame in `TFBFilePlayer` (`116`, which is a file
without a single sub time frame, `HasBody`).

## 4. Runs

`CHECK_DEADLOCK FALSE` is set where the program may really stop: a hang of
`HandleMultipartDataMT`, a wait with a negative timeout, a watchdog that died of
an exception or has nothing more to read, a filter in its error state or with no
frame left, a device of `elph2018` in a loop that a stop does not end, a player that was given
too short a body.

| Run | Instance | What it shows |
|---|---|---|
| `tfb` | 2 front ends that lose parts, triggers 0..1, 2 runs, 2 outputs, 1 decimator, a dqm channel, queues of 1, offset out of range | whole frames, nothing discarded is sent, nothing complete is left, the decimated frames, refinement of `FrameAssembly`, `BuilderGoesOn` |
| `sink` | 2 workers, 5 messages of 2 parts, 2 runs, limit 4, all options | order of the file, what a given-up result does to it, all is written, stops and limit end the run |
| `raw` | 2 workers, 2 events of each run, 2 runs, a drain of one message | when the map of begin-run data can be used by two threads at once, whose begin-run data are used, stop |
| `evb` | 2 sources, 2 tags of two trigger types, 2 runs, any fragment missing, late or timed out | where fragments end, complete frames, begin-run data first |
| `evb_fair` | 3 sources for a builder of 2, 1 run | `NothingStays`: frames leave, waiting fragments are merged |
| `watchdog` | 2 fields, 4 writes, threshold 2, 2 errors | nothing missed, counts earned, who is stopped, catching up |
| `filter` | 2 front ends, 3 signals, 5 option values, 3 split methods, a dead output, a dqm that may be dead, 3 frames, 2 runs | tables are truth tables, hits are rising edges, monitoring and losses, `FilterGoesOn` |
| `stf` | 2 front ends, 2 time frame builders, 2 runs, one fault, a dead output, two sets of streams | words kept, frames cut at heartbeats, same heartbeats in a time frame, which loops a stop cannot end |
| `stf_assert` | the same, split method 1 | violation: an empty sub time frame after a restart |
| `stream` | 3 registers, 2 sets of events with bodies of 0 to 3 bytes, a header of 2, any pieces, close at any byte | events whole and in order, registers reported as written are, stop |
| `spill` | 2 front ends with long and short tags, 2 builders, 3 pairs of options, 3 iterations, 2 runs | fragments meet, tags of this run, requests answered, runs end |
| `flt` | 2 front ends with up to 3 heartbeats each, all 16 options, a replay | triggered hits kept, headers agree, what was written is played |

Some properties are conjunctions of two that one run checks at once:
`BuilderGoesOn` (a complete set is sent; a buffer is emptied), `NothingStays` (frames
leave; what waits is merged) and `FilterGoesOn` (a frame leaves; a stop ends the
run).

**Why the bounds are enough.**  The hazards need two of something: two front ends
(one part early, one late), two runs (something left over), two workers (one
ahead of the other), two outputs (one blocked), two triggers (one complete
and one not), a queue that can be full with its one or two
places, and a time that passes once.  `tfb` has a `MaxMiss` of 0 where the
code has 10, which makes leftovers of a run easier; the filter's words have a
region of 6 with marks of 3, so that marks reach over both edges, and the words
are 32 bits with two and three signals.  A message of the chain is any part of a
cycle of two words of two bytes, so that a message ends within a word, before and after a
heartbeat; the streams have data before, between and after the delimiters.  The
short tags of `spill` tell two events apart where the code has 8, with two builders,
so that a tag wraps within three events.  In `flt` two heartbeats suffice to have
one block misplaced against the next; three give frames above and below the 6 words
that `STFBFilePlayer` wants.  The limit of 4 in `sink` lets four of the five messages into the
file, one by one or in pairs, so that a result given up early moves the ones after it.  In `raw` the drain takes one message
where the code takes ten, so that two of a run may be left for the next, ahead of its begin-run data.

**Fairness.**  Weak fairness of a thread is what the operating system gives;
it is never assumed that a `Send` succeeds, that a front end sends, or that a
stop is requested.  Consumers are fair only where the property says so: the
outputs and the dqm channel in `tfb`, *one* output of the filter, none in
`sink`, `raw` and `evb`, and no dqm monitor in `stf`.  A decimator that is not read stops the builder: its readiness
is polled once and the loop then spins on that answer until the stop, so that
`BuilderGoesOn` excepts that hang.  `evb_fair` uses strong fairness of the
receive of each source: the FairMQ poller takes messages of all its sockets in
turn.  In `stream`, and for the time frame builder in `stf`, leaving is strongly fair: the
device passes the place where it looks for a stop again and again.  In `spill` the two steps
of the request thread are fair each for itself, because the loop looks at its
condition after every poll.  No clock but `Tick` is assumed to advance.

## 5. Findings

1. `stf_assert`: `PostRun` of the sub time frame builder of `elph2018` leaves its
   heartbeat counter (`HulStrTdcSTFBuilder.cxx:373`).  With split method 1 a run
   that is stopped with a full counter and begun again begins with a header alone, which
   the receiver asserts away (`elph2018/TimeFrameBuilder.cxx:35`).

Observed while modelling, without a run of their own:

*Builders.*  The parts that come after the eleven empty receives of `PostRun`
(`exam6/TimeFrameBuilder.cxx:361`) reach the next run.  The frame header is read
after the frame was moved away in two log lines (`180`, `211`); the femId is combined
with `&&` for `&` (`246`).  EventBuilder: with a negative `fNumRetry` the retry loop
never looks for a stop (`EventBuilder.cxx:644`), and `direction` is signed, so that
it goes negative past 2^31 (`754`).  elph2018: the drain of `PostRun` is missing and
frame numbers go on in the next run, in each builder from where it stopped, so
that a stop at different heartbeats makes every later time frame combine
different ones (`OutOfStep`).  Neither the loops of its builders over an output that is
not taken nor the sampler's over a bad socket are left at a stop.

*Writers.*  `--max-iteration` limits the writes by a test for equality after the
parts of a message, which messages of several parts jump over
(`FileSink.cxx:465`).  RawToDST0 declares the option `timeout` and never reads
it; `fMQTimeoutMS` is uninitialised (`RawToDST0.cxx:334`).  Its drain leaves messages to the next
run (`307`), and `count(id) < 0` is never true (`186`): the workers insert into a map without a lock.

*Watchdog.*  An error between STOP and RUN, or a script that cannot be started, leaves a
sampler stopped (`processwatchdog.py:323`, `StoppedIsInHand` says by how many errors);
the wait for STOP is commented out (`319`).

*Samplers.*  RecbeSampler: after two timeouts the length is taken from a header that
was not received, and a front end that begins to send just then is read out of step until the
connection is made anew; `errno` is looked at after a closed connection, where nothing
set it.  RBCP: one timeout, and a late answer reports the next write as done.
e16: a number of peers that does not divide 8 (3 bits of the event) or 2 (one bit of
the spill) splits events between builders; a spill may have one event more than
`fMaxEventsInSpill`; requests of monitors stay unanswered while the run waits for the
stop; `TagSubscriber::HandleRequest` is never called; an exception from `Start()`
destroys a joinable thread, which ends the process (`Sampler.cxx:442`).

*Filters and players.*  TFBFilePlayer cuts with split method 2 by default, the filter of
exam6 expects 1: a front end without hits then misplaces its blocks and triggered
data are dropped.  With split methods 0 and 2 a file that was filtered cannot be
filtered again for the same reason, and `fltcoin` inserts dummies for method 2, where they do not
belong.  With `--remove-hb` the header of an emptied sub time frame is dropped while
`numSource` stays, and the player reads past its buffer; the option also removes
the heartbeat of a triggered one at the end of a spill, whose word before it is
dropped.  Words after the last heartbeat are never played.  LogicFilter: the header counts
4 bytes per hit where 8 are written (`LogicFilter.cxx:754`, `802`); a sub
time frame without messages disables a frame if it is the last and is skipped if
it is not (`566`); a signal number out of range is dropped and its operator
skipped (`LogiCalc.cxx:60`); `1 << 32` for a 32nd signal (`TriggerMap.cxx:50`).

## 6. What is proved

**`TimeFrameBuilderProofs`**, for any finite nonempty set of front ends, any
number of outputs, decimators, triggers and runs, any option values (the
assumptions `SourcesAssumption` and `BoundsAssumption`): `TypeCorrect`,
`FramesAreWhole`, `FramesAreSentOnce`, `DiscardedStaysUnsent`, `DecimationIsExact`,
`NothingCompleteLeft` (the property `NoCompleteLeftBehind`) and `AssemblyImplemented`
(`ImplementsAssembly`).

`FramesWhole` is not inductive: the code only *counts* the parts of an id, so
that a part too many of one front end, or one of the last run, would do for a
missing one.  The invariant `IInv` says why this does not happen.  `WireInv`: the
parts on the way from a front end have increasing ids, below the next one it will
send.  `QuietInv`: outside a run nothing is on the way and nothing is buffered -
a run starts clean.  `BufferInv`: the parts of a buffer are of its id and of this
run, at most one of each front end, and each is behind what that front end still
has on the way (`Past`).  Parts that are all different and as many as there are
front ends are one of each: the step from counting to wholeness is a fact about
cardinalities.  `TodoInv` and `FrameInv` relate the sweep and the frame in hand to
the buffers; `SentInv` and `DiscardedInv` say that for a trigger that was sent, or
timed out, some front end's part is already past (`Lost`), and cannot come again:
so it is never complete again.  `DecimationInv` follows a decimator through the send
loops: until the stop it is up to date, or ahead by the frame in hand, and the
lemmas on `Quota` (a quotient grows by one just when the remainder is the
offset) show that sending this frame makes the two agree again.

The last two build on `IInv`.  For `NothingCompleteLeft`, `VisitedInv` says that
within a ConditionalRun a buffer which is not to be visited any more is not
complete, and `SweptInv` that nothing is to be visited between two of them; the
`==` test of the code is enough because a buffer never holds more parts than there
are front ends (`NeverTooMany`, again by cardinalities).  For the refinement there is
one lemma per action: receiving is `Take`, the output `Deliver`, a timeout or an
abandoned output `Drop`, leaving the run `Abort`, starting one `Restart`; taking a
complete buffer out stutters, because a frame that is on its way out still counts
as held, and so do the copies and everything outside the builder.

**`FileSinkProofs`**, for any number of worker threads, messages and runs, any queue
length and all options (`ThreadsAssumption`, `SinkAssumption`): `TypeCorrect`,
`FileIsInOrder` (`InOrder`), `WorkersStayInOrder` (`OrderWithinWorker`).  The argument
is about the *line* of a worker: its splitter channel, the message it works on and its
merger channel in one sequence, which every step of the worker leaves as it is.
`LineInv`: a line has messages of its own worker, in order, not yet merged and below
the numbers handed out.  `GaplessInv`: until a worker gives a result up, every number
to be merged is in the line of its worker; with `LineInv` it is the head when its turn
comes, so that the merger takes exactly `fNOutput`.  After a loss only `NewerInv`
remains (a line is newer than what its worker wrote) with the lemma `RemainderShift`:
what takes a place has the remainder of the place, hence `OrderWithinWorker`.  `IdleInv` is
the case of no workers.

**`RawToDST0Proofs`**, for any number of threads, events and runs
(`ThreadsAssumption`, `RawAssumption`): `TypeCorrect`, `NoDataRace` (`NoRace`),
`UnpackedWithTheFirst` (`UnpackedWithOwnRun`).  There is no lock to reason with:
what `NoRace` claims of the runs after a complete drain rests on the order of the input channel.
`RunInv` and `JoinInv` first clear the state between runs: threads that have been joined hold nothing, and what is
on the way then belongs to the run that is over.  `Clean` is a run that began with an empty channel.  In such a run
(`OrderInv`) begin-run data are at the head of the channel or nowhere, and while they are to come no event was
taken; `CountInv`: no event taken means that nothing was given to a worker, and a worker without anything does
not work.  So nobody unpacks while begin-run data are stored, and two workers that unpack find the entry
there, unless the begin-run data were lost (`CleanIsNoRace`).  After an incomplete drain nothing of this
holds, and the property says no more than that.  `FirstRunInv` and `UsedInv` follow the
first entry of `fBeginRunData`, which no step changes, while the map is not `corrupt`.

**`EventBuilderProofs`**, for any sources, tags, resolutions and runs
(`BuilderAssumption`): `TypeCorrect`, `FragmentsAreAccounted`, `CompleteAreWhole`,
`SentIsOfItsRun`, `BeginRunGoesFirst`.  `WireInv` and `ReceivedInv`: a
source sends in order, so that what is on the way comes after what was received and
no fragment is received twice; then each is in a buffer, in a frame, or sent, and in
one place only.  `FrameInv`: a frame has one fragment of a source at most, all with
its masked tag; as many as there are sources are one of each.  `MaskInv` is the time before the
resolutions are known, `ReadyInv` the state between runs, `BegunInv` the
phases of `Build` and the begin-run data.  `RunInv` - what is received is of this run -
holds while no source sends after `PostRun` (`late`).

**`SamplerProofs`**, of `recbe`, for any settings and any events (`SettingsAssumption`,
`ReadoutAssumption`): `AllReportedAreWritten` (`AllReportedAllWritten`), `EventsAreWhole`
(`WholeEvents`).  RBCP does not number its answers.
As long as every write was answered in its turn there is at most one request or
answer on the way, and it belongs to the write that waits for it
(`AnsweredInTurn`); the property has the premise that no answer was late.
For `WholeEvents` the stream is cut by sums of lengths (`BeginIn`, a fold), so that the
proof first has to say what such a fold is: `FoldTrace` gives the sequence of its
intermediate sums, by an induction on naturals that rests on `LeastNatural`, and `Places`
that events lie one behind the other and none begins where another does.  `StreamInv`
then follows the reads: while nothing was given up in part (`clean`), the bytes taken
end where the step of the loop says they do (`AtNext`) - in the header or the body of
the event whose number comes next, with the header in hand its own - so that what is sent
is from the first byte of an event to its last.

**`HulStrTdcChainProofs`**, for any finite nonempty set of front ends and any streams
of words, any sizes of cycle, split methods, numbers of heartbeats per frame, outputs,
dead receivers and runs (`SamplerAssumption`, `STFBuilderAssumption`,
`TFBuilderAssumption`, `ChainAssumption`): `WordsAreKept` (`WordsKept`), `EveryFrameIsCut`
(`FramesAreCut`), `FramesAgree` (`SameHeartbeats`).

* `WordsKept` is about `HandleData`, which is a fold of `NextWord` over a message.
  `BuildTrace` gives the builder after each word, `NextWordAdds` says that a turn of the
  loop puts the word, if its head is known, behind all that the builder holds - frames
  that are finished, the frame in work, what waits in `fInputPayloads` - through every
  way `FillData` and `FinalizeSTF` move them; an induction along the trace joins the two.
* `FramesAreCut` needs to know how many heartbeats are in work.  `Cut` bounds them by
  `fHBFCounter`, and this by `fMaxHBF` (at the maximum only where a frame is about to be
  finished); `Exact` says that they are as many, which holds from a reset on and is
  what `PostRun` gives up (section 5).
* `SameHeartbeats` compares parts that different builders made of different messages at
  different times, matched by a number.  The only thing the builders share is what the
  front ends see, so the proof numbers the delimiters (heartbeats, error recoveries,
  ends of spills) of a front end by `Ordinal` and defines one count that goes from
  delimiter to delimiter (`Counting`; it exists by `FoldExists`).  `SameInv`: between two
  words the number and the heartbeat counter of every builder are those of the common
  count at the delimiter it has seen last (`CountedAlike`), and a word lies in a frame
  with the number the count had at its delimiter (`Placed`, for what is in a builder, on the
  way and in a buffer).  Hence two delimiters with the same ordinal have the same number,
  and a number has the same ordinals everywhere.  `OrderInv` says that numbers only grow
  from a front end to an output, so that the parts of a buffer come from different front
  ends and, when there are as many as front ends, from all (`WholeBuffer`, by
  cardinalities); `TFLeft` that a run leaves nothing in the receivers.

`ChainAssumption` asks of the streams that an ordinal is the end of a spill for all front
ends or for none (`SameSpills`): the end of a spill closes a frame whatever the count is,
and front ends that disagree about it cannot be matched by number.  Nothing else is
assumed of what front ends send: between two delimiters each has words of its own, and
where one sends an error recovery another may send a heartbeat.  The property itself has
two premises that the code cannot do without: the builders begin the run with equal
counts (`inStep`), and no front end lost words (`lost`).

**`SamplerProofs`**, of `e16`, for any front ends, numbers of builders, tag widths and
iterations (`SamplerAssumption`, `SpillAssumption`): `TypeCorrect`,
`FragmentsAlwaysMeet` (`FragmentsMeet`), `TagsAreOfThisRun` (`TagsOfThisRun`).  `CountInv`:
what a sampler has counted and what its front end still has are the events
numbered so far, unless front ends saw different frames; so equal counts are equal
events.  For tags that wrap, the lemma on the remainder of a remainder: a number of
builders that divides what the tags tell apart gives the same builder.  `TurnInv`,
`QueueInv` and `FragmentInv` put the tags on the way behind the fragments made, all of
this run, if the broadcaster stops in time (`~late`).

**`SamplerProofs`**, of the watchdog, for any finite set of fields, any threshold and any
number of writes and errors: `WatchdogTypeCorrect`, `NothingIsMissed`,
`CountsAreEarned`, `StoppedAreInHand`.  `WatchdogInv` adds to the claims which change is in hand
(`HandInv`), that an unknown hash has a notification on the way or was read just
now, and that every field whose known value differs has really changed
(`HashInv`), and that a change still to be handled is real unless it is of the
first look, in which no field can be counted twice (`CountedInv`).  The lemma
`LeastNatural` - a nonempty set of naturals has a least element - is derived from
the well-foundedness of strict inclusion on finite sets.

**`LogicFilterProofs`**, for any signals, delays, mark lengths and time regions, any
expressions, outputs, time frames and runs (`TriggerAssumption`, `FilterAssumption`,
`FrameAssumption`): `TypeCorrect`, `FramesAreMonitored` (`OutputWasMonitored`),
`TablesAreTheCalculators`, `TriggersFindEdges`, `TablesMeanFormulas` (`TableIsFormula`) and
`FramesCarryTheirEdges` (`HitsAreRisingEdges`).

* `OutputWasMonitored` follows from `FrameInv`.  The ids of the frames say where they are:
  those up to `Finished` are sent or lost, the next may be in hand, the next wait.
  `DqmInv`: the dqm channel has what the outputs have, and the frame in hand too, once the
  device is at its output loop and no stop is pending.  `LostInv` counts: a run that can
  still lose a frame (`MayLose`) has not lost one.
* The truth table is about the stack calculator.  `AppliedMasked`: a command depends on the
  signals only at its own number; `LookUpCalculates`, by the trace of the stack: the table, which has an
  entry for each setting of the signals up to the largest one, gives what the
  calculator gives for any setting of all of them.
* `HitsAreRisingEdges` is one argument in four parts.  `BlocksShape`: whatever the split
  method, the blocks made of an STF have the hits of heartbeat `n` at index `n`, or `2n - 1`
  with data and heartbeats apart, dummies where there are none, and nothing elsewhere.  `WindowIs`:
  in 32 bits the marks of a hit are the interval around its time moved by the delay, or
  none if that leaves the region, because an addition that wraps leaves it.
  `RegionIsOn` puts the two together, for all front ends with that index, and
  `ScanFinds` says that a scan finds each rising edge once, in order.  `WorkInv` carries this
  through the loops over triggers and block indices: `trg_tdc` and `trgdata` are
  what the scans of the blocks so far find.

`FormulasAreMeant` is the premise of the last two: that the calculator, given the commands of
a formula, agrees with what is meant by it.  It is a statement about constants, about
the parser alone, which is recursive over words.  `MCLogicFilter` assumes it, so
that TLC evaluates it for the expressions of the run; `TablesAreTheCalculators` and
`TriggersFindEdges` do not need it.

**`FilterReplayProofs`**, for any front ends, any time frames with any number of heartbeats,
hits and ends of spills, all options and any number of outputs (`ReplayAssumption`):
`HeadersAlwaysAgree` (`HeadersAgree`) and `WhatWasWrittenIsReplayed` (`ReplayIsWhatWasWritten`).
Both are about whole files that recursive functions of sequences take apart and put together
again.  The invariant `IInv` says what a frame is, wherever it is on its way: headers and
messages of one front end from header to header (`IsFrame`), messages with the forms the
split method gives them (`IsCut`), complete up to the last heartbeat (`IsWhole`), with the lengths
in the headers (`AreLong`) of the frames that have not been filtered twice.

* `PartsAre`: the file of an original, read by either player, is such a frame.  A heartbeat with
  a hit, the end of a spill, both or neither is one, two or three messages (`BeatIs`), and these
  can be put one behind the other (`Joined`, `BuiltNext`).
* `FilteredFrame`: the filter keeps it so.  `Chosen` relates a place in what is sent to the place in
  what arrived; `UntriggeredDrops` says that data are dropped, and heartbeats only with
  the data before them, so that no message gets a neighbour that its split method does not allow;
  `SizeChosen` that what is chosen has the size of what it is chosen from, which is what
  the headers are made of.
* `Recut` and `Replayed`: a player that takes the units of such a frame one after the other makes
  its messages again.  `Lies` gives every message its places among the units; along the loop
  of the player (`Cut0`, `Cut1`, `Cut2`, one for each split method) it has, when it is at the last unit
  of a message, the messages up to that one, or all but that one where a message ends
  at the unit behind it.  `AtNext` does the same for the sub time frames, whose lengths
  bring the player to the next header.

The premises of `ReplayIsWhatWasWritten` are needed: a header that was dropped is still
counted in `numSource`, and the end of a spill whose heartbeat was removed is the last word of its
sub time frame, which no player makes a message of (section 5).

**Only model-checked.**  All liveness (`BuilderGoesOn`, `AllWritten`, `StopEndsRun`, `NothingStays`,
`CatchesUp`, `FilterGoesOn`, `RequestAnswered`, `SamplerEnds`): the prover has no fairness.
The parser of the logic filter: that infix words become the commands that are meant
(`FormulasAreMeant`) is an induction over expressions; TLC checks it for those of the run.  `TriggeredHitsKept`, the coincidence
that the filter of `exam6` makes of the blocks: what `FilterReplayProofs` says of the messages does not
yet say which heartbeat a block is of, when front ends have different numbers of them.

## 7. What is not modelled, and why

Submodules of the repository (message headers, unpackers of e16, `GlobalTag`) are
not in it: their use is modelled as data with the fields the code reads.
The DAQ library of the e16 front ends is external.  The trigger
proxy of e16 is one end of a protocol whose messages are in a submodule; the
dispatcher and the monitors take one message and give one copy.
Emulators, single-device output, register tables,
displays, checkers and conversion tools are sequential or have nothing that other
parts depend on.  The devices of `exam4` and `exam5` are earlier versions of those of `exam6` that
are modelled, as `exam6/fltcoin.cxx` is one of `flttrig.cxx`; to model them again would say nothing new, although they are a good part
of the lines of the repository.  Log output, file names, compression and histograms are left
out.  `PROJECT.json` gives the reason for each component.

The models do not show memory errors, real times, or message sizes; a data race
is modelled only where the code has one (`RawToDST0`), as a state in which both
threads are at it, and any value read afterwards.

## 8. Plan

The order in which the project was built puts what other parts depend on first:
the time frame builder and its abstract form, the worker threads and what runs on
them (file sink, unpacker), the event builder, the logic filter, the watchdog;
then the chain of `elph2018`, the samplers of `recbe` and `e16`, and the filter of
`exam6` with its players.  All of these are modelled and checked, and the invariants
of all of them are proved, but for one of the last (6).  What a continuation would take up, in this order:

1. *File splitting in the file sink.*  `FileUtil` opens the next file of a run
   when a limit is reached; an `Open` that fails in the modes `create` and `new` leaves
   a stream that drops every later write, and the path name is cleared after the first
   split.  `FileSink` has one file per run.
2. *The event builder's copies for DQM* and its requests for them, and a negative
   number of retries, which tests for a stop only after it succeeds.
3. *Run messages of the `e16` samplers* (begin-run and end-run data) composed with
   `EventBuilder`, whose sources already send them.
4. *Headers, ends and iterations of played files*, so that a player that is stopped in
   the middle of a frame and started again is a behaviour of `FilterReplay`.
5. *The trigger proxy*, should the message types of the trigger system join the
   repository; it keeps begin-run data but sends them only when their size is below
   zero (`e16/TrgDaqProxy/TrgDaqProxy.cxx`, `ConditionalRun`), so never.
6. *`TriggeredHitsKept` as a theorem*: that block `n` of `BlockMap` is of heartbeat `n` for all front
   ends, or `2n - 1` with data and heartbeats apart, along the lines of `BlocksShape` in
   `LogicFilterProofs`, with an invariant that says which heartbeats a frame of `FilterReplay` has.
