# MaaUtils in TLA+

Models, model checks and machine-checked proofs for [MaaUtils](../src), the utility library of
the Maa projects: streams over child processes and sockets, the log, the holder of dynamic
libraries, image buffers, encodings, and the JSON library meojson. All paths below are relative
to `src/`. `PROJECT.json` lists components, runs, mutants, hazards and theorems, and maps every
definition that models code to its lines.

To check a module: `tlc -config X.cfg M`; to check its proofs: `tlapm M.tla`.

## The system

MaaUtils is a library: nothing runs until a consumer calls it, and what is concurrent in it are
the consumer's threads, the threads it starts itself (`accept`, the clean-up of logs), and the
other side of its streams: a child process, its descendants, a socket's peer, the kernel.

| Component | State | Operations | Interacts with | What is hard | What makes it correct |
|---|---|---|---|---|---|
| `ChildPipeIOStream`, reading (`source/IOStream/ChildPipeIOStream.cpp`) | eof and bad bits, the pipe | `read`, `read_some`, `read_until`, `is_open`, `eof` | kernel pipe, child, descendants holding its stdout | timeouts, signals, spurious readiness, short reads, hangup with data left, descendants | no byte lost; right bytes; end of file only at the end; deadlines kept, not early |
| `ChildPipeIOStream`, release | boost's exit status and terminated flag | `running`, `release`, destructor | the process, `waitpid`, `kill` | the child exits between any two calls | reaped; only the child killed; right and stable answer; always returns |
| `ChildPipeIOStream`, writing | the child's stdin | `write` | the child's reading | both pipes full | no mutual wait |
| `LibraryHolder` (`include/MaaUtils/LibraryHolder.h`) | static mutex, count, module, name | `load_library`, `unload_library`, `get_function`, destructor | the loader, all users of a `T` | counting across threads, a destructor that always unloads | loaded while held; unloaded by the last; functions usable while held |
| `Logger` (`source/Logger/Logger.cpp`) | `ofs_`, `log_path_`, `log_count_`, the files | `start_logging`, records, `flush`, `rotate`, `open`, clean-up | all threads, the file system | two critical sections to a flush, an unguarded count, a detached cleaner | written records kept; log open after each flush; logging about logging ends; only old files removed |
| `IOStream`, `SockIOStream` and factories (`source/IOStream/`) | iostream bits, get area, expiry | `connect`, `accept`, reads, `write`, `expires_after`, `release` | boost::asio, peer, accept's thread | who ends a wait; failures that set different bits | no byte lost; end is the end; failed writes noticed; thread joined |
| meojson parser (`include/meojson/parser/`) | the cursor during one call | `parse`, `parsec`, `open` | values | unbounded nesting, surrogate pairs, packed bytes, the end of the text | accepts the language, returns its meaning |
| meojson values (`include/meojson/common/`, `reflection/`) | a tree of owning pointers | access, insertion, erasure, merging, copy, move, `dumps`, `is`, `as`, `get`, constructors, classes and enums | the parser | conversion of empty values on access, moved-from members, a value assigned to its own member, variants and nullables | whole values; failure loses nothing; dumping then parsing is the identity; `is` tells when `as` works; writing then reading is the identity |
| `Dispatcher` (`include/MaaUtils/Dispatcher.hpp`) | map of observers | register, unregister, clear, dispatch | callbacks | callbacks that call back | each observer that stays called once |
| `ImageBuffer` and other buffers (`include/MaaUtils/Buffer/`) | pixels, encoded cache, `dirty_` | set, resize, encode, clear | OpenCV | a cache changed by const methods | cache and pixels agree |
| `Encoding` (`source/Encoding/Encoding.cpp`) | none | `to_u16`, `from_u16` | – | truncated and stray bytes | round trip; never past the end |
| `tools/maadeps_download.py`, `maadeps-extract.py` | archives, what was unpacked, and a cache record on disk | download, verify, unpack, record | GitHub, the disk, one another | rate limits, kills between steps, a release that changes, archives that replace one another | a record that is trusted is of what is installed; finished means installed |
| Windows command line (`source/Platform/PlatformWin32.cpp`) | none | `args_to_cmd`, `cmd_to_args` | the child's start-up | quotes after backslashes | the child gets the arguments |
| GPU choice (`source/GpuOption/GpuOptionWin32.cpp`) | none | `perfer_gpu` | DXGI, the registry | every call may fail | the best usable adapter, none only if there is none |
| Files, image files, strings, time, other platform queries, runtime, UUIDs, helpers | none, or a cached path | helpers | the operating system | little | – |

Nothing in this table is called by anything else in it, with three exceptions: everything logs
(the log is `Logger`'s business only, so no other model mentions it); a log record formats values
through meojson (text, not state); and `ChildPipeIOStream` and `SockIOStream` share the interface
`IOStream`, whose base-class reads only the socket still uses (on Windows the child pipe also).
So most modules do not compose with each other; what composes are the sides of one component: a
reader with a kernel, a child and its descendants, a writer with both pipes and a child that
answers, an owner with a child and boost, threads with a mutex, threads with a file and cleaners,
a stream with a peer and asio, two tools with one disk and a release. The exception is meojson:
`JsonDump` extends `JsonValue` with `dumps` and instantiates `JsonParser` to read what was written,
and `JsonConvert` adds the conversions of the values that `JsonValue`'s operations build.

## The modules

| Module | Models | Checked by | Proofs |
|---|---|---|---|
| `ByteChannel` | abstract: a lossless ordered channel that completes or fails for good | refinement | |
| `ChildPipe` | reading of `ChildPipeIOStream` on POSIX | `MCChildPipe.cfg` with `MCChildPipe` | `ChildPipeProofs` |
| `ChildRelease` | `running`, `release`, destructor | `MCChildRelease.cfg` | `ChildReleaseProofs` |
| `ChildWrite` | `write` with both pipes | `MCParts.cfg` | `PartsProofs` |
| `SharedLibrary` | abstract: a library loaded while somebody uses it | refinement | |
| `LibraryHolder` | `LibraryHolder<T>` | `MCLibraryHolder.cfg`, `MCLibraryHolderFailedLoad.cfg` | `LibraryHolderProofs` |
| `Logger` | `Logger`, `LogStream`, `remove_old_files` | `MCLogger.cfg`, `MCLoggerCleanup.cfg` | `LoggerProofs` |
| `SockStream` | the socket factories, `SockIOStream`, `IOStream`'s reads | `MCSockStream.cfg`, `MCSockStreamMade.cfg` with `MCSockStream` | `SockStreamProofs` |
| `SocketChannel` | abstract: an ordered channel that may be cut short, and ends for good | refinement | |
| `JsonText` | strings and numbers of `parser_impl.hpp` | `MCJsonParser.cfg` with `MCJsonParser` | `JsonTextProofs` |
| `JsonParser` | documents of `parser_impl.hpp` | the same, and `MCJsonParserEnd.cfg` | `JsonTextProofs` |
| `JsonValue` | `value`, `array`, `object` | `MCJsonValue.cfg` with `MCJsonValue` | `JsonValueProofs` |
| `JsonDump` | `dumps` and `format` | the same | |
| `JsonConvert` | `is`, `as`, `get`, constructors, `MEO_JSONIZATION`, enum names, `JsonExt.hpp` | the same | |
| `Dispatcher` | `Dispatcher<SinkT>` | `MCParts.cfg` with `MCParts` | `PartsProofs` |
| `ImageBuffer` | `ImageBuffer`, `ListBuffer::append` of one | the same | `PartsProofs` |
| `Download` | `maadeps_download.py`, `maadeps-extract.py` | the same | `PartsProofs` |
| `Encoding` | `to_u16`, `from_u16` | the same | `PartsProofs` |
| `CommandLine` | `args_to_cmd`, `cmd_to_args` | the same | `PartsProofs` |
| `GpuChoice` | `perfer_gpu` | the same | `PartsProofs` |
| `MCParts` | `ChildWrite` or one of the six above, one at a time | | `PartsProofs` |

Variables have the names of the members they are (`mutex_`, `ref_count_`, `ofs_`, `eofbit` for
`pin_.eof()`), actions those of the functions, with what is special about the branch: the branches
of `read_once` are `PollTimedOut`, `ReadEof` and so on. Each module begins with the state it has and
says what its steps are. An operator called `X_Something`, after the comment "Mutant", is a wrong
version of `X`: with it in place of `X` the property named in `PROJECT.json` is violated, which
shows that the property says something about `X`. Variables commented "history" are not in the code;
they remember what a property speaks of.

### ChildPipe

A call of `read_some` or `read_until` is `Call`, turns of its loop (`EnterPoll`, a poll that ends
in one of five ways, a `::read` that ends in one of four) and `Finish`. `read` is `read_some` of
`SizeMax`. The environment writes bytes, forks, closes; time passes in `poll` (`Tick`) and, at
most `MaxDelay` ticks per call, while the scheduler runs somebody else (`Delay`). A millisecond
is `TicksPerMs` ticks, since `duration_since` truncates: that is where the millisecond in
`DeadlineKept` comes from. A signal or a spurious wakeup comes after at least a tick asleep
(otherwise a storm of them would stop time, which the code cannot help). The `min` with `INT_MAX`
in `wait_ms` is modelled with a small `IntMax`, and mutated into the cast it guards against.

### ChildRelease

`release()` in the order of the code: the waiting loop, the second `running()`, `wait()` or
`terminate()` and `exit_code()`. boost's `child` is external and modelled by what those calls of
version 1 do: `running()` is a `waitpid(WNOHANG)` unless the end is known, `terminate()` asks
`running()` and then kills and reaps, keeping no status. So an exit with 0 in the window after
the grace period is reported as a failure, and `CleanExitKept` says that this is the only way.

### LibraryHolder

Every method is a step up to the mutex and the steps under it, one per change of static state, so
that a missing lock would show. Clients pair `load_library` with `unload_library`, unless they are
in `objects`, which the initial state chooses among `Objects`: those are instances, whose destructor
unloads in any case. `SizeMod` is the width of `size_t`.

### Logger

`trace_mutex_` guards the second half of `rotate`, of `open`, and the writing of one record; each is
one step. `exists`, the count, the two halves of a flush and the cleaner are steps of their own. A
thread has an agenda of what its call has still to do, because an automatic flush happens inside a
record and logs records itself. A log has at most `MaxLogSize` records (16 MiB) when it is rotated
and is not counted beyond; records of the logger itself are anonymous. `failed` remembers the four
things that lose records or leave the log closed with the code's knowledge: a copy or an open that
fails, a file that vanishes before `file_size`, two rotations that overlap. The end of the process
is `Exit`: `~Logger` calls `close`, which logs, counts and may flush like any thread, and then
closes `ofs_` ("gone"). By then the other threads are taken to be over, as for any object of static
storage; an exception in the destructor would end the process. Nothing says that `ofs_` is open at
the end, so `FlushesComplete` is about logs that are not closed for good.

### SockStream

One stream from its making to its release, with asio's `tcp::iostream` as three layers: what the
kernel holds (`pipe`), the get area (`buf`), and the state bits. `istream::read` waits for all it
was asked for and ends early only at an end, an error or the expiry, all of which are eof. The clock
is reduced to "has passed": of a timeout, of the expiry. The bytes the peer sends are numbered, so
that order, loss and repetition show; delimiters are sequences of such bytes, of any length, the
empty one included.

`ByteChannel` is too strong a promise for it: a reset or a release loses bytes, and a read that
expires makes the stream look ended while the socket lives on. `SocketChannel` says what is left:
order, no byte from nowhere, an end that is for good, and, unless something cut it, complete.

### JsonText and JsonParser

The parser has no state between calls; it is operators on a text of lexemes. The behaviours of
`JsonText` are texts that grow lexeme by lexeme, and the invariants compare parser and grammar on
each: on strings and numbers there, on documents in `JsonParser`, which extends it. The grammar
(`Means`, `IsNumber`, `Decoded`) is written by splitting the text, not by descending it. An index
past the end of the text is an error of the run: none occurs, so the parser never reads `*_end` on
these texts. The loop over a string is a recursive function of the place it reads from, and so is
the descent into documents: `rest[i]` is what `parse_value` returns at `i` and what the loops of
`parse_array` and `parse_object` return from the bracket or comma at `i` on. The code's loops append
to a result; here each puts one element before what the rest of the loop returns, with the keys so
far as a parameter, since a key that comes twice is refused. The grammar is a recursive function of
a stretch, from `a` to `b`.

### JsonValue and JsonConvert

A value is its `_type` with what `_raw_data` holds. The code keeps the two apart: a defaulted move
takes the pointer and leaves the type, and `operator=` sets the type before it copies. `NoData` is
the pointer that is then missing; using it would be undefined, so the user in the model touches
no variable that was moved from, or assigned to a member of its own and so damaged (`spoiled`),
until it is assigned again; nor does he move a variable into its own member. `As` is the
conversion that the non-const `as_array` and `as_object` make of anything empty. The operations
take copies of leaves and of whole other variables, so every tree of two levels arises. `steps`
bounds the history, not what an operation does.

The texts of `dumps` are lexemes, the alphabet of `JsonParser`, so a string is one of them;
that bytes are escaped so that they are read back is checked for each byte before each kind of
neighbour in the initial state (`Escaped`, `Unescaped`).

`JsonConvert` translates the templates by the class of the type they are chosen for: values, leaves,
enums, nullables, collections, sets, fixed arrays, tuples, maps, variants, classes and the OpenCV
types. The result of what may throw is a set of at most one native value. What `std::to_string`,
`from_chars` and `tolower` make of a text are tables of the configuration, with a number that does
not fit, one that loses its digits, and names alike up to case. Of a conversion that moves
(`MoveReading`) the result is modelled: that an empty value becomes the container asked for, and
that members are copied all the same. What it leaves in its source, an emptied container, is not.

### Dispatcher, ImageBuffer, ChildWrite, Download

`Dispatcher`: a dispatch is a frame that stands on an element of the map. From an element that its
own callback erased, the loop goes anywhere: that is what the code does with the freed node. Other
changes of a `std::map` leave the iterator alone. `EachOnce` claims nothing of a dispatch whose
current element was erased: the class promises nothing for an observer that unregisters itself, and
an observer that needs it must not. An observer may throw (`Throws`): the exception leaves its
dispatch, and those around it up to an observer that catches, and what they had not called is not
called; the map is as the observer left it.

`ImageBuffer`: a `cv::Mat` is a handle, and two handles may have the same pixels. `get` and the
constructor share them (`shared`), `set` clones them. Pixels written through a shared handle after
encoding make the cache stale (`behind`), which the class cannot see; all else is its business. A
failing `imencode`, `cv::resize` or `imdecode` leaves what the code has assigned up to there.

`ChildWrite`: bytes are counted, and the pipes have one capacity. The flush of `std::endl` blocks at
a full pipe; the child answers each byte with `Answer` bytes and does not read on before they are
written. Once `pout_` has gone bad `write` answers FALSE and does nothing (`WriteRefused`).
`WriteReturns` says how much may be written before anything is read: as much as the child can take
in while its answers still fit in its stdout (`Fits`). A larger request and an echoing child wait
for each other for ever, which is the rule for a pipe and is left to the caller; the model shows
where the border is.

`Download`: a file stands for its content and a digest for the content it is of. Any run may stop at
any step (`Stop`: an exception, a kill), leaving `Torn` files; the release may change between steps.
Two runs at the same time are excluded: nothing in the tool guards against them. All archives are
unpacked into one directory, `maadeps_dir`, so `deps` says of each part of it which asset it came
from. What is in the archives is outside the repository; assumed is that the unified one brings what
`devel` and `runtime` bring, and that these two do not overlap, so that there are two parts, the
unified asset goes to both (`Places`), and unpacking it replaces what either of the others left, as
theirs replaces its. The record knows nothing of this: it keeps the digests of assets that were
since replaced. `TrustedMeansInstalled` says what saves the tool: an asset is looked up only if the
release has it as the one to install (`Trusted`), and as long as each run used the cache and no
asset became again what it once was (`orderly`), a digest that matches was recorded by the last run
that unpacked there. `FinishedMeansInstalled` says the same of the end of a run, and that a run
without the cache repairs whatever is there. The case in which the code fails, a record that
outlives what it is of, is the one `orderly` excludes: an extract or a run without the cache in
between, or a release that goes back to the pair it had before a unified asset.

### Encoding, CommandLine, GpuChoice

Functions, compared with a reference on every input of a bounded set. `Encoding`: the standard's
own arithmetic (`Utf8`, `Wide`), on texts around every border of the two encodings with stray bytes
between and a character cut off behind. `CommandLine`: Microsoft's rules for splitting a line,
character by character; all arguments of up to six characters, and pairs of up to three.
`escape_one` does not reset its count of backslashes after a quote (`PlatformWin32.cpp:121`), and
`ArgumentsSurvive` names exactly the arguments that are spoiled by it (`Recounted`). `GpuChoice`:
adapters are records of the system's answers, `None` where a call fails; up to two adapters
lacking anything, or three that lack nothing. An `EnumAdapters1` that fails for every index would be
asked without end (`GpuOptionWin32.cpp:179`); the model has a last index.

## What the runs show

| Run | Shows | Bounds |
|---|---|---|
| ChildPipe | bytes conserved, end of file complete, deadline kept, no overreading, reads return, refinement of `ByteChannel` | 4 bytes of 2 kinds, a descendant, pipe and buffer of 2, timeouts below, within and beyond one poll |
| ChildRelease | reaping, killing, answers, termination | 3 exit statuses, grace of 2 ticks |
| LibraryHolder | users that pair their calls share one library as if atomically; with an RAII instance the count still agrees with the library | 3 threads, of which one may be an instance, 2 libraries |
| LibraryHolderFailedLoad | **violated**: an instance that loaded nothing unloads the library of another | the same |
| Logger | no record lost but where the code knowingly loses it, every flush brought to its end | 2 threads, one starting the log, a rotation after 2 records, one racing count, one failure of each kind |
| LoggerCleanup | **violated**: clean-up removes the log that has just been opened | the same, no flush |
| SockStream | bytes conserved, one false claim at most, thread joined, reads return, refinement of `SocketChannel` (so an end is complete, or cut, and for good) | 4 bytes, buffer of 2, delimiters of none, one and two bytes |
| SockStreamMade | **violated**: a failed connect or accept returns a stream | 2 bytes |
| JsonParser | parser and grammar agree on documents, strings, numbers | all texts of 5 lexemes, and those that add 5 to starts that matter |
| JsonParserEnd | **violated**: content behind a document is accepted after a slash | 3 lexemes |
| JsonValue | values stay whole, failure loses nothing, `dumps` and the parser agree, `is` and `as` agree, conversions round-trip | 2 variables, 4 operations, 2 keys, 2 elements, 2 levels, 27 types |
| Parts | a dispatch calls each once; cached bytes are the image's; a trusted record is of what is installed; finished means installed; writes that fit return; encodings are inverse; arguments survive; the best GPU is picked | 2 dispatchers with 3 registrations and 2 frames; 2 buffers with 2 Mats; 3 contents and two changes; pipes of 3; the inputs above |

Why the bounds are enough. In `ChildPipe` every interesting case needs at most two bytes on each
side of a cut (a delimiter of two bytes cut in two, a buffer filled and left), one descendant, and a
timeout longer than one poll; the proofs remove the bounds altogether. `ChildRelease` has no bound
but `MaxTime`, beyond which nothing depends on time. Three clients make a holder, one who leaves and
one who arrives at the same time. Two threads make every overlap of two critical sections;
`kMaxCount` must exceed twice the number of threads, else a flush, which logs two messages here and
eleven lines in the code, would count to the next flush (a million in the code). Four bytes fill a
get area twice. Five lexemes after `{s:v` reach a second member with a comma behind it, after `[[v`
a second element and two closing brackets. Four operations on values make a tree of two levels in
one variable, move or merge it into the other and use the result. Two frames make a dispatch within
a dispatch of the same or another dispatcher; three ids an observer before, at and after the one
being called. Two buffers and a program's own handle share two Mats in every way. Two changes of the
release fall before, between or after the steps of any run: with them a unified asset comes and goes
again, and the pair is then what it was; runs follow each other without bound.

`MCJsonValue` uses the symmetry of the two variables; its properties are invariants and one
property of steps, none of liveness, for which symmetry would be unsound. `MCParts` runs each
component by itself under one configuration: its initial state chooses the component, whose
`Next` then moves its variables and leaves those of the others, so that the states are the sum
of the components' and not their product.

`CHECK_DEADLOCK FALSE` stands where the system may stop: a destroyed stream, threads with nothing
more to log, a text as long as the bound.

Fairness. `ChildPipe`: the reading thread runs and the clock advances while it sleeps; nothing is
asked of the child. `ChildRelease`: the thread in `release()` runs, the clock advances and a SIGKILL
is obeyed. `SockStream`: the reading thread runs and times pass; nothing is asked of the peer.
`ChildWrite`: the thread in `write` runs, and the child reads and answers while it lives; it need
not live. All others are checked for safety only and assume none.

### Disagreements found

1. `~LibraryHolder` calls `unload_library` though the instance may have loaded nothing
   (`LibraryHolder.h:43`), and takes the library from a user who has it loaded.
2. `remove_old_files` removes by name what was old when it looked (`Logger.cpp:141`, `148`);
   `start_logging` reopens that file in between, and its records go with it.
3. `connect()` and `accept()` test `eof()` of a stream whose failure is failbit or an exception
   (`SockIOStream.cpp:47`, `66`); they return a stream that says it is open and cannot be read.
4. `parse()` takes any FALSE of `skip_whitespace` for the end of the text
   (`parser_impl.hpp:41`), so content after `/` or NUL is accepted.

Modelling showed more that no comment or test speaks of, so that no run refutes it. A second
surrogate may come after other characters: `\uD800\u0041\uDC00` is accepted, and with packed bytes
also plain characters in between; `SurrogatesMatched` is what does hold. A read of a failed socket
stream without a timeout spins for ever; `ReadsReturn` excludes it. `accept()` that times out waits
for the next client, and drops it. `escape_one` spoils arguments in which a quote after backslashes
is followed by another, or by the end (`Recounted`). A value assigned to its own member has a member
without data (`SetSelf`); `cv::Point` and its like read behind the end of an array that is too short
if `is` was not asked before (`ReadPoint`, `Wild`); a variant that holds a later alternative is read
as an earlier one that accepts the same text (`Unambiguous` excludes it). A record of the download
tool outlives what it is of (`orderly`): after `maadeps-extract.py`, a run without the cache, or a
release that went back to an earlier pair, the next cached run may pass over an asset that is no
longer installed.

## What is proved

| Theorem | Says, for all values of the constants |
|---|---|
| `PipeCorrect`, `PipeTypeCorrect`, `BytesConservedAlways`, `EofMeansCompleteAlways`, `NeverOverreadsAlways`, `DeadlineKeptAlways` | the safety properties of `ChildPipe` |
| `ImplementsByteChannelAlways` | `ChildPipe` implements `ByteChannel` |
| `ReleaseCorrect`, `ReleaseTypeCorrect`, `SuccessIsRealAlways`, `ReleaseReapsAlways`, `CleanExitKeptAlways`, `KillsOnlyTheChildAlways`, `AnswerStableAlways` | the safety properties of `ChildRelease` |
| `CountCorrect`, `TypeCorrect`, `LoadedIffCountedAlways` | the count of `LibraryHolder`, with any instances |
| `HoldersCorrect`, `HoldersKeepLibraryAlways`, `FunctionsLiveAlways`, `ImplementsSharedLibraryAlways` | the promises to users who pair their calls (`objects = {}`) |
| `LoggerCorrect`, `RecordsKeptAlways`, `FlushesCompleteAlways` | no record lost, every flush brought to its end |
| `DispatchCorrect`, `EachOnceAlways` | a dispatch calls each observer once |
| `BuffersCorrect`, `CacheFreshAlways` | cached bytes are the image's |
| `DownloadCorrect`, `TrustedMeansInstalledAlways`, `FinishedMeansInstalledAlways` | what a trusted record names, and what a finished run leaves, is installed |
| `FitsUntilWrittenAlways`, `NeverStuckAlways` | a write that fits goes on fitting, and program and child never both wait |
| `PicksBestGpuAlways`, `PicksBestGpuHolds` | the adapter picked is the best, of any list |
| `EncodingsInverseAlways`, `EncodingsInverseHolds` | the conversions are the standard's and inverse, on any text |
| `ArgumentsSurviveAlways`, `ArgumentsSurviveHolds` | a child gets any list of arguments it is given, exactly if `escape_one` counted no backslashes twice |
| `NumbersParsedAlways`, `StringsDecodedAlways`, `SurrogatesMatchedAlways` | numbers and strings of any length are read as the grammar has them, with packs of any width |
| `DocumentsParsedAlways` | documents of any length and depth are accepted, and mean, what the grammar says |
| `ValuesInOrder`, `WholeUnlessSpoiledAlways`, `FailureLosesNothingAlways` | JSON values stay whole, failures lose nothing |
| `StreamCorrect`, `SockStreamProofs!BytesConservedAlways`, `...EofMeansCompleteAlways`, `...NeverOverreadsAlways`, `OneFalseClaimAlways`, `AcceptThreadJoinedAlways` | the safety properties of `SockStream` |
| `ImplementsSocketChannelAlways` | `SockStream` implements `SocketChannel` |

**ChildPipe.** Assumed: sizes are naturals, `DurationMax > IntMax`, timeouts are integers up to
`DurationMax`. Any bytes, delimiters, counts, descendants. The invariant `PipeInv` adds three
parts to the properties. `WorkLeft`: in `poll` and `read` the stream is open and the request not
met, so what is read next is still wanted (for `NeverOverreads`). `WaitFits`: the ticks left in
`poll` end before the deadline's millisecond is over (for `DeadlineKept`; it rests on lemmas about
division). `EofIsFinal`: eof is only ever seen with no writer and an empty pipe, which are for
good, since only a writer can write or fork. The refinement maps `sent` to all that was written,
`received` to all that was returned, and shows each step to be one of the channel's or invisible.

**ChildRelease.** Assumed: the code for "still active" is no exit status and not 0. `ReleaseInv`
follows the code: boost knows of the end exactly if the child was reaped (`ObservedIffGone`); on
the way to the kill it was not (`StillThere`) and the grace period is over (`PatientFirst`); the
exit code is asked for after the end (`EndedBeforeCode`); what was killed, or lost in the window,
left no status (`KilledUnseen`, `LostInWindow`, `EndedInWindow`); answers fit (`AnswerFits`).

**LibraryHolder.** Assumed: finitely many clients, fewer than `size_t` counts. The invariant says
that the mutex excludes, that the count is what the clients' places in the code and holdings make
it, and that the library is loaded exactly while the count is positive, up to the steps between.
For the second group the count is the number of holders, which needs the counting lemmas of
`FiniteSetTheorems`.

**Logger.** Assumed: finitely many threads, and `kMaxCount` more than twice their number, which is a
million in the code. Any records, flushes, starts, sizes and lost races. First the shape of an
agenda: what `rotate` and `open` leave half done comes first, behind it only what may wait
(`Shaped`). Of the threads, then: unless two rotations overlapped, at most one is between its
`rotate` and its `open` (`OneOpens`), and the log it is about to empty is closed with its records
elsewhere (`Copied`), so that emptying it loses none. A closed log has a thread that will open it,
or the file could not be opened (`AboutToOpen`). The count is below `kMaxCount` but for the threads
that are about to reset it, and, for each race lost, one record of every other thread
(`CountBound`). That last term is larger than the model claimed before the proof: a reset that is
overwritten by a slower store is made good by one record of each thread, not by one record, which a
run with a single race and two threads cannot tell apart. When the program ends all agendas are
empty, so that of `~Logger` is in shape; a flush that its record sets off comes before the closing,
which is the last thing on the last agenda (`ExitGoes`).

**Dispatcher.** Nothing is assumed. The invariant `FrameInv` says how far a dispatch has come: it
has called nothing beyond the element it stands on, and of those it began with and that still are
registered, everything up to it. It is inductive because ids only grow: what a callback registers
comes behind. That the loop finds a next element if there is any needs a least element of a set of
numbers (`WellFoundedInduction`). An exception takes frames off the top and leaves those below as
they are.

**ImageBuffer.** Assumed: `None` is no Mat. The invariant adds to `CacheFresh` that a Mat in the
hands of the program and of a buffer was handed over (`SharedOpenly`); so a write from outside
reaches only buffers that are then `behind`, and a new Mat is nobody else's.

**Download.** Nothing is assumed; any number of contents and changes. The invariant follows a run
(`StepsInv`): what did not change is as the run knows it, so what it unpacks is what it queried, and
that is installed before it is recorded. For orderly use (`VouchingInv`): nothing on the server
comes back (`Known`), and the record is of what was there, of one of the pair only if there was once
no unified asset (`Booked`). So no later release makes the record trusted again (`VouchedLater`),
and what a run unpacks is nothing that the record vouches for, neither by its own name nor, since a
unified asset and the pair are never looked up together, by that of what it replaces (`Unvouched`);
therefore what the record would be trusted for stays installed, between runs (`VouchedBefore`) and
within one (`VouchedNow`). For the second theorem, the assets already done are installed (`Done`);
one of the pair unpacked over the other's half leaves it alone (`PutPuts`).

**ChildWrite.** Assumed: a pipe that holds something. What fits at the call of `write` fits after
each step (`FitsUntilWritten`), and while it fits there is room in the child's stdin, or the child
can read, or can write (`NeverStuck`). These two are the safety half of `WriteReturns`; that the
steps are then taken is fairness, which TLC checks.

**GpuChoice.** Assumed: `None` is no number, and each answer of the system is `None` or of its type.
`Choose` is the loop of `std::max_element`; that it keeps the best of the adapters seen so far is
shown by a least counterexample, as are all inductions here: the places where the claim fails are
a set of naturals, and a least one contradicts the step before it. Its order is total on what is
usable, and ties go to the first, because `Less` does not hold of equals.

**Encoding.** Nothing is assumed: any text of scalar values, any bytes that begin no character
(`Stray`) between them, any character cut off anywhere at the end. For one character: the arithmetic
of `char32_to_utf8` and of the readers gives the standard's bytes and back (`WritesUtf8`,
`ReadsUtf8`, `WritesWide`, `ReadsWide`), by cases on its length. For the loops, which are recursive
functions of the place they read from: such a function exists and unfolds (`TurnsDefined`), stray
bytes are passed over (`Skips`), and a loop whose reader recognises a character before anything
else converts a text to the concatenation of what its characters become (`LoopConverts`); the two
loops are instances, for either width. The run's inputs are among these texts (`TextsAreTexts`).

**CommandLine.** Nothing is assumed: any list of arguments over any characters. The line is followed
in step with `escape_one`, character by character (`Sound`). As long as no backslashes were counted
twice and met another quote (`Counted`), what was read is what was written, up to the backslashes at
the end, which the split holds back (`Read`); and `escape_one` has counted just these, or more if
the last character before them is a quote that had some before it (`Noted`). A quote then makes the
pending backslashes odd and of the right number, or more than twice too many; then a backslash is
read where the argument has a quote, or more is read than there is, and since the split only
appends, what has strayed from an argument never becomes it (`Lost`, `SplitLost`, `WalkLost`). So
both directions of the equivalence come out of one induction; over the list, `Line` says the same of
the arguments so far. `escape_one`, `args_to_cmd` and the walk of the split are recursive functions
of the place, shown to exist and unfold (`Iterates`, `EscapeIs`, `LineIs`, `WalkIs`).

**JsonText.** Assumed: the texts to begin with are sequences of lexemes, that of a number has a
first character, and a pack is not empty (`ParserAssumption`). That texts stay such is the whole
invariant (`Written`); what is proved is what the operators make of any such text. Numbers: what
`skip_digit` finds is the first place without a digit, so that sign, whole, fraction and exponent
end where the grammar splits the text, and conversely a number so split is what is skipped. Strings:
the loop exists as a function of the place and the waiting surrogate, shown from the end of the text
backwards (`RowsDefined`), as are all claims about it. A pack skips plain characters only, however
the packs fall, before the one character that a turn of the loop is about. At each turn `pair_high`
is set exactly if the last surrogate before it is a first one, for otherwise the string is refused
(`Alternates`); and what is said so far, joined to what the rest will say, is what the grammar says
of the whole (`StringDecodes`).

**JsonParser.** Assumed, besides: a scalar is no punctuation, blank or stop (`ScalarsDiffer`).
The parser walks the text with its blanks, the grammar splits the text without them: `Reading`
counts, at each place, the lexemes that are spoken before it. Both recursions are shown to exist,
the parser's from the end of the text backwards since each call goes on (`Onward`), the grammar's
from short stretches to long ones (`CellsDefined`). That they agree at a place (`Agrees`) is two
claims for a value, for the rest of a list and for the rest of a map under any set of keys: what is
returned is meant by the stretch up to where it ends, and what any stretch from there means is
returned, with that end. The second is why the parser need not look ahead: no two stretches from a
place mean something. Each claim at a place follows from both at the places behind it (`Beyond`),
with JSONC's comma before the bracket as a case of its own (`Nothing`).

**JsonValue.** Assumed: leaves are not containers (`JsonAssumption`) and the missing pointer is no
function, so that it is told from an array or object (`NoDataIsNone`). The invariant `Fine` says of
every variable that is not spoiled, and of all that is nested in it, that its data is of the type
it says it has; it is preserved member by member, by induction over the depth of nesting, so that
operations may nest values to any `MaxDepth`. A failing operation changes nothing but what it had
begun to convert (`ConvertedKept`), and what it converts was empty.

**SockStream.** Assumed: sizes are naturals, the buffer is not empty (`SockAssumption`). The
invariant follows the bytes through the four places they pass (`Way`): what was returned, the result
so far, the get area, the kernel. They are in order, and complete unless the connection was reset or
released (`Flow`); eof is only set with nothing left, and is for good (`Ended`); a write that failed
is remembered by the stream's bits (`Claimed`); what `istream::read` has still to get was asked for
(`Wanted`, for `NeverOverreads`; it and `EofMeansComplete` are proved and not in the run). It rests
on the library's facts about sequences. The refinement of `SocketChannel` maps `sent` to the bytes
so far, `received` to what reads have returned with the result so far, `closed` to a connection that
is not open once there is a stream (a failed connect closes), `cut` to the history of that name and
`ended` to `~is_open`. That a read which takes bytes is a `Receive` needs `Flow` before and after
it; that one which ends is an `End` needs that nothing was left, or a `GiveUp` if it had expired.

**MCParts.** Each step of the composition is a step of the component that runs or leaves its
variables alone, so the component's theorem carries over.

Only model-checked: liveness (`ReadsReturn`, `ReleaseReturns`, `WriteReturns`), out of reach of
TLAPS; what `dumps` writes for the parser and the conversions (`DumpParses`, `ConversionsAgree`,
`RoundTrips`), whose operators are `RECURSIVE` over values and types, in modules that TLAPS
therefore does not enter; and `DumpParses` reads each text through an instance of the parser with
that text as its parameter, whose theorems `tlapm` cannot cite. Recursion over a structure that is
not a sequence, a stretch or a depth would need induction over data, which TLAPS has only through
theorems it cannot instantiate here; recursion over numbers is written as recursive functions and
proved by least counterexample.

## What is not modelled, and the plan

Done, in this order: the child pipe (the code the repository's own tests are about), release, the
library holder, the log, sockets, the parser; then values and conversions, dispatcher, image buffer,
download, writing, encodings, command line, GPU choice. What is left of the plan: `parse(istream)`
and the byte-order mark, in front of the parser.

Not modelled: the Windows reader of the child pipe (`istream::read`, as in `SockStream`) and the
stubs without Boost.Process; what the operating system answers (processes, adapters, library paths);
the instruction sets behind packed bytes, which differ in width only; how the preprocessor and
`name<>()` find members and enumerators at compile time; comparison, iteration and streaming of JSON
values, which change nothing; what a conversion of an rvalue leaves in its source; number formatting
and parsing of the standard library, which are tables of the configuration; the depth of recursion,
which nothing bounds; singletons and scope guards. Texts of log records are nowhere modelled: two
threads that share `localtime`'s buffer, or log a name another is changing, spoil a line and nothing
else. The assignments of `log_path_` without the lock are single steps: torn paths are undefined
behaviour with no outcomes to tell apart.
