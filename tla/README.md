# CoreConnect binary API clients: verification project

The repository holds two sample clients for the binary API of an exchange, the
C++ libraries they are built on, and three third-party libraries kept beside
them. This directory models the libraries and the clients in TLA+, checks the
models with TLC and proves theorems about the logger, the framers, the tcp
library, both clients, what they encode and the small libraries with TLAPS. Paths
below are those of the repository.

## The system

| component | code | state | operations | here |
|---|---|---|---|---|
| logger | `util_lib/logger` | current buffer, dirty and clean pool, modes, file name, two mutexes, a condition variable, the disk writer thread | `LOG`, `flush`, enable/disable of buffering, asynchronous mode, file and stream, `set_new_file`, levels, destructor, `hexdump`; the disk thread's loop | `Logger`, `LogBuffer`, `HexDump` |
| framer | `util_lib/generic_framer` (three classes) | per stream: parser state, bytes of the frame so far, bytes required | constructor, `parse_raw_rx_data`, `clear` | `Framer` |
| tcp | `util_lib/tcp` | descriptor, mode, `O_NDELAY`, addresses and ports per object | `connect`, `listen`, `set_mode`, `close`, `read_data`, `write_data`, `set_remote_host`, `set_remote_port`, `set_listen_port` | `Tcp`, `Endpoint` |
| load test client | `src/binary_gateway_load_test_client.*` | connection, idle counts, a load test (orders to send, tag, batch size), states of three phases, tags without an answer, statistics | an event task: start, timers, socket, console with JSON texts; detached bulk threads | `LoadTestClient`, `OrderStats`, `JsonCommands` |
| sample client | `src/sample_test_client_moonx.*` | two connections, idle counts, what a prompt has asked, the last requests, state of `cin` | `main` and an event task: start, timer, socket, console, prompts | `SampleClient`, `Prompts` |
| binary API | `api/moonx_binary_api.hpp` | none | message layouts | `Messages` |
| fields | `util_lib/fields` | buffer, length, iterator | add, get, `insert`, `copy`, `clear`, `get_reset` | `Fields` |
| configuration file | `util_lib/file_config` | multimap, two iterators | `read_file`, `find_key`, `read_reset`, `read_key_value` | `FileConfig` |
| multicast | `util_lib/multicast` | descriptor, mode, kind of open | open, close, read, write, mode, timeout | `Multicast` |
| latency | `util_lib/latency` | a histogram | `add`, `calc`, `reset_counters`, the display range | `Latency` |
| time | `util_lib/time` | cached text of the second | times of day and from the epoch, dates, days of the year, their texts | `Clock` |
| eventpp | `eventpp/include` | a list of callbacks with a counter; a queue, its free items and two counters | append, prepend, insert, remove, invoke, the removers; enqueue, process, take, clear, wait | `CallbackList`, `EventQueue` |
| linenoise | `linenoise/src` | line, cursor, kill ring, history with its indices, the rows on the screen, the terminal's mode | every key of the editor, the history and its search, the list of completions, decoding of keys, redrawing, entering and leaving raw mode | `LineEditor`, `LineHistory`, `KeyDecoder`, `ScreenLine`, `Completions`, `TerminalMode`, `Utf8` |
| rapidjson | `rapidjson/.../include` | parser stack, writer levels | reading (two parsers), writing, encodings, integers | `JsonReader`, `JsonWriter`, `JsonStrings`, `JsonNumbers` |

The event engine (`ev_manager`, `ev_epoll`), restclient, POSIX sockets and
threads are not in the repository. They are modelled from how the code uses
them; `PROJECT.json` marks those definitions external.

How the parts interact. A client is one event task: the engine delivers a timer,
a readable descriptor or a console line, a handler runs to its end and the next
event follows. `main()` reads lines with `linenoise` and sends them to the task.
A handler writes frames with `tcp_connection::write_data`, which waits in
synchronous mode; reads go through `tcp_connection::read_data` and a framer,
which calls the client back for each frame. Every part logs, from any thread,
through one logger whose asynchronous mode hands buffers to its disk thread. In
the load test client the bulk threads write to the same connection as the task,
and JSON texts from the console, read with rapidjson, fill frames. In the sample
client the task's prompts read the same standard input as `main()`.

What is hard, component by component, and what makes it correct:

* **logger**: buffers pass between threads under changing locks, the thread may
  start late, the name of the file changes while lines are queued. A buffer is
  in one place at a time, no wakeup is missed, no line is dropped, doubled or
  misplaced, and every call returns.
* **framer**: frames arrive in any cut, on many streams, and an error drops the
  rest of a chunk. What is delivered depends on the bytes alone; the buffer is
  never overrun; the loop ends.
* **tcp, multicast**: any of several calls may fail between `socket()` and the
  hand-over, and a write may be taken in part. A descriptor has one owner and is
  not lost; a stream arrives whole; the mode is what the object reports; a
  connection goes where the texts said and tells its ends; a datagram of no bytes
  is not a failure.
* **load test client**: a load test lives from round to round by a timer, while
  phase timers whose cases fall through, commands and other threads change what
  it reads. Orders are accounted for, the batch size is that of the phase, a
  test completes, a silent gateway is noticed, the statistics add up, and a
  logged line writes its order again.
* **sample client**: two readers of one input, two connections with one flag,
  and prompts that hold the task. No request without a confirmation, the request
  is what was answered, no use of a null connection, the program ends after q, a
  silent gateway is noticed.
* **fields, log buffer, dump, configuration file, clock, histogram**: sequential,
  with bounds, caches and calls that fail half-way.
* **eventpp**: the list changes while loops are at it, and parts of the queue are
  read without its mutex. The list stays whole, a callback is called once by a
  loop, an event is handled once, no waiter sleeps beside an event.
* **linenoise**: the meaning of a key depends on the keys before it, and the
  screen on what was drawn before. A run of kills is one entry to yank, an index
  names the line shown, a key is read as itself, the screen shows the line,
  each completion is listed once, and the terminal gets its mode back.
* **rapidjson**: two parsers for one language, and integers of several types for
  one value. The parsers agree, what is written reads back.

The list `hazards` of `PROJECT.json` has each of these at its line.

## Modules

| module | models | how it corresponds |
|---|---|---|
| `Logger` | `logger.cpp`, `logger.hpp` | one action per stretch between two points where another thread may run. A call takes `m_lock`; `DoWork`, `Push`, `SyncWrite` are `p_do_work()`; `Poll` is the loop of `disable_async()`; `DiskStart` to `DiskRecycle` the disk thread. `Scenarios` says which calls an application makes. |
| `FifoLog` | what the logger promises for one file | a first-in first-out pipeline of lines: abstract, models no code |
| `MCLogger` | | the scenarios, and the refinement mapping to `FifoLog` |
| `LogBuffer` | `logger::process_data()` | a step per character: header, end of line, full buffer |
| `Framer` | the three framers | `Parse` is the entry of `parse_raw_rx_data()`, `Hdr1` to `BodyRound` a round of its loop, `Return` its end. Bytes are digits to the base `Base`, so that length fields are small numbers with the same arithmetic, the unsigned wrap included. |
| `HexDump` | `operator<<` of a dump | a step per row, and per buffer written |
| `MCFramer` | | the wires, and the reference parser that reads bytes at once |
| `Tcp` | the four classes and the kernel | objects, descriptors, sockets and pipes. A blocking call is two or more actions; between them other objects act. |
| `Endpoint` | hosts and ports of client and server | one action per call; the lookups find what their tables have, or leave what they looked at last |
| `LoadTestClient` | the client | one action per event handler; writes of frames and rounds of the load loop are actions of their own because the bulk threads run between them |
| `OrderStats` | `OrderStats::Set()` and who calls it | orders and answers as bytes in the union of all messages, with what shorter frames leave behind |
| `JsonCommands` | the console commands with a JSON text, and the line that is logged for an order | one action per command: a text gives the bytes of a frame |
| `SampleClient` | the client | one action per handler or read; a prompt is one action per field, then the confirmation |
| `Prompts` | the fields of the prompts, `prompt<T>()` and the frames | one action per `cin >>`; a word may outlive the prompt it was typed for |
| `Messages` | the API header | a layout is the sequence of a struct's fields and widths |
| `Fields`, `FileConfig`, `Latency`, `Clock` | the four libraries | one action per call; `read_file()` a step per line, which `LineOf` makes of its text as `clean_line()` and the parsing do |
| `Multicast` | the class, its socket and errno | one action per call |
| `CallbackList` | `callbacklist.h`, the removers, `eventutil.h` | a step is what a thread does under the mutex, or one read without it |
| `EventQueue` | `eventqueue.h` | the same, with `wait()` in two steps, between which the mutex is held |
| `LineEditor`, `LineHistory`, `KeyDecoder`, `ScreenLine` | `linenoise.cpp` | one action per key: what it does to the line and the kill ring, to the history, as bytes, and on the screen |
| `Completions` | the second Tab | a step per screen of the list, per row and per answer to its questions |
| `TerminalMode` | raw mode, `linenoiseAtExit()`, ^Z | an action is a call with its system calls, of which any may fail; other programs set the mode between lines |
| `Utf8` | `ConvertUTF.cpp` | functions from sequences to sequences: six conversions between three forms |
| `JsonReader` | `reader.h`, the handler in `document.h` | an action per token for `IterativeParse()`; the recursive parser is an operator on the tokens read so far |
| `JsonWriter` | `writer.h`, `prettywriter.h` | one action per call of the handler |
| `JsonStrings`, `JsonNumbers` | strings in five modes, integers | functions, over texts of a few pieces and over the limits of the types |
| `MCUtilities`, `MCLibraries` | | the parts above that work alone, by `INSTANCE`, one at a time |
| `MCTcp`, `MCLoadTestClient`, `MCSampleClient` | | instances for TLC |
| `LoggerProofs`, `FramerProofs`, `TcpProofs`, `LoadTestClientProofs`, `SampleClientProofs`, `UtilitiesProofs`, `MessagesProofs` | | theorems |
| `Recursions` | | induction over numbers, that recursive functions exist, and what folds, sums, layouts and encodings give: lemmas for the proofs |

A variable that no code has is under "history" in its module and is read by
properties only. An operator marked "variant" is a slightly wrong form of the
next one; `PROJECT.json` (`mutants`) says which property fails with it.

## Runs

| run | configuration | asks |
|---|---|---|
| `logger_async` | 2 threads, 5 buffers, 4 lines, 2 lines a buffer | ownership, wakeups, no loss, every call returns; where asynchronous mode is never left, implements `FifoLog` with its liveness |
| `logger_files` | 1 thread, 2 files, 3 lines, I/O errors, three kinds of application | once, in order, in the right file; the name is stable while it is used |
| `logger_rename` | 1 thread, 2 files, asynchronous | violated: `RightFile` |
| `framer_all` | 2 streams, maximum 0 and 9, length fields 0 to least + 3 | bounds, well-formed frames, equal to the reference, progress |
| `tcp` | client, server, a connection each, 3 descriptors, 2 links, a pipe of 1 byte, writes of 2 | owners, leaks, modes, streams |
| `tcp_retry` | the same, no failing `fcntl` | violated: `ConnectKeepsTrying` |
| `load_test_client` | 2 orders, tags to 3, batches of 1, 2 and 20, 2 commands, 1 bulk thread | the five properties of the module |
| `sample_client` | lines q, 1, 2, y, 3 of them, prompts of 1 field, idle limit 1 | the four properties of the module |
| `sample_menu` | the same | violated: `MenuHonoured` |
| `utilities` | see below | one property for each of nine modules; that of `LogBuffer` is of `HexDump` too |
| `order_stats` | 2 instruments, 2 orders, 2 answers | violated: `ResponsesAreAnswers` |
| `libraries` | see below | four properties, each of the modules of one library |

Why the bounds are enough to be of interest. Logger: five buffers are one in the
application's hands, one queued, one with the disk thread, one recycled and one
to allocate; two lines to a buffer make full, part-full and empty buffers. A
handler of one thread meets the other in each of its phases. Framer: length
fields run from below the header to past the maximum, and the wires make every
cut of two frames with a second stream in between. Tcp: three descriptors allow
a leak to be followed by reuse of its number; a pipe smaller than a write makes
partial writes and `would_block`. Load test client: two orders and batches of 1,
2 and 20 end a test within a round, at its end and after several; the idle limit
is the code's 6 made 2. Sample client: three lines are a command, its prompt and
a confirmation, or a q lost among them.

`utilities`. Fields of a buffer of 5 bytes and a log buffer of 4 with headers of
3, the most that fits: the sizes are the smallest at which every limit is met
from below, exactly and from above. Files of 5 lines hold a section with three
pairs. The clock takes times on both sides of an hour, midnight, a new year and
a leap day, at four offsets. A histogram of 5 for the code's million, with
ranges that divide it, that do not, that are refused, and 0. Two orders and two
answers over three tags, with a frame of another type between, reuse a tag, answer
one twice, or find bytes of another frame. Two requests, of which the second
meets the first one's values, with two unusual answers. JSON texts of two
members have a name twice and in any order. A dump of 9 bytes into a buffer of 40
cells has rows of 1, 2, 3 and 9 bytes, of which one or several fit, or none, and
of 0. Ports of two digits to the base 4 are a number, one too large, and services
and hosts that the tables have or not.

`libraries`. Two datagrams, of no bytes and too long, and two ticks of time. Two
callbacks with a counter that overflows at 3 are enough for each to be added,
removed and inserted around the other while a loop holds it, and three without an
overflow for one to go between two others; two events and three threads, of
which one waits. A line of three characters is full; a ring of two entries
wraps, and an entry that kills lengthen has up to 4 characters (`MaxEntry`), more than
a line; a screen of four columns is met by wide and combining characters at its
edge. Three entries of history meet its maximum, which a call can make 2. Keys of
every escape sequence follow one another, whole or after stray bytes. JSON texts
of six tokens hold a container in a container, with the errors after each. Strings
of three pieces make surrogate pairs and the bytes of UTF-8 whole, cut and
misplaced; integers of 8 and 16 bits stand for those of 32 and 64, and
doubles with 13 exact bits for those with 53. Five
completions of one or two characters stand in one or two columns, on screens of
one to three rows. A terminal has two modes besides raw.

Other bounds are in the modules where they act. `Broken` (`CallbackList`), `broken` (`LineHistory`)
and `Astray` (`ScreenLine`) stop a behaviour after what leaves memory or screen
undefined; the property says what leads there. `Calls` (`EventQueue`) divides
the calls between two consumers. `JsonCommands` ends after one command, because
nothing goes from one to the next.

`CHECK_DEADLOCK FALSE` stands where the program really stops: the clients end
(stopped, crashed, or with no more lines), the wires of the framers are used up,
the bounds of tcp, the utilities and the libraries are reached. The logger has
an explicit `Quiet` step and is checked for deadlock.

### Fairness

* `Logger`: a thread that again and again can go on does (`SF` on the steps of a
  call in progress and of the disk thread): the kernel schedules every thread
  and gives a mutex that is free again and again to a waiter. Calls are not fair:
  an application need not make one.
* `LoadTestClient`: weak fairness of handlers; strong fairness of the idle timer
  and the load timer, since the engine delivers due events in order. Nothing is
  assumed of the gateway or of the console.
* `SampleClient`: strong fairness of handlers, which a stalled gateway or an empty
  input disables for a time; weak fairness of `main()`'s join; strong fairness of
  the timer and of console events. Nothing is assumed of the user.
* `FifoLog`: weak fairness of `WriteOldest`, which `logger_async` shows the code to
  implement.
* The utilities and libraries have safety properties only. That no waiter of an
  event queue sleeps beside an event is one of them: it is asked of the states in
  which all others rest.

### Exceptions in properties

Several properties hold with an exception that the model showed to be needed;
each is named in the comment of the property.

* The order of a file is not kept across `disable_async()`. Lines still queued at the
  destructor are lost when the disk thread never came to run (`logger.cpp:667`).
  Accounts of orders
  end with a failed write or a tag used twice. The batch size is not the phase's
  after a second N. Confirmation means nothing once `cin` has failed. A q sent
  before the task has set its number is lost. `NoOverrun` assumes that a header
  fits the 200 spare bytes, which no code checks.
* `Prompts`: every prompt function stores the answer to "User Tag" in `UserID`, so that a
  request carries no tag; and `cin >>` takes one character for a field of one
  byte, so that an answer of two digits answers the next prompt as well.
* `Endpoint`: a service's port is kept in the network's byte order and swapped again
  for the address; a lookup that returns 0 has not always found what it looked
  for; a port out of range is refused but kept; `set_remote_host()` and
  `set_remote_port()` between two calls of an asynchronous `connect()` change what
  is reported and not where it goes; when `getpeername()` or `getsockname()` fails,
  the connection says what was so of the one before.
* `Tcp`: the mode that an object reports is not that of its descriptor after a failed
  `fcntl()`, and after `accept()` by an asynchronous server, which reports the
  connection as asynchronous and does not set `O_NDELAY` (`tcp_server.cpp:147`); a
  `set_mode()` that succeeds ends the difference. No other descriptor differs.
* `HexDump`: a width of 0, or one whose row is larger than the buffer, never ends.
* `Clock`: the base time and the time of day that are added may be a day apart at
  midnight; the day of the year of a date (`timestamp.cpp:152`) is one too small
  after a leap day; `hours_diff_to_utc()` is whole hours.
* `Latency`: a report of nothing to a file crashes, a display range of 0 hangs, and
  `operator<<` prints its buffer before anything is in it (`latency.cpp:113`), which
  may read past its end.
* `Multicast`: an empty datagram with errno left at `EAGAIN` reads as "would
  block"; a failed `close()` keeps the number of a descriptor that is gone.
* `CallbackList`: the handle of a removed callback works while a loop holds its
  node: to insert before it or remove it again breaks the list, where
  `eventpp/doc/callbacklist.md:110` says that a callback inserted before one that is not
  found goes to the end; loops that run while the counter overflows may miss or repeat
  callbacks, and call some that were added during the loop, where lines 91, 102 and
  112 of that page guarantee that they do not.
* `EventQueue`: a wakeup is lost when events are put back between the two reads of
  `emptyQueue()`, or the notification comes between the test of `wait()` and its
  sleep, where `eventpp/doc/eventqueue.md:88` says that `enqueue` wakes up any threads
  that wait; and order when two `processIf()` overlap.
* `LineEditor`: a kill of nothing makes no entry but counts as a kill
  (`linenoise.cpp:2716`, 2780, 2895, 2933), and a search leaves the last action as it
  was (2867-2870): a kill that follows goes into the entry before, and a yank brings
  that one back too. After a yank and a search, a yank-pop takes as many characters of
  the line found as were yanked into the line before; if there are fewer before the
  cursor it reads before the line, and that key is not pressed in the model.
* `LineHistory`: a search given up leaves the index at the entry found;
  `linenoiseHistorySetMaxLen()` copies from the wrong place when the history is
  not full. `ScreenLine`: a wide character that does not fit its row, and a search
  prompt that fills one, are counted wrong. `KeyDecoder`: a stray byte above 127
  swallows what follows up to an ASCII character. `Completions`: a screen of one
  row does not pause, and the question waits for ever at the end of the input.
  `TerminalMode`: when the mode cannot be restored, the next line takes raw mode
  for the one to go back to.
* rapidjson: a text that begins with what begins no value is an empty document to the
  iterative parser; the escape of a lone trailing surrogate is accepted, written
  by UTF-8 and refused, by an assertion, by the ASCII writer; -1 equals the
  greatest unsigned number. A 64-bit integer is rounded where it is compared with a
  double or read as one (`document.h:1658`), so a double equals every integer that
  rounds to it, and a number of more than 64 bits is rounded at each digit
  (`reader.h:1235`). An object may be ended after a name (`writer.h:212`): the text is
  complete by `IsComplete()`, no reader accepts it, and the calls leave a document more
  than its root.

### Findings

Four runs contradict a comment or a text of the repository, or show a bug;
`findings` quotes each: `set_new_file()` in asynchronous mode writes old lines to
the new file; a second call of an asynchronous `connect()` ends the attempt in
progress; the menu's command for a new order logs the sample client off; the
statistics of the load test client count every order as an answer, and as an
error. Another divergence shows in `FramesAreReference`: "min length of a body is
0" (line 9 of `generic_framer1.hpp` and of `generic_framer2.hpp`), but
`generic_framer1` refuses a body of 0 or 1 bytes and `generic_framer2` one of
fewer than 4.

## Proofs

TLAPS proves, for all values of the constants:

| module | theorems (the property of a run that each states) |
|---|---|
| `LoggerProofs` | `TypeCorrect` (`TypeOK`), `WakeupsCorrect` (`NoMissedWakeup`), `OwnershipCorrect` (`BufferOwnership`), `NothingIsDropped` (`NothingDropped`), `NameIsStable` (`NameStableWhileWriting`), `SyncFilesAreRight` (`RightFileSync`), `LinesInOrder` (`OnceInOrder`, of applications that do not call `disable_async()`), `LoggerIsFifo` (initial states and steps of `FifoLog`, the safety part of `FifoSpec`) |
| `FramerProofs` | `TypeCorrect` (`TypeOK`), `NoOverrun` (`RxBounded`), `FramesCorrect` (`FramesWellFormed`), `FramesAreThoseSent` (`FramesAreReference`), `CallsEnd` (`RoundsProgress`) |
| `TcpProofs` | `TypeCorrect`, `OneOwnerHolds` (`OneOwner`), `NothingLeaks` (`NoDescriptorLeaks`), `ModesMatch` (`ModeMatchesFlag`), `StreamsIntact` (`StreamIntact`), and `OwnersCorrect` and `ShapeCorrect`, which these use |
| `LoadTestClientProofs` | `TypeCorrect`, `OrdersAccountedFor` (`OrdersAccounted`), `LevelFollows` (`LevelFollowsTimers`), `LoadGoesOnAlways` (`LoadGoesOn`) |
| `SampleClientProofs` | `TypeCorrect`, `OrdersAreConfirmed` (`OrdersConfirmed`), `NoCrashWhenConnected` (`NoCrashOnceConnected`) |
| `UtilitiesProofs` | `FieldsReadBack` (`ReadBack`), `PeersAreTold` (`PeersTold`), `LinesAreHeaded` (`LinesHeaded`), `ValuesAreInOrder` (`ValuesInFileOrder`), `KeptTimesAreNow` (`KeptIsNow`, a part of `TimesAreNow`), `ReportsAddUp` (`ReportAddsUp`) |
| `MessagesProofs` | `ReplaysAreExact` (`ReplayExact`), `AnswersAreKept` (`AnswersKept`), `StatsAreAddedUp` (`StatsAddUp`) |

The assumptions are those of the modules: names of threads, files, objects and
streams differ from those for none; there are two buffers; levels, lengths,
limits and descriptors are numbers; the base of bytes is above 2, that of ports
above 0; a framer's maximum fits the length field; a batch for a given size is at
most the greatest; a text of a host or port is of a kind that `pri_set_host_info()`
and `pri_set_port_info()` tell apart; the keys of a configuration file are numbers,
which stand for their order, and those asked for are above 0; the clock never
reads 0, which is the time in a cache that was never filled, 1970 in the code; the
members of JSON texts, counters and users are numbers (a text's value is its one
character); the menu of the prompts is of their six requests, and a word that is
typed is one or more characters from 1 to 255; an instrument, an order type, a tag
and a disclosed quantity fit a byte, and any set of them is allowed; a histogram has
at least one counter, its first display range and the one put for a wrong one are not
below 0, and the values added are of a finite set of integers. TLC evaluates them in
every run. Two theorems
have hypotheses of their own, where the property has the same exception:
`LinesInOrder`, above, and `LoggerIsFifo`, of one file whose writes do not fail.
No theorem uses fairness.

*Ownership of buffers.* `BufferOwnership` is not inductive: what a step moves
depends on where the call and the disk thread are. `CallPhases` adds that a call
in a phase holds `m_lock`, so at most one thread is past its entry; `DiskPhases`
adds what the disk thread's pools may hold in each of its phases, and that it is
done before the destructor deletes. Each step then either moves no buffer
(`NothingMoves`) or moves one as a lemma of its own says (`PushMoves`,
`DiskWriteMoves`, `LoopsMoves`, `JoinMoves`).

*Lines.* With the phases and the ownership, `Callers` says what the buffer holds
and which mode applies at each point of `p_do_work()`, so that a step that takes
lines from one place puts them in another: `NothingDropped`. `OnceInOrder` needs
that lines anywhere are ordered as they were logged: within a file
(`FilesOrdered`), within and between the queues (`QueuesOrdered`), and everything
in a file before everything queued (`FilesFirst`). After `disable_async()` a
synchronous write may overtake what the disk thread still holds. `RightFileSync` needs that the
buffer holds lines for the current file only (`SyncFile`); the name stands still
because a write with `m_io_lock` excludes `set_new_file()`.

*Refinement.* In `LoggerProofs` `Pipeline` is the disk thread's pool followed
by the queue. Each step of the logger is shown to leave the four mapped variables
alone, or to be a step of `FifoLog`; a scenario that leaves asynchronous mode maps
to an unused pipeline.

*Frames.* `FramerInv` relates parser state and buffer: in the header states the
buffer is shorter than the header, in the body state the header is complete and
the bytes there plus those required are the length it announces, which is at
most the maximum. `BodyStep` and `HeaderStep` show a round to keep it; the three
theorems follow from it.

*Frames and the reference.* The reference is a recursive function on all finite
sequences of bytes; `RefIs` shows that there is one, because what is left after a
frame is shorter. `Parsed` is what a cut of the stream cannot disturb: whatever
bytes may follow, the reference reads in all of them the frames handed over so far
and then what it reads from the frame in progress on. `FrameFirst` takes off one
frame, `NoFrameYet` says when there is none, and each round keeps `Parsed`
(`RoundParsed`), errors and the rest of a refused chunk included.

*Descriptors, modes and streams.* `OneOwner` needs that an object whose call waits
has a descriptor (`BlockedHold`), and `NoDescriptorLeaks` both of them.
`ModeMatchesFlag` compares the mode an object reports with its descriptor, but for the
descriptors in `astray`: those whose last `fcntl()` failed, and those that `accept()`
made for an asynchronous server. It needs that the mode of a client does not change in a
`connect()` that waits (`WaitingConnect`). `StreamIntact` needs most: what kind of socket an
object may hold and which ends a link has (`Shape`); that an unused link, and one
not yet taken over, has carried nothing (`Fresh`, `FreshReady`); where a
`write_data()` that waits stands in its caller's bytes (`Writers`); that what was
read and what is in the pipe count up from one (`Ordered`); and that what the
callers were told was written, with what they will be told, is what was sent
(`Told`).

*Clients.* `OrdersAccounted`, `LevelFollowsTimers` and `LoadGoesOn` are inductive
with the types, of which one, that the idle count passes its limit only as the
client ends, is a fact of its own. `OrdersConfirmed` needs that a request under way
was answered with y or `cin` has failed (`Asked`); `NoCrashOnceConnected` that
what sets the flag has a connection to the order gateway (`ConHeld`) and that a
program that has crashed makes no more of them (`Crashing`).

*Fields.* A buffer is laid out by an offset for each field, at which its bytes
begin (`Laid`), and while calls are those for their fields the iterator is at the
offset of the next one (`Aligned`). `PutLays` extends the offsets; `TakeReads` shows
a call to take the bytes of one field.

*Endpoints.* What an object keeps fits the texts given last, and its address those
it was made from (`Fitting`). Two numbers that fit one text are equal where the
text leaves no choice (`FitsAgree`), and so is what a connection says of its ends
to where it goes.

*The log buffer and dumps.* Between messages the log stands at the end of a line,
within one when its copy does (`LogStands`). `DumpWhole` is of what was written,
so `Dumping` says the same of what is in the buffer: every cell is the one that its
index in the whole dump calls for (`Want`), but for the gap of a last, short row
(`CellsShown`). It needs that another row begins at a row's end as long as bytes
are left (`RowsWhole`), and that the buffer holds no more rows than it has room
for (`BufferHolds`). A width of 0, or one of which no row fits, is a dump that
never begins (`Stuck`). `RowAppended` says which cells a row adds, `WantInRow`
which ones its indices call for, and `RowsFit` that rows and the 0 after them fit.

*The configuration file.* `Configured` relates the map to the lines read so far.
Until the header of the section is found the map is empty (`Finding`); from there on
its pairs are those of the lines after the header, one for one, with those of a key
in their order (`Processing`, `Holds`), and its keys ascend (`Ascends`), so that
`lower_bound()` and `upper_bound()` cut out the pairs of a key (`Bounds`). A read
that returns left the section whole (`ReadWell`) or left nothing, of a file in which
no section can be read (`ReadBadly`). The iterator has given what is between the
lower bound and where it stands (`Iterating`). `PlacedAscends` and `PlacedHolds` show
what `insert()` keeps, and `PairsOfKey` counts the pairs of a key by their places.
It holds for every `MaxLines`, so for files of any length.

*Times.* A cache holds the text of the second and kind of time that it names, if it
names one (`Kept`). `PatchedIs` shows that writing the digits of other microseconds
into a text gives the text of that time, `RefreshedIs` that a call leaves its own time
in the cache, and `ShortIsEnd` that both texts tell the same time of day. The fields
of a time are whatever `localtime_r()` gives: their calendar is not used.

*Folds and layouts.* A fold of the community modules chooses a recursive function
on the subsets of its positions. `Removal` shows, by induction on the size of a
set (`SizeRecursion`), that there is such a function, and `FoldIs` that the fold is
then the last of a sequence of values, each made of the one before. So bytes put
together are read off piece by piece (`CatBuilds`, `CatCarries`), widths add up
(`SumAdds`), and a field that is read from an encoded message is the value it was
given, for any values (`Formed` for each layout, `FrameOf`).

*Commands.* `JsonInv` says of what an order is logged and written as, and of what a
command with a text made of it, that they are encodings of the same object, or of the text's
members, field by field; `ReplayExact` compares the bytes. The numbers of a text
may be any that are not negative, those too large for their field included; where the
getter asserts that they fit (2^31, or 2^32 with J), the command crashes.

*Prompts.* `PromptsInv` says that while a request is asked for, each answer so far
went to the prompt it was meant for, into the field of that prompt, unless one of
the exceptions has come up (`Going`): the prompts that are left are the last ones of
the request, and `cin` holds at most the word that the next one will take. It needs
that the prompts of a request go to different fields, but for the user (`AskedWell`).

*Statistics.* `StatsInv` says, instrument by instrument, that the counts are those of
the past (`Right`), and of an instrument that is not in the table that it would be
counted from nothing. An order is looked up as if it were an answer: read with that
layout it has its own tag, and a status of 0 or the disclosed quantity, because of
where the fields lie in the two structs (`OrderReads`). That a total over the types
of orders grows by one with one count (`BumpAddsOne`) needs that a sum does not
depend on the order of its terms (`SumAnyOrder`), since `CHOOSE` gives any.

*Latency.* `LatencyInv` says that each value added since the reset is below 0, above
the counters, or in the counter of its own (`HistogramIs`), and keeps of the last
report what it said when it was made (`TellsAll`). The starts of the ranges divide the
counters whatever the display range (`StartsAre`); the lines printed after `k` ranges
then have the sum of all counters so far (`ReportOf`, by induction on `k`), since sums
over parts without a common element add up (`AddedParts`) and a range that is not
printed has a sum of 0 (`AddedZeros`, which also says that a total of 0 is no value at
all: only then does a report to a file divide by 0).

### Only model-checked

* Liveness, which needs fairness: `CallsReturn`, `SilenceDetected`, `TestCompletes`,
  `QuitEnds`, and that `FifoLog` goes on writing.
* The rest of `TimesAreNow`: that a time is told back from its text, and the dates,
  whose calendar is that of the three years of the model.
* `DatagramsTold`, `CallbacksKept`, `LinesKept` and `TextsKept`, the properties of the
  run `libraries`: their module reaches the recursive operators of `JsonReader`, and
  the prover does no arithmetic in a module that does. So are the agreement of the
  JSON parsers and what the functions of `JsonStrings` and `Utf8` compute.
* The four runs with a violation have a counterexample instead.

## Not modelled

* The clients: the wording of log lines and dumps, the printing of the
  statistics, the prompt for a new order (unreachable behind line 451 of the
  sample client), `process_a_...` functions of the sample client that no event
  reaches. In `Tcp` a connection has one writer; the load test client's two
  writers are interleaved frame by frame in `LoadTestClient`.
* `util_lib`: the names that lookups find, which are only shown; which socket option
  is which; of `time`, `mins_from_hhmm`, the text of 17 digits and the processor's
  time stamp counter.
* eventpp: copying, assignment and swap, `peekEvent()`, the heterogeneous classes,
  which repeat the others per prototype, the templates that choose types.
* linenoise: the code for Windows, colours and `linenoisePrintKeyCodes()`.
* rapidjson: `pointer.h`, `schema.h` and its regular expressions, which no program
  here includes; the members and elements of values beyond what a reader makes; doubles as text (`dtoa.h`, `strtod.h`, `diyfp.h`), arithmetic on 64
  bits and more that small numbers do not stand for; parsing in place,
  allocators, streams of files with their byte orders.
* The build scripts.

## Plan

In the order in which the next steps are worth taking:

1. `EventQueue`: prove `EventsKept` for any threads and events, from the places an
   item can be in. `MCLibraries` reaches recursive operators through `JsonReader`;
   they must become functions first.
2. A connection with two writers: `write_data()` of the task and of a bulk thread
   byte by byte, composed with `Framer` at the other end.
