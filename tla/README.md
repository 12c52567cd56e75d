# A TLA+ model of acqiris-httpd

The repository is a daemon for an Acqiris digitizer. It acquires waveforms in
a loop, shows the newest one to browsers through server-sent events, streams
all of them to C++ clients, and takes new settings from the web page and,
when started with a GUI, from Qt widgets. The tests are the instrument and
the operator: the source has no test suite, almost every state below is
touched by more than one thread, and both spin flags of the data path are
used the wrong way round. That is what this project checks.

Paths are relative to `src/src/` of the repository; `task.cpp` and
`digitizer.cpp` without a directory are those of `httpd/acqiris/`.

## The system

### Parts

| part | source | state | operations |
|---|---|---|---|
| task | `httpd/acqiris/task.cpp` | `method_`, `acquire_posted_`, the strand's queue, the timer, `dc122.json` on disk | `start`, `modifyMethod`, `prepare_for_run`, `acquire`, `on_timer` |
| digitizer | `httpd/acqiris/digitizer.cpp` | `delayTime_`, `nbrSamples_`, `temperature_` (none initialised by the constructor), the instrument itself | `digitizer_setup`, `acquire`, `stop`, `waitForEndOfAcquisition`, `readData`, `readTemperature` |
| dataStorage | `httpd/datastorage.cpp` | `queue_`, two time points, `spin_flag_`, `id_` | `operator<<`, `handle_data_out` |
| page_handler | `httpd/page_handler.cpp` | `event_id_`, `spin_flag_`, subscribers | `http_request`, `handle_waveform`, `handle_temperature` |
| connection, connection_manager, server | `httpd/connection*.cpp`, `httpd/server.cpp` | sockets, three sets of connections, two "connected" flags, the acceptor | accept, read, answer, the streams, stop |
| request_parser, request_handler, reply | `httpd/request_*.cpp`, `httpd/reply.cpp` | the parser's state | `parse`, `handle_request`, `url_decode`, `to_buffers` |
| main | `httpd/main.cpp` | the pid file, two io_services, five threads | start-up, shutdown |
| GUI | `libs/acqiris-gui` (app, document, mainwindow and the plots) | the last waveform, a drawing flag, its own method | `push`, `recentWaveform`, `method_changed_` |

`libs/acqiris-gui/{task,daemon,digitizer,request_handler,chartview,metadata}.cpp`
and `httpd/acqiris/mediator.cpp` are in no build file; nothing of them runs.

### Who calls whom, on which thread

* `main()` constructs the task and calls `start()` before any other thread
  exists: it reads `dc122.json` and hands its method over. Then it starts four
  threads that run the acquisition's io_service and one that runs the
  server's. With a GUI, the main thread then runs the Qt loop, and each edit of
  a widget calls `prepare_for_run` with a whole method.
* The server's thread runs every completion handler of the HTTP side. A
  `/api$valueChanged` request calls `modifyMethod` on it: copy `*method_`,
  change one value, `prepare_for_run`.
* `prepare_for_run` writes the file, replaces `method_`, posts a setup on the
  strand, and posts an `acquire()` if `acquire_posted_` was clear. None of
  this is under a lock, so the two callers interleave.
* The strand runs setups, temperature readings and `acquire()` one at a time
  on any of the four io threads. `acquire()` first posts its successor, then
  arms the instrument, waits, reads, and gives the waveform to `dataStorage`.
* `dataStorage::operator<<` runs on the strand; the jobs it posts (render the
  newest waveform, export the queue) run on the other io threads beside it.
* Rendered waveforms, exports and temperatures are raised as signals; the
  connection manager's slots write them to every subscribed connection, under
  the manager's mutex, while the server's thread handles completions.

### What is hard here

Two unlocked callers of `prepare_for_run`; a self-reposting handler that must
not starve the others nor multiply; a file that is truncated before it is
written, in a process whose stop script kills it; an unlocked
`queue_.back()`; three flags (`dataStorage`, `page_handler`, `document`) tested
the wrong way round; composed writes on one socket that the code does not
serialise; completions that wait for the thread while a signal's handler runs;
requests cut into reads anywhere; an instrument that adapts or refuses one of
a dozen calls of a setup; threads that use objects `main()` has not finished
wiring. `PROJECT.json` lists these at their lines, under `hazards`, with the
properties that would catch them. Some of them the code does not rule out: the
model reaches them too, no property forbids them, and a note says so;
`SettingsAgree`, `EditKeepsTheRest`, `ExportsInOrder`, `FreshWave` and
`EventsInOrder` say under which overlap alone they can happen.

## Modules

### Task: `task.cpp` with the driver it owns

One variable per member: `method` is `method_`, `posted` is
`acquire_posted_`, `strand`/`job`/`phase` the strand's queue, the handler it
runs and how far `acquire()` is, `file` is `dc122.json` (a method, absent,
truncated, or a mixture of two writes), `inst` what the instrument is set to,
`label` is `delayTime_`, `wave` the last waveform stored. `pc[t]` says where
thread t is in `modifyMethod` and `prepare_for_run`; each statement that
touches shared state is an action (`OpenFile`, `WriteFile`, `Publish`,
`PostSetup`, `TestFlag`, `PostAcquire`). `arg[t]` is the method a thread is
handing over, and nothing once it returned. `Kill` ends the process at any step
and leaves `method` and `arg` as the history of what was in force and what was
being handed over; `Start` is the next process.

A method is abstracted to two sub-methods, the time base and one channel: the
first reaches the label of a waveform, and two are what a lost update needs.
The instrument library is external: `Configure` lets it take a setting, adapt
it and tell, adapt it silently or refuse it.
`overlap`, `torn`, `applied`, `wave`, `armed` are histories for the properties.
`overlap` is "now" when another thread was handing over settings since the
last hand-over to begin did; a hand-over that begins alone turns that into
"past", for the file may still hold what the overlapping ones wrote; and the
file written by one that began alone makes it "none".

Undefined behaviour: an uninitialised `delayTime_`/`nbrSamples_` is the value
`None`, which propagates to the label. Copying `method_` while it is replaced
is the place `"stale"`, which may go on with the value read or die (`Kill`).

### WaveformFeed and DataStorage: `datastorage.cpp`, `handle_waveform`

`WaveformFeed` is the promise to the blob clients: an accepted waveform stays
pending until it goes out, once, in a batch of consecutive serial numbers.
`DataStorage` is the code: the vector (with moved-from elements between the
move and the clear), the mutex, the two flags with the code's sense, the time
points as ticks since the last post, the posted jobs and the io threads.
`id_++` is a load and a store. `PostWave` reads the back of the vector without
the lock and can find a null pointer or an empty vector, and then the process
dies (`crashed`). `FeedSpec` states the refinement: `pending` is what is in
the vector or moved out and not yet delivered.

### Connections: `server.cpp`, `connection.cpp`, `connection_manager.cpp`

`conns` and `subs[k]` are the manager's sets, `slots[k]` the handlers
registered on each signal, `read[c]` the outstanding read or what its
completion brings, `out`, `rest`, `done` the writes of a connection: waiting
for the socket, between two pieces, completed and waiting for the thread.
`async_write` is modelled as boost documents it: a piece, then its own
handler asks for the rest, behind writes begun meanwhile. A client is
`peer[c]`, and what it has seen of its stream is the history `wire[c]`.
A request is one of: answered at once, one of the two streams, an incomplete
header, an incomplete body. An aborted completion, an error and a completion
that was already waiting when the socket was closed are different results.

### RequestParser, RequestHandler, Http: a request's way to its answer

`RequestParser` is the automaton of `consume` as data: a set of edges (state,
kind of byte, next state, what is done with the byte), with the table's
corner states kept (`header_lws`, the three expecting_newline). A byte is a
word, one separator or one control: what the parser and the handler tell apart
("SP", "HT", "CR" and "LF" are the space, the tab and the two newlines).
`IsHead` is the reference grammar: a definition of what a request's head is, by
the parts it splits into, that does not mention a state. `RequestHandler` is
pure: `UrlDecode`, `HttpRequest`, `ApiReply`, `PageReply` and `HandleRequest`
give the reply for a parsed request, with its headers in order, for `headers[1]`
is overwritten by position and `connection.cpp:83-85` decides by the first
Content-Type whether the connection becomes a stream. `Http` is one connection
that reads what a client sends (`Send`), cut at any byte into up to `MaxReads`
reads, or with one byte changed; `RequestRead` is the read handler with its
test of the body's length, `std::stol` included. `HttpAssumption` says what
clients send: a header has a name, its value may be continued in a second line
that does not begin with a space, a declared length is digits in one line that
a `long` holds (`MaxLong`), and the characters that mean something in a uri
(`%`, `+`) are not part of a path. Requests that break this are not those of a
client that means something: they come in as changed ones. `std::stol` throws on
those without a number and on those with a larger one (`Throws`), which ends the
thread; a length below 0 is compared as a `size_t`, larger than any read
(`Shorter`). A stream is started with headers of its own (`Started`): what the
handler put into the reply is cleared.

The version's digits are left out: the parser reads them and nobody uses them.
What lies under doc_root is a constant, any set of paths.

### MethodEdit and Digitizer: from an edit to the samples

`MethodEdit` is the chain of keys in `modifyMethod` on numbers: picoseconds,
with the truncation of the quotient of two doubles as a choice, where the
quotient is a whole number, between that number and one less. `Digitizer` extends it with the driver.
A method may have no time base or no trigger part, which the setup then skips
(`Present`, `Skip`); an edit of the page creates the part it edits, and the Qt
widgets hand over everything they show at once (`HandOver`).
`SetupOrder` is the sequence of calls of `digitizer_setup`; each call is
answered "asked" (VI_SUCCESS), "told" (adapted, and the code can ask what was
made of it), "untold" (adapted, and the question fails) or "refused"; `taken`
remembers which. The external trigger's range, the trigger's channel and the
level follow the code's order; `ConfigHorizontal` and `ConfigMemory` write
`delayTime_` and `nbrSamples_` as the code does on each path. `Acquire`,
`WaitForEnd`, `ReadData` (with the arithmetic of its buffer) and `Store` close
the loop to the stored waveform.

### Lifecycle: `main.cpp`, the pid file and the init script

Several processes over time, each installed daemon, with a window, or for
debugging (no lock). `pc[p]` is the next statement of its `main()`; the io
threads and the server's thread run between any two of them. The pid file is a
sequence of digits and newlines: `WritePid` writes over its beginning, as the
code does, and the script kills every word of it (`Words`, `StopScript`; SIGHUP
ends a process at any statement). `Terminate` is SIGTERM, handled on the
server's thread if it exists. `StoreTooEarly` and `EditTooEarly` are the
waveform and the request that come before `setTask`: the process dies. A port
in use kills the process through `std::terminate` (`BuildServer`).

### Display: a waveform's way to the browser and to the Qt thread

The jobs that `dataStorage` posts, the slots of `gui_handler_` in their order
(page handler, then document), the numbering of events as a load and a store
(shared with the temperature of the strand), `document::push` under its mutex,
its flag, `updateData` in the queue of the Qt thread, `recentWaveform` without
the mutex, and the window from none over connected and shown to closed. A
waveform's signal goes to the slots that were connected when it was raised. The
next waveform is posted one period after the last or later, so a push may find
the drawing due or not, however slow the acquisition is.
A waveform is told by its age. Copying `que_` while it is assigned is a torn
`shared_ptr`: the process may die (`crashed`).

### MC modules

`MCDataStorage` and `MCConnections` add the symmetry sets (io threads;
connections and the two kinds of stream) used by the safety runs; `MCHttp`,
`MCInstrument` and `MCLifecycle` give values to constants that are functions or
sets of sequences. Task, MethodEdit and Display are checked as they are.

## Runs

All bounds are constants. Counts are distinct states.

| run | what it asks | bounds | states |
|---|---|---|---|
| `task_gui` | two unsynchronised callers, a restart | 2 values, 2 edits, 1 kill | 5.2 million |
| `task_live` | the installed daemon, killed and restarted anywhere; progress of setups, readings, acquisitions | 2 values, 1 edit, 2 kills, strand up to 3 | 108 thousand |
| `storage` | queue, exports, rendering | 2 io threads, 3 pending waveforms, 1 posted job, periods of 2 ticks | 475 thousand |
| `storage_live` | progress with the inverted flags | 3 pending waveforms, 1 posted job, periods of 1 tick | 128 thousand |
| `connections` | sets and streams with errors and a signal | 2 connections, both streams, 3 event numbers, 2 unhandled writes | 505 thousand |
| `connections_live` | dropping clients that left, ending answers | 2 connections, one stream | 84 thousand |
| `http` | requests cut anywhere, damaged requests | 3 reads (2 for a changed request), bodies up to 2 bytes, lengths up to `MaxLong` = 2, one changed byte | 176 thousand |
| `instrument` | edits, setups the instrument does not take as asked, acquisitions | 1 delay, 1 width, 2 rates, 3 settings of trigger and channels, 1 time base of the widgets, 1 call per setup not done as asked | 3.3 million |
| `lifecycle` | starts, ends, signals and the pid file | 2 daemons, one with a window, one for debugging; pids of 1 to 3 digits | 120 thousand |
| `display` | both displays, the temperature, the window's life | 2 io threads, 2 jobs, 2 requests to draw, ages up to 3 | 799 thousand |
| `rate_menu`, `short_body` | what a comment or the page says and the code does not do | as above, 1 connection | expected violation |

### What the passing runs show

*Task.* `SetupBeforeAcquire`: no acquisition before a setup, also after a
restart. `UninitializedOnlyAfterTornFile`: a waveform labelled from
uninitialised members needs a process that read a damaged file.
`LabelConsistent`: a stored delay is the one the instrument was armed with,
unless the instrument refused the setting (the driver remembers the request
then, which is the exception). `RestartRestores`: after a kill, the next process
starts with the settings in force, or with those of a hand-over the kill cut
short; an edit that returned is not lost. Unless it finds the file empty or
torn, or last written by overlapping hand-overs: those leave the file and
`method_` different, and the difference outlasts them: a third edit, begun alone
and killed before it opens the file, still leaves the older one. `SingleAcquire`: exactly one
`acquire()` is pending when the flag is set, none otherwise, whoever tests it
when. `SettingsAgree`: file, `method_` and the instrument agree at rest if
the last hand-over had no other beside it; with overlap they need not, which
is why the condition is there. `EditKeepsTheRest`: a request keeps the other
part of the method. `SetupApplied`, `TemperatureReported`,
`AcquisitionContinues`: nobody starves.

*DataStorage.* `DrainTakesAll`: what `queue_.clear()` throws away are the
pointers the export moved out before, never a waveform pushed meanwhile.
`FeedSpec`: no waveform lost, sent twice or sent in a batch
with a gap, for every interleaving up to the crash. `ExportsInOrder`: batches
are in order and numbered apart as long as exports did not overlap (they can:
the flag does not keep them apart). `FreshWave`: outside the critical section
`back()` is the waveform just pushed. `EventuallyExported`,
`WavesKeepFlowing`: despite the flags, each waveform goes out and the browser
keeps getting some.

*Connections.* `OneOwner`: a connection is in one set only. `StreamIntact`: a
stream without overlapping writes is the header, then whole events, in order.
`NoStartAfterStop`: the test at `server.cpp:71` does its work.
`GoneClientDropped`, `AnswerEndsConnection`: cleaning up.

*Http.* `UnderstoodAsMeant`: wherever the reads cut it, the handler gets the
method, path and headers the client meant, folded lines and encoded bytes
included. `GoodExactlyForHeads`: the parser lets through exactly the heads of
the grammar, and calls nothing bad that is the beginning of one.
`EditWholeOrEmpty`: an edit has its body (at least what its length declares) or
none; the second happens, when head and body arrive apart, which is why the
property names it. `AnswerFitsRequest`: a path of the api gets its stream, under the headers of
that stream and without a length, the edited method, the banner or "unknown
request"; any other the page of its name (`index.html` behind a slash), a
refusal, or that there is none; each with the length of just that content, and
the method is edited by the requests to edit it and no other. `WholeRequestAnswered`: what was read
to the end is answered unless the body was cut (the finding).

*Digitizer.* `WaveCoversWidth`: a waveform is at most one sample short of the
width asked for, never longer, in whatever order rate and width were edited,
until the interval changes under the width. `WaveAsTaken`: its label and length
are those of the instrument, also when the time base was adapted, as long as
the instrument told; "untold" is the exception the code makes.
`BufferHoldsRead`: the vector is as long as the bytes offered to the library.
`LevelUnderItsRange`: when a setup has configured the external input and set the
trigger's level, the level was set under the range of that setup. It says nothing
of a setup whose range call is refused (`digitizer.cpp:216-218`) or whose method
does not enable the input: the level is then set under an older method's range,
and the code goes on.

*Lifecycle.* `OneDaemon`: one process drives the instrument. `PidOfHolder`: the
first line of the file names the holder of the lock, whatever is left behind
it. `StopFreesLock`: the script's stop ends the holder. `QuitEnds`: closing the
window ends the process, whatever signals and threads do meanwhile.

*Display.* `EventsInOrder`: events are numbered without a gap and waveforms
arrive in order as long as two were not handled at once (two can be, which is
what the condition is for). `RequestFindsWaveform`: a request to draw finds the
waveform that caused it, or a newer one. `DrawingGoesOn`: the inverted flag
never freezes the window.

### Findings

* `rate_menu`: 2 GS/s in the page's menu sets 1 GS/s (`task.cpp:145-148`
  lacks an `else`).
* `short_body`: `connection.cpp:71` returns with the comment "continue to
  read" and reads nothing; the connection stays for ever.

Met while modelling, without a run of their own:

* `connection_manager.hpp:21-22` promises a clean stop of open connections;
  streams stay open (`sse_stop_all`, `blob_stop_all` have no caller).
* `server.cpp:28` says the signals exit the server; after SIGTERM `main()`
  waits in `join` for ever (`main.cpp:142`).
* `main.cpp:86` does not truncate the pid file, and the script kills every word
  in it.
* `main.cpp:145` never catches an exception once threads run.
* `request_handler.cpp:46` intercepts `/api$` anywhere in the path, not only
  at its start as the comment says.
* `page_handler.cpp:168` serialises an empty document for the temperature.
* `digitizer.hpp:72` passes value and length of `memset` the wrong way round.

### Why the bounds suffice

Task: a third edit or kill adds no new pair of places for two threads to be
in; two values tell an old setting from a new one; the strand holds a setup
of each thread, an acquire and readings. `MaxStrand` only stops the timer from
posting, never a thread or `acquire()`. DataStorage: overlap needs two io
threads; three pending waveforms give batches of more than one beside another
batch; with one posted job both threads can still hold one each while a third
waits. `MaxPending` and `MaxPool` make `operator<<` wait where the code would
go on, so they only take interleavings away; `storage_live` has periods of one
tick so that a push is due before the bound stops it (with longer periods the
bound itself stops the feed). Connections: order,
repetition and gap need two events and the one before them, mixing needs two
writes. Histories are cut when a property no longer looks at them.
Http: three reads put one cut in the head and one in the body, or two in
either; the changed requests bring a wrong byte of each kind to every place of
an edit's head, and `MaxLong` = 2 lets one byte make of a length one that no
`long` holds, or one below 0. Digitizer: each call of a setup meets each outcome, one
call per setup; the next setup starts from what the one before left in the
instrument, so two that went wrong can follow each other, but not in one
setup. Lifecycle: a lock needs two contenders; pids of three, two and one
digits leave whole lines, part of a line and nothing behind. A process starts once: a restarted one is the next process.
Display: overlap needs two io threads, an order two waveforms and the one before;
the period of drawing is one period of `dataStorage`, so that a push can be due
and not due. `MaxJobs` and `MaxRequests` hold back the poster.

### Fairness

Weak fairness of `Start` (init runs it), of the threads inside
`modifyMethod`/`prepare_for_run`, of the strand as a whole and of the timer:
no wait in the code is unbounded (6 s for an acquisition, 1 s after a
failure). Never of an edit or of a kill. In DataStorage, of `operator<<` (the
acquisition goes on) and of each io thread. In Connections, of the handlers of
the server's thread, of a socket whose client reads, of the failure of a
write, and of the broadcasts (the acquisition goes on); never of a client,
nor of the signal. In Lifecycle, of `main()`'s own statements and of the
threads' return once their io_service is stopped; never of a start, a signal,
or a user who closes the window. In Display, of the acquisition, of the io
threads, of the Qt thread and of the opening of the window (the run asks about
an instance with one). Http and Digitizer have no liveness property: their runs
assume no fairness.

## Proofs

`Task_proofs` extends `Task`. For every set of values and every bound:

* `TypeCorrect` (`Spec => []TypeOK`). `TypeOK` is not inductive: a posted
  setup is a handler only because the thread posting it has a method. The
  inductive invariant `TypeInv` adds `MethodThere`: who hands over has a
  method, a process that serves requests has `method_`, and a dead process
  has no thread in the middle of anything.
* `AcquireIsSingle` (`SingleAcquire`): inductive together with `TypeInv`. The
  argument is that the flag is set exactly while one token exists, on the
  strand, in a thread past its test, or in `acquire()` before its repost;
  every action moves the token or leaves it.
* `SetupRunsFirst` (`SetupBeforeAcquire`): the invariant `SetupFirst` says
  that whoever is about to post an `acquire()`, and every one queued, has a
  setup before it in the queue unless one has run or runs. It rests on the
  strand being first come, first served (`AppendPositions`, `TailPositions`).
* `LabelsAgree` (`LabelConsistent`): `LabelInv` adds that the driver's label is
  the instrument's unless refused, and that nothing changed since arming.

* `UninitializedNeedsTornFile` (`UninitializedOnlyAfterTornFile`): `FullInv`
  follows the settings from the file through the threads, `method_` and the
  queue to the driver: all of them have all their parts until some `start()`
  reads a damaged file, so that the first setup gives the members values. It
  rests on `SetupFirst`: nothing is armed before that setup.
* `SettingsInAgreement` (`SettingsAgree`) and `RestartTakesUp`
  (`RestartRestores`, an action property) come from `SettingsInv`. `Stands` says
  how far a hand-over that runs alone has brought the file, `method_` and the
  queue; `LastSetup` that the setup queued last, or run last, is that of a given
  method (`LastSetupAppend`, `LastSetupRun`: a posted setup becomes the last, a
  handler taken from the queue leaves it). The step that failed first was a
  hand-over killed at its beginning: the property said that none overlapped it
  and nothing of the one before, whose file was still there. TLC found the
  25 states with three edits; the history `overlap` has three values since.
* `EditIsLocal` (`EditKeepsTheRest`), an action property: a request's method is
  still `method_` with one part changed when it is published.

They use `ValsAssumption` and `BoundsAssumption` of `Task` and nothing else.

`DataStorage_proofs` extends `DataStorage`. For any set of io threads, any
modulus of the serial numbers and all bounds:

* `NothingDropped` (`DrainTakesAll`): the types, which are inductive by
  themselves, and `LockInv` of the next theorem.
* `QueueImplementsFeed` (`FeedSpec`): every push is an `Accept`, every export
  that delivers something a `Deliver`, all else a stutter. The invariant is
  `QueueInv`: the thread between the two loops of `handle_data_out` has the
  mutex, and the vector is all null then (`LockInv`); the vector and each batch
  on its way are consecutive serial numbers (`RunInv`); no two of them have a
  waveform in common (`ApartInv`); what is pending has not gone out
  (`TimesInv`). Serial numbers wrap, and modulo is hard on the provers: `Step`
  is the k-th number after s by cases, and `StepIsMod`, `SuccOfStep` tie it
  to `%`. Only `Push`, `Drain`, `Clear` and `Deliver` touch the vectors;
  `QuietSteps` sends every other action to `QuietInv`.
* `NewestAtTheBack` (`FreshWave`) from `LockInv` and `RunInv`.
* `OrderUntilOverlap` (`ExportsInOrder`): `OrderInv` says that until two exports
  meet there is one exporter, its batch ends where the vector begins, and the
  id it loaded is still the one to store. `PendingIsOneRun` counts: a batch
  and the vector behind it are one run of all that is pending.

`Connections_proofs` extends `Connections`. For any set of connections, any
kinds of streams and any modulus of the event numbers (`ConnectionsAssumption`,
which also says that a connection is not called "pending" nor a kind of stream
"answer"):

* `ConnectionTypes` (`TypeOK`).
* `OneOwnerAlways` (`OneOwner`): `OwnerInv` adds that a connection whose
  accept is not handled yet has nothing outstanding and is nowhere, and that
  one which began to answer or to stream reads no more.
* `StopIsFinal` (`NoStartAfterStop`, an action property): a stopped server's
  acceptor is closed (`StopInv`), and the completion that may be waiting looks
  at that.
* `StreamReachesClientWhole` (`StreamIntact`): `WireInv` says, of a connection
  whose client reads and none of whose writes began amid another's pieces, that
  one write at most has a piece out (`OnePiece`), that the frames the client has
  still to see (`Ahead`) are the header, if not seen, and then events numbered
  up to the stream's next one (`InOrder`), and that none but the owner's frames
  are among them (`Fits`). `SendEvent`, `TakeAll`, `TakePart`, `AskNext` and
  `QueueWrite` say what each operation on a socket does to those.

`Digitizer_proofs` extends `Digitizer`. For any delays, widths and intervals,
any sequence of edits and any number of calls not done as asked:

* `LevelSetUnderRange` (`LevelUnderItsRange`, with its exception of a range that
  was refused) and `WaveLabelledAsTaken`
  (`WaveAsTaken`) from `SetupInv`: what a setup has not come to is older than
  it (`OrderInv`); a level set since was set under the range now in force
  (`LevelInv`); the driver and the instrument agree where a call was taken as
  asked or its adaptation was told (`Agreed`); what is being stored is described
  by the driver (`ReadInv`).
* `WaveCoversItsWidth` (`WaveCoversWidth`): `WidthInv` bounds the number of
  samples asked for from both sides, through the truncated quotient
  (`Quotient`). Proving it tightened the property from two samples to one, and
  the model with it: only a whole quotient can come out one less.
* `BufferFits` (`TypeOK` of the driver and `BufferHoldsRead`).

`Display_proofs` extends `Display`. For any number of io threads, any modulus of
event numbers, and all bounds:

* `RequestsFindTheirWaveform` (`TypeOK` and `RequestFindsWaveform`): waveforms
  wait, are handled and are kept in the order of their ages. `PoolInv` says so
  of those that wait, `WorkInv` of the one being handled, `AskInv` of what a
  request to draw will find; `Ages` is the fact they share, that growing
  older keeps the order, cut at the bound or not.
* `EventsReachBrowserInOrder` (`EventsInOrder`): the above and `NumberInv`, that
  until two events are numbered at the same time, one thread is at it, and what
  it loaded, what it delivers and what the browser got last follow each other.

`Lifecycle_proofs` extends `Lifecycle`. For any set of processes, pids that are
non-empty sequences of digits and differ, and any mix of modes
(`LifecycleAssumption`):

* `LifecycleTypes` (`TypeOK`), `OneDaemonAlways` (`OneDaemon`),
  `FileNamesHolder` (`PidOfHolder`) and `StopEndsHolder` (`StopFreesLock`)
  follow from one inductive invariant, `LockInv`. `OneDaemon` alone is not
  inductive: it needs that whoever is past the lock holds it (`LockHeld`), that
  the holder is alive (`OwnerAlive`, or a dead process would keep the lock),
  and that threads belong to a process past the lock (`ThreadsOwned`).
  `FirstLine` adds that the file has a newline and its first word is the
  holder's pid. That a written pid makes it so whatever was in the file is
  `WrittenFile`; the lemmas `LineType`, `FileRest`, `FirstWord` say what a
  line, the rest of an older file and the first word are.
* Most actions leave the lock and the file alone: `GoStep`, `ThreadStep` and
  `EndStep` prove the invariant for a statement of `main()`, a step of the
  threads and an end, and `LockStepAll` sends each action to one of them.
* `StopEndsHolder` is an action property: the script kills every word of the
  file, the first word is the holder's pid, so the holder is among the dead.

`RequestParser_proofs` extends `RequestParser`, `Http_proofs` extends both that
and `Http`. What they prove needs induction over the bytes of a request, and
the library's induction theorems take a predicate as a parameter, which the
provers cannot instantiate. A set can stand for the predicate: `InductionOnNat`,
`InductionOnSeq` and `Least` say that a set with the base and closed under the
step is everything, and follow from the library's fact that < is well founded
on Nat (`WFMin`, `NatLessThanWellFounded`). `FoldExists` and `FoldWalk` use them
once, to say of `FoldLeft` that it takes a step for each element of a sequence.
Each fold of the model then has its laws: `ParseEmpty`, `ParseAppend` and
`ParseConcat` (to parse two reads is to parse them joined), `HeadersTextLaws`,
`EncodingsLaws`, and those behind `StolType` and `DecodeExists`.

* `AcceptsHeads`: for every sequence of bytes and whatever was read of it, the
  parser accepts exactly what `IsHead` defines. One half is `HeadGood`: a head is
  read to its end and is good then. It goes along the grammar, one lemma per part
  (`ReadsRequestLine`, `ReadsHeaderLine`, `ReadsContinuation`), with `Reads(p, s,
  q)`: the parser p reads all of s and is q. The other half is `GoodHead`: what
  becomes good is a head. It needs an invariant of the automaton, `Shape`: which
  positions of the bytes read so far are the spaces, the colon, the ends of lines
  that the state stands for (`RequestShape`, `HeaderShape`); `ShapeStep` has
  one case per edge. `Settled` says that a decision is taken at one byte
  and stays. A carriage return inside a line, a line of blanks only, a
  continuation before any header: `Shape` had to get each of these right.
* `HttpCorrect` (`HttpInv`) is the invariant of the connection: the parser is
  what one parse of all bytes read so far gives (`ParserInv`), so the cuts do
  not matter; the connection reads on exactly while nothing is decided; as long
  as bytes are missing there are reads left to bring them (`ReadsInv`: the bound
  of the model never cuts a request short); and what the handler did fits what
  stood behind the head (`OutcomeInv`). `WholeRead` ties the state of the parser
  to the position within the client's request.
* `HttpTypes` (`TypeOK`, proved and not among the run's invariants) and `GoodForHeads` (`GoodExactlyForHeads`) follow for any
  bytes at all, a changed request included.
* `Understands` (`UnderstoodAsMeant`): the head of a client is a head
  (`ReadsHead`), what the parser makes of it are the client's headers, with their
  second lines joined (`ReadsSentHeaders`), and `UrlDecode` undoes every escaping
  of a path (`DecodeEncoded`).
* `WholeRequestsAnswered` (`WholeRequestAnswered`) and `EditsWholeOrEmpty`
  (`EditWholeOrEmpty`): the read that completes the head decides, and it knows how
  much stands behind it. A length in digits is a number (`StolType`), `std::stol` finds
  just those digits (`DigitsOf`), and they are not more than `MaxLong` in what a
  client means: it throws on none of these requests (`LengthIsNumber`).
* `AnswersFit` (`AnswerFitsRequest`), for any files and directories under
  doc_root: `AnswerInv` (an answer is the handler's to the request that was
  parsed, with a stream's headers once it is one, and the edits are those of
  that request), what a text inside a path is (`TextAt`, `ApiNames`), what the
  page handler says to each (`ApiSays`, `SentOf`), which header of a name comes
  first, also after `headers[1]` is overwritten (`FirstOfName`, `TypeReplaced`),
  and what is answered to each path (`AnswerOf`).

They use `HttpAssumption` and, of the parser, `WordAssumption`.

### Only model-checked

Every safety invariant and every safety action property of the passing runs is
a theorem. What is left to TLC is liveness, which needs fairness and ENABLED:
`SetupApplied`, `TemperatureReported`, `AcquisitionContinues`,
`EventuallyExported`, `WavesKeepFlowing`, `GoneClientDropped`,
`AnswerEndsConnection`, `QuitEnds`, `DrawingGoesOn`.

## Not modelled

* The texts (JSON, HTML, messages, the log) beyond what a property is about.
* The instrument library, Qt, asio and the widgets of other repositories: how
  the code uses them is, as external definitions.
* Plotting (`waveformview.cpp` beyond `setData` as a step, `xyseriesdata.cpp`):
  no state another part depends on.
* The console widget (`outputwidget.cpp`), menus, layout, `acqiris_method.xml`
  (what `finalClose` saves is never read: the call of `initialSetup` is
  commented out at `app.cpp:67`).
* `startup.json` (written, never read), injection (`inject_requested_` is never
  set), `handle_tick` (never called), the time stamps of a waveform.
* The files no build names (the legacy GUI daemon, mediator, semaphore), about
  a sixth of the implementation's lines: nothing of them runs.

## Plan

1. `Httpd`: Task, DataStorage and Connections composed over a waveform's way
   from arming to a client.
2. Pipelined requests: what Http's connection does with bytes behind a body.
