# A verification development for bf2-debug

bf2-debug is a debugger for the Python 2.3 interpreter embedded in the Battlefield 2
server.  `launcher` starts the server with `debug-dll` injected; the DLL detours a few
functions of the interpreter and of the server, installs a trace function in every Python
thread, and speaks the Debug Adapter Protocol (DAP) with one client over TCP.

This directory models the program's own logic in TLA+, checks it with TLC on small
instances, and proves the central safety properties with TLAPS.  Every definition is
translated from the C++ source; `PROJECT.json` maps each one to its lines.

## 1. Inventory

### Components

| component | source | state it keeps | operations |
|---|---|---|---|
| bdb, the stop logic | `bdb.h`, `bdb.cpp` | `_step`, `_stopframe`, `_returnframe`, `_ignored_frames`, `_breakpoints`, `_exmode`, `_evaling` | `trace_dispatch`, four `dispatch_*`, `stop_here`, `break_here`, `break_anywhere`, `set_step/next/return/continue/trace/quit`, `pause`, `reset`, breakpoint lists |
| debugger | `debugger.h`, `debugger.cpp` | `_session`, `_state`, `_wait_for_connection`, `_curthread`, `_curframe`, `_stack` | `user_*` callbacks, `interaction`, `setup`, `forget`, `run` (accepts clients), `start`, `stop`, `log` |
| thread hand-off | `debugger::trace_dispatch`, `start_io_runner`, `bdb::trace_ignore` | handlers posted to `_ctx`, the GIL, `_evaling` | post and wait, nested `run_one()` loops, Python run on the io thread |
| session, requests | `debugger_session.cpp` | `_initialized`, the socket | DAP requests, one at a time: the next is read when the response of the last was sent |
| session, references | `debugger_session.cpp` | `_frame_refs`, `_var_refs`, `_source_refs`, `_source_cache`, `_last_source_id` | `stackTrace`, `scopes`, `variables`, `source`, `forget` |
| session, packet reader | `debugger_session::run`, `get_packet_length` | the `streambuf` | read header, read body, hand on |
| session, messages to the client | `send_sync`, `async_send`, `send_event` | the socket | responses and events |
| output redirect | `output_redirect.h`, `output_redirect.cpp` | three descriptors, the reader thread, a line buffer | `start`, `stop`, the reader |
| detours, life cycle | `main.cpp`, `debugger.cpp`, `bdb.cpp` | the debugger object, `_pyDebugger`, the hook of `threading`, the thread of `_io_runner` | `DllMain`, `pyInitialize`, `pyFinalize`, `pyEval_InitThreads`, `Py_InitModule4`, `allocConsole` |
| Python helpers | `python.h`, `python.cpp` | the two `_oldIO` while an expression runs | capturing `sys.stdout` and `sys.stderr`, disassembly |
| launcher | `launcher/main.cpp`, `launcher/bf2launcher.cpp` | `_path`, `_dlls`, the normalized paths and the pointers to them, `lastMessage`, `repCount` | arguments, search for the server, injection, the loop of debug events |
| test simulator | `debug-test` | the loaded DLLs | stands in for the server: loads DLLs, initializes Python, runs scripts, finalizes, unloads |

### How they interact

* **Python thread -> io thread.**  A trace event enters `debugger::trace_dispatch` on the
  Python thread that raised it.  Unless `trace_ignore()` holds, a handler is posted to the
  `io_context` and the thread blocks in `future.get()` *with the GIL*.
* **io thread -> Python.**  Handlers run `bdb::trace_dispatch`.  While an event is stopped the
  io thread runs a nested `run_one()` loop (`interaction`), in which the coroutines of the
  session serve requests; `user_entry` has another such loop, waiting for a configured client.
  The io thread runs Python code itself, on the thread state of the blocked thread: the
  condition of a breakpoint and the truth value of its result (`bdb.cpp:388`, 400), `repr`
  and `str` of an exception (`debugger.cpp:120`), and for requests an expression (`evaluate`),
  `str` of a value (`variables`) and the disassembler (`source`).  The interpreter gives the
  GIL away from time to time while it does so, and `_evaling` is set for the condition only.
* **Shared state.**  `_stopframe`, `_returnframe`, `_ignored_frames`, `_frame_refs`,
  `_var_refs` and `_source_refs` hold borrowed addresses of Python objects.  There is one set
  of stepping variables for all Python threads.
* **Callbacks.**  The redirect's reader thread calls back into `debugger::log` and writes to
  `output_fd()`, on its own thread; detours call `start` and `stop`.
* **Host -> DLL.**  The host loads the DLL (which starts the io thread), initializes Python
  (trace function, hook for new threads, redirected `sys.stdout`), finalizes it (which stops
  the `io_context`) and unloads the DLL (which waits for the io thread, with the loader lock).
* **Launcher -> host.**  The launcher names the DLLs when it creates the process and then
  answers its debug events; there is no other channel between the two.

### What is hard, and what makes each component correct

| component | hard behaviour | what has to be true |
|---|---|---|
| bdb | decisions compare borrowed pointers; stepping state is global; addresses are reused | a muted address holds the frame it was muted for; a step, a pause, a breakpoint stops where the user was promised |
| debugger | sessions come and go while an event is stopped; a send throws out of a trace call | nothing is sent or waited for without a client; only a dead socket, or text of the scripts that is not UTF-8, can take the process down |
| hand-off | nested loops, and Python on the io thread, which gives the GIL away with `_evaling` set or not | no event inside another; state only touched on the io thread; nobody waits for everybody |
| references | tables of borrowed pointers, filled while Python runs and while it stands still | a pointer followed while stopped is alive until a request runs Python; a source id means one thing for a session |
| packets | TCP cuts anywhere; the reader reads past the header | requests in order, each once, never out of step |
| messages | events are sent from trace calls, responses from the coroutine of the session | what the client concludes from the messages is true; every request is read, also while an event is stopped |
| redirect | closing descriptors from two threads; waking a blocked reader | nothing lost, no descriptor closed twice, no line written astray before `stop()`, `stop()` returns |
| life cycle | the `io_context` may stop at any point; threads start before, during and after the debugger's life | nothing is traced after `Py_Finalize` but what comes to its bootstrap later; the io thread ends; what Python prints to survives an evaluation |
| launcher | pointers into a growing vector; the events of several processes in one loop | the right directory, never without a debugger DLL, every event answered |

The complete list, line by line, is `hazards` in `PROJECT.json`.

## 2. The modules

| module | models | rests on |
|---|---|---|
| `Bdb` | state, decisions and commands of `bdb`; Python's frame stacks as far as `bdb` looks at them | |
| `Debugger` | the `dispatch_*` functions with the `user_*` callbacks, nested loops, requests, connections | `Bdb` |
| `ClientView` | what a client may believe of the program it debugs | |
| `Conversation` | the session as its client sees it, shown to implement `ClientView` | `Debugger`, `ClientView` |
| `TraceHandoff` | the thread hand-off, the GIL, `_evaling`, finalization | |
| `Streams` | `sys.stdout` and `sys.stderr`, and who owns what they refer to | |
| `Lifecycle` | the DLL in its host, composed with the hand-off and the streams | `TraceHandoff`, `Streams` |
| `SessionRefs` | ids and references handed to the client | |
| `Fifo` | what the packet reader promises | |
| `PacketReader` | the packet reader, shown to implement `Fifo` | `Fifo` |
| `OutputRedirect` | the redirect, its reader thread and the forwarding callback | |
| `Launcher` | the launcher | |
| `MC*` | instances for TLC | |
| `DebuggerProofs` | theorems about `Debugger` | `Debugger` |
| `ConversationProofs` | theorems about `Conversation` | `DebuggerProofs` |
| `HandoffProofs` | theorems about `TraceHandoff` | `TraceHandoff` |
| `LifecycleProofs` | theorems about `Lifecycle` | `HandoffProofs` |
| `LauncherProofs` | theorems about `Launcher` | `Launcher` |
| `SessionRefsProofs` | theorems about `SessionRefs` | `SessionRefs` |
| `PacketProofs` | `PacketReader` implements `Fifo` | `PacketReader` |
| `RedirectProofs` | theorems about `OutputRedirect` | `OutputRedirect` |

In the modules a definition with a suffix (`return_stops_NoStepOut`) is the definition below it
with one plausible mistake.  It is used by no specification: `mutants` in `PROJECT.json`
says which property must notice it.

### Bdb and Debugger

State.  `live`, `top`, `back`, `file` are Python's frames: the addresses in use, the
innermost frame of each thread, `f_back`, and the file of `f_code`.  `ignored`, `step`,
`stopframe`, `returnframe`, `breaks`, `exmode` are the members of `bdb`; exception modes are
bit sets, as in `bdb.h`.  `job` is the event in hand: `idle`, `entry` (the loop of
`user_entry`), `eval` (a condition), `stopped` (the loop of `interaction`) or `resumed` (the
loop has ended, the rest of `dispatch_*` has not run).  `link` is `_session` and its socket,
`configured` the session's `_initialized`, `wait` is `_wait_for_connection`.  `passed` and
`unwatched` are history variables: the event that was let through last, and the frames
called while their file had no breakpoint entry.

Actions.  `Call`, `Line`, `Exception` and `Return` are `dispatch_call`, `dispatch_line`,
`dispatch_exception` and `dispatch_return` with the callbacks they make; each early return
of the code is a disjunct.  A dispatch that reaches a nested loop ends in `job`, and `Resume`
is what the code does after the loop.  `EvalDone` is the rest of `break_here` after the
interpreter has returned; `BypassedCall/Line/Return` are the events `trace_ignore()` drops
meanwhile.  Each request handler that changes state is an action.  `ThreadStart` is a
`threading.Thread` entering the trace with two frames whose CALL the debugger never saw.
`Connect`, `LoseClient`, `BadPacket` and `LogFails` are `debugger::run`, the environment, the
end of `debugger_session::run` on a bad packet or a handler that throws, and log output that throws.

Two things throw in a send.  A socket that is gone cannot take it, whatever is sent.  And
`send_sync` calls `json::dump`, which throws on bytes that are not UTF-8 with the client
connected (`debugger_session.cpp:217`).  Of what trace calls send, log output and the text of an
exception come from the scripts: `LogFails`, and `Exception` with its argument `text`.  The
message about a condition that fails holds the condition itself, which `json::parse` accepted
in `setBreakpoints` and which therefore is UTF-8.

The return of an outermost frame resets nothing, although `dispatch_return` has a guard that is
meant to (`bdb.cpp:293-301`): it is a `unique_ptr` that owns `nullptr`, and a `unique_ptr` does not call its deleter then.
`Return` and `FinishReturn` do what the code does, and the pointers that survive a top-level call are in the runs.

A frame is an address: when it returns the address is free, and a new frame may get it
while `bdb` still compares with it.  That reuse is what the pointer properties are about.

### ClientView and Conversation

`Conversation` extends `Debugger` by what the client was told last (`heard`), whether it has sent
a request that is not read yet (`unread`) and what the coroutine of the session is sending
(`sending`).  Every step is one of `Debugger` or leaves
its variables alone.  The steps of Python (`PythonEvent`, `UnprintableException`,
`ConditionDone`, `Entry`) send the event in the same call that stops, before the nested loop
starts.  A request comes at any time (`Arrive`), also while a condition runs and the io thread
serves nothing; it is read (`ResumeRequest`, `SetRequest`, `Ask`, ...) in a `run_one()` loop, and only
when nothing is being sent, since the coroutine reads the next packet after the response.
`Sent` is the end of a send; after the response of `disconnect` it closes the socket.  An unknown
command is answered by nothing, and a handler that throws ends the session unanswered (`BadPacketRead`).

`ClientView` has three variables: is a client connected, does the program stand still, was
*this* client told so.  The refinement maps them to the socket, to the job in hand and to
`heard`.  It allows what the code does on purpose or cannot help: a stop no one is told of
(`Hush`: an exception that has no text) and a client that joins while a stop is under way and
is not told of it (`Join`).  It forbids that a client which was told of a stop finds the
program running, and that anything but a connected client's command releases a stop.

### TraceHandoff

State: where each Python thread is (`pc`), who has the GIL, which threads are traced and which
are before their bootstrap (`booting`), the handlers posted (`queue`), the handlers the io thread is inside of (`stack`), the futures
that have a value (`ready`), `_evaling`, `_state`, `_wait_for_connection`, and whether `_ctx` is stopped.
`Dispatch` is `debugger::trace_dispatch` (the test of `trace_ignore()` and the post);
`Inline` is the second test, inside `bdb::trace_dispatch`; `RunOne` starts a handler from the
outer loop or from the loops of `user_entry` and `interaction`.  Four pairs of actions run Python on the io
thread: `EvalCondition`/`CondDone` with `_evaling`; `EvalValue`/`ValueDone` (the truth value of a condition's
result, the text of an exception), `TextRequest`/`TextDone` (`variables`) and `CodeRequest`/`CodeDone`
(`evaluate`, `source`) without it.  `AwaitClient`, `ClientReady` and `Interact` enter the loops.
A thread of the `threading` module is not traced when it starts: it calls `sys.settrace` in its own
bootstrap, some time after it got the GIL (`Bootstrap`).  `Finalize` is `pyFinalize`, which
also switches tracing off for the threads that have it; `RunsOut` is an `io_context` that stops by itself because the
acceptor failed.  What a handler decides is left open: `Debugger` has that.  In turn
`Debugger` has one event in hand at a time and lets only bypassed events of other threads
interleave with it.  `BodyOnlyOnIo`, `NoNestedDispatch` and `OthersStandStill` establish that here for the
decisions of `bdb`: they are made by the io thread, for one event after the other, and nobody runs
meanwhile.  Where the debugger runs Python without `_evaling` another thread may run too, and its first event
is its last step until the one in hand is done (`OneEventAtATime`); `Debugger` takes the truth value
and the texts as one step.

### Streams and Lifecycle

`Streams` knows, of each object that `sys.stdout` or `sys.stderr` can refer to, whether
anybody besides `sys` has a reference to it.  `Capture` and `Restore` are the two ends of
`py_utils::call`, whose `py_print_wrapper` keeps the old stream as a borrowed reference;
`CaptureFails` is a `StringIO` that cannot be made; scripts may assign what they like
(`ScriptAssigns`), also while an evaluation is under way, when the GIL changes hands.

`Lifecycle` puts both into the host.  `stage` is where the thread of the host is: it loads
DLLs (`Attach`, `LoadFails`, `Regrow`), redirects output (`AllocConsole`), initializes Python
(`PyInitialize`, with or without success), runs the scripts while threads start
(`StartThread`), finalizes (`PyFinalize`) and unloads (`FreeDlls`, `Joined`).  The steps of
`TraceHandoff` are restricted by it: the io thread runs only while it lives (`ioAlive`), and a
thread is traced only if the hook was there when its bootstrap looked for it (`hook`).  A `source` request is
served in any state: `SourceMeanwhile` and `SourceDone` are its disassembler in the outer loop, while the scripts run.  `IoExit` is the end of
the loop of `start_io_runner`; a thread that ends needs the loader lock, which the detach has.

### SessionRefs

State: stacks of frames, their code objects, dicts bound to names in frames, in the globals and in other dicts,
the tables of the session.  A dict is alive (`LiveDicts`) as long as it can be reached.  `Stop` and `Resume` are the two ends of `interaction`, each of which forgets.
`StackTrace` overwrites frame ids from 1 and hands out new source ids (the counter
`_last_source_id++`); `Scopes` and `Variables` add addresses; `Source` fills the cache.
Requests are served while Python runs too, and store or follow pointers then.  Python also runs while an event
is stopped, because a request runs it: every thread but the stopped one may call and return (`Enter`, `Leave`; an
untraced one for as long as it likes) and any name may be rebound (`Bind`).  `Source` fails as the code
does: the text of the failure (`Failed`) is answered, and cached like a source.  Three history variables serve
the properties: `issued` has each source id with the code it was handed out for and whether that was a frame of
the stopped thread, `shown` is the latest list of frames, and `ran` says whether anything ran since the stop.

### PacketReader and Fifo

The stream is a sequence of tokens (a length line, another header line, a blank line, a
body byte; a body may contain a blank line).  `ReadUntil(n)` takes any piece, `n` tokens
long; `get_packet_length` removes the header; `ReadExactly` never reads past the packet;
`HandlePacket` parses exactly `want` tokens, closes the socket for a `disconnect`, and ends the loop when
the parser or a handler throws.  `HandledInOrder` is the refinement:
`Fifo` with `sent` and `handled`, every step of the reader a step or a stutter of it.

### OutputRedirect

Three parties: threads that print (`Write`, blocked by a full pipe), the reader (`Test`,
`Read`, `DeliverLine`, `LinesDone`, `EndOfPipe`, `CloseReader`, and `Forward`, the write of a
line to the descriptor `output_fd()` gave it), and the thread that runs
`start()` and `stop()`, the latter one step per system call in the code's order.  `NotRedirected` is a
stdout without a descriptor; `StartFails`
has the state each failing call of `start()` leaves behind.  `delivered` is all the callback was
given so far, `written` all that was printed.

### Launcher

`pc` walks through `main()` and `run()`.  `ParseArg` takes one argument, `DetectPath` and
`AutoInject` are the searches for the server and for the DLL, `Normalize` is one turn of the
loop that fills a vector of paths and takes a pointer to each (`moves` counts how often the
vector moved its elements, `taken` says when a pointer was taken), `Create` starts the process.
Then debug events of the server and of a child it starts are raised in any order (`Debuggee`,
`StartChild`) and handled (`HandleOther`, `HandleFault`, `HandleExit`).  What is printed is left out.

## 3. The runs

| run | instance | distinct states | asks |
|---|---|---|---|
| `seq` | 1 thread, 3 frames, 2 files, 1 line, no / a plain / a conditional then a plain breakpoint | 2.8 million | are ignored frames, breakpoints and step out right for one thread, with clients coming and going? |
| `threads` | 2 threads, 4 frames, 1 file, a condition | 3.8 million | does an event of one thread, or one that is dropped during a condition, disturb what was asked of another? |
| `conversation` | 1 thread, 2 frames, 1 file, a condition, fairness | 443351 | is what the client is told true, is every request read, does a pause stop somewhere? |
| `lifecycle` | 3 threads, one stream, fairness | 92160 | are events handled on the io thread, none inside another, and answered; what survives an evaluation and `Py_Finalize`; does the io thread end? |
| `refs` | 2 threads, 2 frames, 3 codes (path, synthetic, zip), 2 dicts, nested or not, 2 source ids | 616017 | do references followed while stopped refer to live objects, and do ids keep their meaning? |
| `packets` | 3 requests of different bodies, one of them a disconnect, 3 sent, fairness | 95450 | is the reader a FIFO, however the stream is cut? |
| `redirect` | pipe of 3, reads of 2, 5 characters, fairness | 12286 | is output complete, delivered line by line and forwarded to an open descriptor, and does `stop()` return? |
| `launcher` | every command line of up to 2 arguments, 3 DLLs, a child, fairness | 7550 | where is the server started from, with which DLLs, and is every event answered? |
| `recursive` | 2 threads, 3 frames | | comment of `bdb.cpp:235`: **violated** |
| `stepover` | 1 thread, 3 frames, 2 files | | comment of `bdb.cpp:312`: **violated** |
| `unhandled` | 1 thread, 2 frames | | label of `debugger_session.cpp:268`: **violated** |
| `repl` | 3 threads | | comment of `debugger.cpp:8`: **violated** |

What the passing ones show:

* `seq`.  An address stays in `_ignored_frames` no longer than the frame it was put in for
  (`IgnoredUnwatched`), so that reuse of an address never mutes a frame.  A plain breakpoint
  is passed only in frames that were called before their file had an entry
  (`BreakpointHonoured`), however many breakpoints precede it on the line.  A step out stops
  at the return (`StepOutHonoured`) unless the frame was ignored.  `user_exception` and
  `interaction` do not check for a session; `StoppedHasSession` shows that nothing can stop
  before a client has armed something.  `NoCrashWithoutCause`: no exception leaves the debugger before that,
  and afterwards the stop of a breakpoint, a step, a pause or an entry throws only when the socket is gone; what may
  throw with a client connected is text of the scripts.
* `threads`.  While stepping in, no frame of any thread is ignored
  (`StepIgnoresNothing`) and every event stops (`StepNeverPasses`), although the stepping state is one for all
  threads and outlives the top-level calls.  A step over is handed to the caller (`StepOverFollowed`).
* `conversation`.  `ClientBelief` is the refinement of `ClientView`, across disconnects,
  lost peers and replaced sessions.  `RequestsServed`: a request is read
  whenever it comes, at once while an event is stopped or waits for a client, because both nested loops go on
  serving the socket, and after the condition when one is evaluated; and what its handler begins to send is sent.
  `EntryTold`: the client that is configured while the first call waits for it is told of the
  entry, unless it is gone before.  `PauseStops`: a pause ends in a stop, in another command,
  or in a dead process.
* `lifecycle`.  `_evaling` can only be cleared with the GIL, so that an event let in without a
  post finds it still set (`BodyOnlyOnIo`).  Where the debugger runs no Python nobody else does
  (`OthersStandStill`).  Where it runs some without `_evaling` another thread may post an event; that is one at most
  (`OneEventAtATime`), and it is not dispatched inside the one in hand (`NoNestedDispatch`), because its thread keeps
  the GIL and the io thread waits for it before it comes to a `run_one()` again: this is the deadlock of run `repl`.
  `EventAnswered` and `IoThreadEnds` say exactly when they do not hold: once `_ctx` is stopped
  nobody answers, a truth value or the text of an exception may deadlock as run `repl` shows, and the io thread
  stays if it is caught in an event that waits for the client, if a trace call keeps the GIL for ever, or if the
  detach came first.  `StreamsSurvive`: only an object that a
  script assigned without keeping a reference may dangle after an evaluation.
  `OnlyHooksTraceLate`: after `Py_Finalize` only a thread whose bootstrap comes still later installs the trace,
  by the hook that `disable_trace` leaves behind, and a thread that was rid of it stays so.
* `refs`.  The forget at a stop is what makes tables filled while Python was running safe
  (`StoppedFramesLive`, `StoppedDictsLive`), until a request runs Python; the stack that was shown of the
  stopped thread is its stack even then.  Ids never given twice make the cache, which is
  never forgotten, name one code (`SourceFaithful`): its source, or the text of the failure that was cached instead.
  `ShownFramesKept` says that the ids of the latest answer are right after longer and shorter ones.
* `packets`.  `HandledInOrder` is the refinement of `Fifo`; `AllHandled` its liveness.
* `redirect`.  `StopReturns` depends on the order of `stop()`: only when the last write end is
  gone does the blocked `read` return.  `ForwardSafe`: a forwarded line goes astray only once
  `stop()` has begun, which closes the descriptor of `output_fd()` before it joins the reader.
* `launcher`.  `PathHierarchy` is the order `src/README.md` gives; the code has its last part
  only through the order of two registry keys in a `std::map`.  `DanglesOnlyMoved`: the
  pointers given to Detours are into strings of a vector that grows.  A long path keeps its
  characters on the heap and its pointer; a short one, kept inside the string, does not.

**Bounds.**  Three frames are the fewest with a callee, its caller and a caller of that, which
step over needs; each popped address is reused, so that
longer runs reuse addresses and need no more of them.  A second thread entering needs two
frames at once, hence four frames for two threads.  One line is enough because a frame may
raise any number of LINE events for it and only the breakpoints on a line matter; two files
distinguish watched from unwatched callees.  A list of two breakpoints is the shortest in
which `break_here` can go on after the first.  `conversation` asks about messages, which do not
depend on whose frame stopped: one thread suffices.  Three threads are the fewest in which one waits
with the GIL, one posts and one starts; the two streams are symmetric but for the order in which they are
captured.  `MaxSourceId = 3` lets two ids be issued,
by one answer or by two.  The constraint `DictsOrSources` of `refs` follows sessions in which a client
looks at variables or at sources of code without a file: the two have tables of their own and share no variable but
the frames.  With the constraint each half is explored whole.  `MaxSent = 3` lets a chunk hold the end of one packet, a whole one,
and the start of a third.  A pipe larger than a read, and more characters than the pipe
holds, make `read` return partial lines and make writers block.  `MaxArgs = 2` makes the vector grow with
one, two and, with the DLL that is found, three elements.  The frame addresses are a symmetry set, in `refs` also threads and dicts: nothing distinguishes them.  The runs with liveness use no symmetry.

**Deadlock.**  It is checked in `Debugger`, `Conversation` and `SessionRefs`.  The other runs
end: a session ends when the peer is gone, the redirect is stopped, the DLL is unloaded, the
launcher leaves its loop.

### Fairness

* `Conversation`: a Python program that runs keeps raising events, and a condition terminates;
  the io thread leaves a nested loop whose condition is false.  Strong fairness of `Served` and `Sent`: the
  io thread takes its handlers in turn, so that a packet that is there is read and the completion of a send comes
  up although trace events keep coming in between, and the peer reads what it is sent or goes away.  That the
  requests' own Python ends is part of it: a conversation does not survive the deadlock of run `repl`.  Nothing is
  assumed of the client's commands.
* `Lifecycle`: weak fairness of the steps that follow the program text; strong fairness
  for the GIL, because the interpreter releases it every hundred bytecodes and the waiting
  threads get it some time, and of the end of a handler, because a line has finitely many
  conditions; a condition, its truth value and a listing of the outer loop end; the io thread ends when its loop
  does.  Nothing is assumed of the client, of the Python that its requests run at a stopped event, or of the host, and new events need not come.
* `PacketReader`: TCP delivers what was sent, and the io thread runs.  The client need not send.
* `OutputRedirect`: the reader runs, and `stop()`, once called, proceeds.  Nobody need print or call it.
* `Launcher`: the launcher runs.  The server need not do anything, nor the user at a `pause`.

## 4. Divergences the runs show

1. **`recursive`** `_evaling` is one flag for all threads, so that events of *other* threads
   are dropped during a condition; the comment at line 235 says they are always recursive.
   Breakpoints are passed, and an ignored frame that returns then is never forgotten.
2. **`stepover`** After a step over of a frame's last line the target is its caller, which can
   be ignored; then no line of it ever stops.
3. **`unhandled`** The test for "all exceptions" is true if any bit is shared, so that the
   filter "Unhandled" stops for caught exceptions as well.
4. **`repl`** Only conditions set `_evaling`.  While the debugger runs other Python, another thread that gets the
   GIL posts its event and waits, with the GIL, for the io thread, which waits for the GIL.  A REPL expression
   does it, and so does the truth value of a condition (`bdb.cpp:400`), the `repr` of an exception
   (`debugger.cpp:120`), a value shown (`debugger_session.cpp:452`) and a disassembly (line 490).

More that the models contain and no run is spent on:

* A condition that cannot be evaluated passes the line (`bdb.cpp:397`); the comment at line
  391, taken over from Python's `bdb`, promises the opposite.
* The return of the main frame, "end of the program" (`bdb.cpp:297`), is meant to reset the stepping state, and does
  not: `reset_guard` (line 301) owns `nullptr` and never calls its deleter (`Return` and `FinishReturn`).
* Output or the text of an exception that is not UTF-8 throws in `json::dump` (`debugger_session.cpp:217`), out of a
  trace call, `host.logWrite` or a reader thread, with the client connected (`SendsText`).
* A text that says why there is no source is cached like the source (`debugger_session.cpp:518`) and answered for
  the rest of the session (`Failed`).
* A packet of length 0 ends `run()` and leaves the socket open, although the message at
  `debugger_session.cpp:64` says the session is closed (`link = "deaf"`).
* `disconnect` of a stopped session leaves Python stopped until a client connects again, and that
  client is not told of the stop (`Join` of `ClientView`).
* A debugger DLL given with `/` in its path does not disable the automatic injection, although
  `src/README.md:22` says an explicit one does: the expression at `launcher/main.cpp:27` knows only `\`
  (`MatchesSchema`), so that two debuggers are injected.
* `bf2launcher.cpp:84` keeps `c_str()` pointers while the vector of paths grows: that of a short path
  dangles (`Dangles`).
* A line that the redirect's reader forwards while `stop()` runs is written to a descriptor that is
  closed, or that belongs to somebody else by then (`Forward`).
* The exit of a child ends the launcher's loop as the server's does (`HandleExit`).
* The reference of a dict found in another one is the address of its *key* (`debugger_session.cpp:444`), so that two
  dicts bound to the same name share one reference, and the answer that came last wins (`Variables`).
* Loading a second DLL in the simulator frees the first (`Regrow`).

## 5. The proofs

Every safety property that a run checks is proved as well, for every value of the constants, from
the assumptions named in the modules (the null address is no frame, line 0 is no line, there are finitely many
addresses of frames, a request has a body, and the like).  Each property
needs more than itself:

* **`DebuggerProofs`.**  `TypeOK` alone is not inductive: `Resume` pops `top[job.thread]`, which has
  to be a frame.  The inductive invariant is `TypeOK /\ JobHasFrame`; the second part
  also says that a RETURN that stopped is not one of an ignored frame.
  The theorems are `TypeCorrect` and `JobsHaveFrames`.

  *Stops.*  `StepIgnoresNothing` and `StepNeverPasses` are inductive together with the fact that `_step` is
  off while a condition is evaluated: the test of `stop_here` comes before `break_here`, and `Listening` has no
  requests served during a condition (`EvalNotStepping`).  `StoppedHasSession` follows from
  `ArmedHasSession`: whatever can stop an event (a step, a target, a mode, a breakpoint) was set by a request,
  hence by a client, and `_session` is never emptied again.  `ThrowsHaveACause` (`NoCrashWithoutCause`) rests on it
  for `user_exception`, which uses `_session` unchecked.  The action properties
  follow from these by cases on `Next`.

  *Frames.*  Step over and ignored frames need the shape of Python's stacks,
  `FramesWellLinked`: the caller of a live frame is live, and no two frames, or threads, share
  a callee.  That Python's own frame objects have this shape is proved of
  the modelled pushes and pops.
  `IgnoredFramesLive` proves `IgnoredUnwatched` under `NothingBypassed`: with one thread or without conditions.  That
  hypothesis is necessary, since run `recursive` shows how an event dropped during
  a condition leaves an address behind.

  *Breakpoints.*  `break_here` walks the list of a line, and the walk is interrupted by every condition.
  `EvalPlace` says where it stands: the breakpoints before the one under evaluation are conditional.
  With it `ClearLinesHaveNone` says, for any number of threads and any conditions, that a line `break_here` has
  looked up and let through has no plain breakpoint (`ClearHasNoPlain`).  The other way past a
  breakpoint is an ignored frame, so `BreakpointsAreHonoured` (`BreakpointHonoured`)
  combines it with `IgnoredUnwatched` and carries the same hypothesis `NothingBypassed`.

* **`HandoffProofs`.**  For any set of Python threads.  None of the safety properties of `TraceHandoff` is inductive; all
  follow from one invariant, `HandoffInv`, which says who can have the GIL in each activity of the io
  thread and where the thread of a posted event is: bytecode runs with the GIL
  (`RunnersHoldGil`), `_evaling` is set exactly during a condition (`EvalingInConditions`), the thread of the event in hand
  waits with the GIL unless Python that is run for the event took it (`OwnerWaits`), a second event
  can be posted only while Python runs without `_evaling`, and keeps the GIL (`PosterWaits`), so that there is no third
  (`Shapes`), an answered thread goes on before
  anything else happens (`AnsweredWaits`), and a posted event is queued, in hand or answered
  (`PostedSomewhere`).  The same invariant gives `ConditionsNeverDeadlock`: the deadlock of run `repl`
  needs Python with `_evaling` off; the condition of a breakpoint, up to its truth value, cannot cause it.

* **`ConversationProofs`.**  `ConversationIsDebugger` shows that a conversation is a behaviour of `Debugger`,
  so that everything above holds in it.  `ClientsMayBelieve` is the refinement of
  `ClientView`: `ConversationSpec => ClientBelief`, for any threads, frames and files.  The
  invariant is `Believed` (a client that heard of a stop finds one), with the types and
  `DebuggerProofs`' invariant; each step of the conversation is mapped to a step of `ClientView` or a stutter.
* **`LifecycleProofs`.**  `LifeIsHandoff` shows that the DLL in its host behaves as
  `TraceHandoff` does, so that `HandoffInv` holds from attach to detach (`LifeIsSafe`).
  `StreamsAreNotFreed` needs to know when an evaluation is under way: `StreamInv` says that a captured stream is in place only
  then, and that what is put back is referred to by more than `sys`.  That `Py_Initialize` does not
  replace the streams in the middle of an evaluation comes from `QuietStart`: before the scripts nothing is traced and nothing evaluated.
  `HooksTraceLate` and `LifeTypes` follow from the same facts.
* **`LauncherProofs`.**  `PathIsFoundInOrder`, `NeverWithoutDebugger` and `LastNeverDangles` hold for
  command lines of any length and any DLLs.  The invariants relate what is left
  of the arguments to what was found in the rest (`PathOfArgs`, `Injected`), and the age of the last
  pointer to that of the vector (`LastIsFresh`).  `LauncherTypes` is the type invariant `Launcher!TypeOK`, which
  is proved and not among the properties of the run.

* **`SessionRefsProofs`.**  `TypeOK` is proved with two facts about addresses and ids: a frame is in one
  place of one stack (`StacksApart`), which bounds frame ids by the number of frames, and an id is issued for one code
  only (`IssuedOnce`), which rests on lemma `SourceIds`, that the ids of one answer are distinct and new.
  `FramesOutliveReferences` is inductive with the types: after the stop the stopped thread's stack stays as it is,
  and until `ran` the others' do too.  `DictsOutliveReferences` needs it, because a
  dict is followed from a frame, from the globals or from a dict followed before, and what such a one holds is alive
  as well (`LiveDictsClosed`, at any depth).
  `LatestAnswerHolds` is inductive.  `CachedSourcesAreFaithful` has the invariant `RefsCurrent`: a reference leads to
  the code its id was issued for if it is a file in a zip or a frame of the stopped thread, whose frames are not
  freed before the reference is forgotten.
* **`PacketProofs`.**  `ReaderIsFifo` is the refinement, `Spec => HandledInOrder`, for requests of any length,
  any number of them and any cut of the stream.  The invariant `PacketInv` describes the whole stream by the place where each
  request starts in it (`Written`), and says that the reader is at such a place, or behind the header
  of one when it knows the length, with exactly the rest of the stream before it (`Taken`).  Places only have to be added when
  the client sends and never move when the reader takes something, which is why no recursion over the requests is needed.
  A faulty header gives length 0, after which nothing is handled.
  `PacketsAreRequests` adds that the text given to the parser is always exactly the next request (`PacketIsNext`), so that a
  session with a sound client never ends because of a text that cannot be parsed.  The
  theorems assume that a request has a body and that texts of different requests differ, as the
  field `seq` of DAP makes them.
* **`RedirectProofs`.**  `OutputIsComplete` (`NothingLost`): what was printed is what was delivered, what is left of a line and
  what is in the pipe, in this order; every read and every delivered line is a cut of a sequence that is joined
  elsewhere.  It is inductive given the types.  `EachIsClosedOnce` and `ForwardingIsSafe` need to know which descriptors are open in each
  phase of `stop()` and that the reader runs only between `start()` and the join (`Unclosed`).

Model-checked only: `PauseStops`, `EntryTold`, `RequestsServed`, `EventAnswered`,
`IoThreadEnds`, `AllHandled`, `StopReturns`, `LinesDelivered` and `EventsAnswered`, because liveness under
fairness is out of this prover's reach.

## 6. What is not modelled

* **Texts**: JSON, names and values of variables, disassembly, captured output, the answers'
  contents, `unicode.cpp`, the printing of a native stack.  No property is about them, but for
  two things that are modelled: whether a text of the scripts can be encoded at all (`Debugger`), and
  whether a source could be produced or an error text takes its place (`SessionRefs`).
* **Unused parts of `bdb`**: ignore counts, temporary and disabled breakpoints, `set_quit`,
  `set_break`.  Nothing in the repository calls them, and the only code that makes a
  breakpoint sets none of those fields.
* **Partial writes**: `async_send` takes one write of the socket for the whole message.  On a
  loopback connection it is, unless the buffer is full.
* **Data races**: `log()` reads `_session` on other threads while `run()` replaces it.  The
  replacement is one step here.
* **Python run without the GIL**: a `source` request served by an outer loop runs Python on a thread
  that need not hold the GIL.  That is undefined behaviour; `Lifecycle` has its effect on the streams only.
* **The second redirect**: `OutputRedirect` is one of the two; the reader of stderr also writes to
  the alias of stdout.  That `stop()` runs in a static destructor, under the loader lock, is not
  considered there.
* **The launcher's messages**: what it prints, and how it counts repeated lines.
* **The mock data of the simulator's host module**, and an explicit second call of a destructor in `DllMain`.
* **Failures in the middle of `setBreakpoints`**: the request is one step.

Abstractions worth knowing: a generator that is resumed raises a CALL for a frame that raised a
RETURN before, which the model has as a new frame at the same address; a session is replaced in one step, while
the old one's coroutine would still be unwinding; one line stands for all that behave alike.

## 7. Plan

Done, in this order: `Bdb`, `Debugger`, `TraceHandoff`, `SessionRefs`, `PacketReader`
over `Fifo`, `OutputRedirect`; the proofs of `Debugger` and of the safety of `TraceHandoff`;
`Conversation` over `ClientView`, `Streams`, `Lifecycle`, `Launcher`, and the proofs of their safety;
the proofs of `SessionRefs`, of `PacketReader` over `Fifo`, of `OutputRedirect` and of `BreakpointHonoured`.

Next, most important first:

1. The safety halves of the liveness properties: what a state looks like in which a request, an event or
   `stop()` waits, as invariants that name the step which ends the wait.
2. What the divergences leave intact: which stops survive an event that is dropped during a condition of another thread.
