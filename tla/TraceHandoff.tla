---------------------------- MODULE TraceHandoff ----------------------------
(***************************************************************************)
(* How a trace event travels from the Python thread that raised it to the  *)
(* io thread and back (debugger::trace_dispatch, start, stop and           *)
(* interaction in debugger.cpp; _evaling in bdb.cpp; handle_evaluate in    *)
(* debugger_session.cpp; pyFinalize in main.cpp).                          *)
(*                                                                         *)
(* The Python thread posts a handler to the io_context and blocks in       *)
(* future.get() without releasing the GIL.  The io thread runs the         *)
(* handler, which may enter a nested run_one() loop (user_entry and        *)
(* interaction) and may run Python code itself, on the thread state of the *)
(* blocked thread: the condition of a breakpoint, the truth value of its   *)
(* result, the repr of an exception, and what requests ask for.  The       *)
(* interpreter gives the GIL away every hundred bytecodes, whichever       *)
(* thread it runs on, and only a condition sets _evaling meanwhile.        *)
(***************************************************************************)
EXTENDS Naturals, Sequences, FiniteSets

CONSTANTS
    Threads,      \* Python threads
    Main          \* the thread that calls Py_Finalize

ASSUME MainAssumption == Main \in Threads

Io   == "io"
Free == "free"
ASSUME NameAssumption == Io \notin Threads /\ Free \notin Threads /\ Io # Free

VARIABLES
    pc,        \* where each Python thread is
    gil,       \* who holds the GIL
    traced,    \* threads with the trace function installed
    booting,   \* threads of the threading module, before their bootstrap
    queue,     \* handlers posted to _ctx, by the thread that waits for each
    stack,     \* handlers the io thread is in, innermost first
    ready,     \* threads whose future has its value
    evaling,   \* _evaling
    stopped,   \* debugger::_state = Stopped
    ended,     \* _ctx is stopped
    wait       \* _wait_for_connection

vars == <<pc, gil, traced, booting, queue, stack, ready, evaling, stopped, ended, wait>>

\* unborn   not started yet
\* away     outside the interpreter, or waiting for the GIL
\* python   running bytecode
\* tracing  in debugger::trace_dispatch, before the test of trace_ignore()
\* posted   in future.get()
\* inline   in bdb::trace_dispatch, called without a post
\* body     running a dispatch_* function itself, on the Python thread
\* over     gone, or in Py_Finalize
PcValues == {"unborn", "away", "python", "tracing", "posted", "inline", "body", "over"}

\* body     in a dispatch_* function
\* cond     in PyRun_String for a breakpoint condition
\* value    in PyObject_IsTrue for its result, or in PyObject_Repr or
\*          PyObject_Str for an exception, with _evaling off
\* waiting  in the loop of user_entry
\* nested   in the loop of interaction()
\* str      in PyObject_Str or PyObject_Repr for a request, below a loop
\* run      in the expression of an evaluate request or the disassembler of a
\*          source request, below a loop
Activities == {"body", "cond", "value", "waiting", "nested", "str", "run"}

\* mutant of Handler: the handler belongs to the thread that runs it
Handler_Io(at, t) == [at |-> at, for |-> Io]
Handler(at, t) == [at |-> at, for |-> t]

Init ==
    /\ pc = [t \in Threads |-> IF t = Main THEN "away" ELSE "unborn"]
    /\ gil = Free
    /\ traced = {} /\ booting = {}
    /\ queue = << >>
    /\ stack = << >>
    /\ ready = {}
    /\ evaling = FALSE
    /\ stopped = FALSE
    /\ ended = FALSE
    /\ wait \in BOOLEAN          \* +pyDebugStopOnEntry

ioVars == <<queue, stack, ready, evaling, stopped>>
In(activity) == stack # << >> /\ Head(stack).at = activity
Become(activity) == stack' = <<Handler(activity, Head(stack).for)>> \o Tail(stack)

\* Python runs on the io thread, with _evaling or without
Unflagged  == In("value") \/ In("str") \/ In("run")
RunsPython == In("cond") \/ Unflagged

\* The event in hand waits for the client, in a loop or in a request it serves.
Asks == stopped \/ In("waiting") \/ In("str") \/ In("run")

-----------------------------------------------------------------------------
(* Python threads *)

\* enable_trace, in pyInitialize: from now on Main's events are traced
EnableTrace ==
    /\ pc[Main] = "python" /\ Main \notin traced
    /\ traced' = traced \cup {Main}
    /\ UNCHANGED <<pc, gil, booting, ioVars, ended, wait>>

\* A thread made with the threading module has a bootstrap that looks for the
\* hook of enable_thread_trace; one made with the thread module has none.
Spawn(t) ==
    /\ pc[t] = "unborn" /\ \E u \in Threads : pc[u] = "python"
    /\ pc' = [pc EXCEPT ![t] = "away"]
    /\ booting' \in {booting, booting \cup {t}}
    /\ UNCHANGED <<gil, traced, ioVars, ended, wait>>

\* The bootstrap of a thread of the threading module: its own sys.settrace, if
\* there is a hook by then, and the first call after it, which calls tp_call.
Bootstrap(t) ==
    /\ pc[t] = "python" /\ t \in booting
    /\ traced' \in {traced, traced \cup {t}}
    /\ booting' = booting \ {t}
    /\ UNCHANGED <<pc, gil, ioVars, ended, wait>>

TakeGil(t) ==
    /\ pc[t] = "away" /\ gil = Free
    /\ gil' = t
    /\ pc' = [pc EXCEPT ![t] = "python"]
    /\ UNCHANGED <<traced, booting, ioVars, ended, wait>>

GiveGil(t) ==
    /\ pc[t] = "python"
    /\ gil' = Free
    /\ pc' = [pc EXCEPT ![t] = "away"]
    /\ UNCHANGED <<traced, booting, ioVars, ended, wait>>

Event(t) ==
    /\ pc[t] = "python" /\ t \in traced
    /\ pc' = [pc EXCEPT ![t] = "tracing"]
    /\ UNCHANGED <<gil, traced, booting, ioVars, ended, wait>>

\* mutant of Dispatch: the GIL is released around future.get()
Dispatch_AllowThreads(t) ==
    /\ pc[t] = "tracing"
    /\ pc' = [pc EXCEPT ![t] = "posted"]
    /\ queue' = Append(queue, t)
    /\ gil' = Free
    /\ UNCHANGED <<traced, booting, stack, ready, evaling, stopped, ended, wait>>

\* debugger::trace_dispatch
Dispatch(t) ==
    /\ pc[t] = "tracing"
    /\ IF evaling
       THEN pc' = [pc EXCEPT ![t] = "inline"] /\ UNCHANGED queue
       ELSE pc' = [pc EXCEPT ![t] = "posted"] /\ queue' = Append(queue, t)
    /\ UNCHANGED <<gil, traced, booting, stack, ready, evaling, stopped, ended, wait>>

\* bdb::trace_dispatch called directly tests trace_ignore() once more
Inline(t) ==
    /\ pc[t] = "inline"
    /\ pc' = [pc EXCEPT ![t] = IF evaling THEN "python" ELSE "body"]
    /\ UNCHANGED <<gil, traced, booting, ioVars, ended, wait>>

\* future.get() returns
Answered(t) ==
    /\ pc[t] = "posted" /\ t \in ready
    /\ ready' = ready \ {t}
    /\ pc' = [pc EXCEPT ![t] = "python"]
    /\ UNCHANGED <<gil, traced, booting, queue, stack, evaling, stopped, ended, wait>>

\* mutant of Finalize: stop() without disable_trace()
Finalize_KeepTraces ==
    /\ pc[Main] = "python"
    /\ ended' = TRUE
    /\ gil' = Free
    /\ pc' = [pc EXCEPT ![Main] = "over"]
    /\ UNCHANGED <<ioVars, traced, booting, wait>>

\* pyFinalize: stop(), disable_trace(), and Py_Finalize, which waits for the
\* other threads without the GIL.  disable_trace clears the trace functions that
\* are installed; the hook stays, for new threads and for those that have not
\* come to their sys.settrace yet.
Finalize ==
    /\ pc[Main] = "python"
    /\ ended' = TRUE
    /\ traced' = {}
    /\ gil' = Free
    /\ pc' = [pc EXCEPT ![Main] = "over"]
    /\ UNCHANGED <<ioVars, booting, wait>>

-----------------------------------------------------------------------------
(* The io thread *)

\* run_one() starts the oldest handler, in the outer loop of start_io_runner
\* or in a nested loop; a stopped io_context runs none.
RunOne ==
    /\ ~ended
    /\ stack = << >> \/ In("nested") \/ In("waiting")
    /\ queue # << >>
    /\ stack' = <<Handler("body", Head(queue))>> \o stack
    /\ queue' = Tail(queue)
    /\ UNCHANGED <<pc, gil, traced, booting, ready, evaling, stopped, ended, wait>>

\* The acceptor could not be opened, or failed: run() is over, the io_context
\* has nothing left to do and stops by itself.
RunsOut ==
    /\ ~ended /\ stack = << >> /\ queue = << >>
    /\ ended' = TRUE
    /\ UNCHANGED <<pc, gil, traced, booting, ioVars, wait>>

\* the handler returns and the future of its thread gets the value
Finish ==
    /\ ready' = ready \cup {Head(stack).for}
    /\ stack' = Tail(stack)

\* nothing to stop for
Pass ==
    /\ In("body")
    /\ Finish
    /\ UNCHANGED <<pc, gil, traced, booting, queue, evaling, stopped, ended, wait>>

\* The io thread runs Python on the thread state of the blocked thread, whose
\* GIL becomes its own: from here on the interpreter may give it away.
Begin(from, to) == In(from) /\ Become(to) /\ gil' = Io
End(from, to)   == In(from) /\ gil = Io /\ Become(to) /\ gil' = Head(stack).for

\* mutant of EvalCondition: _evaling is not set
EvalCondition_NoFlag ==
    /\ Begin("body", "cond")
    /\ UNCHANGED <<pc, traced, booting, queue, ready, evaling, stopped, ended, wait>>

\* break_here: PyRun_String between the two assignments to _evaling
EvalCondition ==
    /\ Begin("body", "cond")
    /\ evaling' = TRUE
    /\ UNCHANGED <<pc, traced, booting, queue, ready, stopped, ended, wait>>

\* mutant of CondDone: _evaling is cleared before the GIL is back
CondDone_Early ==
    /\ In("cond")
    /\ Become("body")
    /\ evaling' = FALSE
    /\ gil' = IF gil = Io THEN Head(stack).for ELSE gil
    /\ UNCHANGED <<pc, traced, booting, queue, ready, stopped, ended, wait>>

CondDone ==
    /\ End("cond", "body")
    /\ evaling' = FALSE
    /\ UNCHANGED <<pc, traced, booting, queue, ready, stopped, ended, wait>>

\* break_here: PyObject_IsTrue; user_exception: PyObject_Repr, PyObject_Str
EvalValue ==
    /\ Begin("body", "value")
    /\ UNCHANGED <<pc, traced, booting, queue, ready, evaling, stopped, ended, wait>>

ValueDone ==
    /\ End("value", "body")
    /\ UNCHANGED <<pc, traced, booting, queue, ready, evaling, stopped, ended, wait>>

\* user_entry: the loop until a session is configured
AwaitClient ==
    /\ In("body") /\ wait
    /\ Become("waiting")
    /\ UNCHANGED <<pc, gil, traced, booting, queue, ready, evaling, stopped, ended, wait>>

\* ... which a run_one() of the loop brings about, and interaction() follows
ClientReady ==
    /\ In("waiting") /\ ~ended
    /\ Become("nested")
    /\ wait' = FALSE
    /\ stopped' = TRUE
    /\ UNCHANGED <<pc, gil, traced, booting, queue, ready, evaling, ended>>

\* interaction: setup(), _state = Stopped; at once for an entry, too, when the
\* session is configured already
Interact ==
    /\ In("body")
    /\ Become("nested")
    /\ wait' \in {wait, FALSE}
    /\ stopped' = TRUE
    /\ UNCHANGED <<pc, gil, traced, booting, queue, ready, evaling, ended>>

\* A nested run_one() serves a request.
Serving(loop) == ~ended /\ In(loop) /\ (loop = "nested" => stopped)
\* the loop below which a request runs Python
Loop == IF stopped THEN "nested" ELSE "waiting"

\* a continue, next, stepIn or stepOut request
ResumeRequest ==
    /\ Serving("nested")
    /\ stopped' = FALSE
    /\ UNCHANGED <<pc, gil, traced, booting, queue, stack, ready, evaling, ended, wait>>

\* the loop of interaction() sees _state = Running
LeaveInteraction ==
    /\ In("nested") /\ ~stopped
    /\ Finish
    /\ UNCHANGED <<pc, gil, traced, booting, queue, evaling, stopped, ended, wait>>

\* handle_variables, and the repr of what handle_evaluate shows
TextRequest ==
    /\ \E loop \in {"waiting", "nested"} : Serving(loop) /\ Begin(loop, "str")
    /\ UNCHANGED <<pc, traced, booting, queue, ready, evaling, stopped, ended, wait>>

TextDone ==
    /\ End("str", Loop)
    /\ UNCHANGED <<pc, traced, booting, queue, ready, evaling, stopped, ended, wait>>

\* handle_evaluate, which wants _state = Stopped, and handle_source, which does
\* not look at it: neither sets _evaling
CodeRequest ==
    /\ \E loop \in {"waiting", "nested"} : Serving(loop) /\ Begin(loop, "run")
    /\ UNCHANGED <<pc, traced, booting, queue, ready, evaling, stopped, ended, wait>>

CodeDone ==
    /\ End("run", Loop)
    /\ UNCHANGED <<pc, traced, booting, queue, ready, evaling, stopped, ended, wait>>

\* the interpreter loop, on the io thread
IoGiveGil ==
    /\ gil = Io
    /\ gil' = Free
    /\ UNCHANGED <<pc, traced, booting, ioVars, ended, wait>>

IoTakeGil ==
    /\ RunsPython
    /\ gil = Free
    /\ gil' = Io
    /\ UNCHANGED <<pc, traced, booting, ioVars, ended, wait>>

\* run_one() of a stopped io_context returns at once: the nested loops spin
Spin == ended /\ (In("waiting") \/ (In("nested") /\ stopped)) /\ UNCHANGED vars

PythonStep == \E t \in Threads :
    \/ Spawn(t) \/ Bootstrap(t) \/ TakeGil(t) \/ GiveGil(t)
    \/ Event(t) \/ Dispatch(t) \/ Inline(t) \/ Answered(t)

IoStep ==
    \/ RunOne \/ RunsOut \/ Pass
    \/ EvalCondition \/ CondDone \/ EvalValue \/ ValueDone
    \/ AwaitClient \/ ClientReady \/ Interact \/ ResumeRequest \/ LeaveInteraction
    \/ TextRequest \/ TextDone \/ CodeRequest \/ CodeDone
    \/ IoGiveGil \/ IoTakeGil \/ Spin

Next == PythonStep \/ EnableTrace \/ Finalize \/ IoStep
Spec == Init /\ [][Next]_vars

-----------------------------------------------------------------------------
TypeOK ==
    /\ pc \in [Threads -> PcValues]
    /\ gil \in Threads \cup {Io, Free}
    /\ traced \subseteq Threads /\ booting \subseteq Threads
    /\ queue \in Seq(Threads)
    /\ stack \in Seq([at : Activities, for : Threads])
    /\ ready \subseteq Threads
    /\ evaling \in BOOLEAN
    /\ stopped \in BOOLEAN
    /\ ended \in BOOLEAN
    /\ wait \in BOOLEAN

\* The state of bdb is only touched by the io thread: an event that was let in
\* without a post (trace_ignore() was true) meets trace_ignore() still true in
\* bdb::trace_dispatch, because _evaling can only be cleared with the GIL.
BodyOnlyOnIo == \A t \in Threads : pc[t] # "body"

\* Trace events are handled one at a time.  A second one is posted only while
\* the io thread runs Python for the event in hand without _evaling, and it is
\* the last that anybody posts.
OneEventAtATime ==
    /\ Len(stack) + Len(queue) <= 2
    /\ Len(stack) + Len(queue) = 2 => Unflagged

\* Even then that event is not started inside the one in hand, by a nested
\* run_one(): _stack, _curframe, _state and the stepping state belong to one
\* event, because its thread keeps the GIL that the io thread waits for.
NoNestedDispatch == Len(stack) <= 1

\* a thread that waits, with the GIL, for an io thread that needs the GIL
GilDeadlock == RunsPython /\ \E t \in Threads : gil = t /\ pc[t] = "posted"

\* debugger.cpp:8, "when evaluating (e.g. a breakpoint condition) ... there is
\* no need for any additional overhead": Python that the debugger runs itself
\* is not to be traced.  It is where _evaling is off, and a thread that runs
\* meanwhile posts.
NoGilDeadlock == ~GilDeadlock

\* While an event is in hand and no Python code is run for it, no other thread
\* runs Python: the stack that stackTrace and scopes walk stands still.
OthersStandStill ==
    (In("body") \/ In("waiting") \/ In("nested")) =>
        \A t \in Threads : pc[t] \notin {"python", "tracing", "inline"}

\* An event is answered, or waits for the client, or the process is finalized,
\* or the value of a condition or the text of an exception ran Python and led
\* into the deadlock above.  The conditions themselves never do.
EventAnswered ==
    \A t \in Threads :
        pc[t] = "posted" ~>
            (pc[t] # "posted" \/ Asks \/ ended \/ (In("value") /\ GilDeadlock))
=============================================================================
