------------------------------ MODULE Debugger ------------------------------
(***************************************************************************)
(* class debugger (debug-dll/debugger.h, debugger.cpp) and the requests of *)
(* debugger_session.cpp that change its state, over the stop logic of Bdb. *)
(*                                                                         *)
(* A trace event is handled by the io thread while the Python thread that  *)
(* raised it waits, still holding the GIL.  So one event is in hand at a   *)
(* time, and only two things interleave with it: the requests and          *)
(* connections the io thread serves inside a nested run_one() loop         *)
(* (user_entry, interaction), and the other Python threads while a         *)
(* breakpoint condition is evaluated, because the interpreter running the  *)
(* condition gives the GIL away from time to time.  TraceHandoff.tla shows *)
(* that this picture is what the thread hand-off amounts to.               *)
(***************************************************************************)
EXTENDS Bdb

VARIABLES
    job,         \* the trace event in hand, NoJob when there is none
    link,        \* _session and its socket
    configured,  \* debugger_session::_initialized of the current session
    wait,        \* _wait_for_connection
    crashed,     \* an exception left a trace call or a std::thread
    passed,      \* history: the last trace event that did not stop, or Nothing
    unwatched    \* history: live frames dispatched as a CALL from another frame
                 \* while their file had no breakpoint entry

linkVars == <<link, configured, wait>>
vars == <<pyVars, bdbVars, job, linkVars, crashed, passed, unwatched>>

\* caught and uncaught are PyTrace_EXCEPTION with and without a try block
\* around the frame
EventTypes == {"call", "line", "return", "caught", "uncaught"}

NoJob   == [phase |-> "idle", type |-> "none", thread |-> Main, line |-> 0, at |-> 0]
Nothing == [type |-> "none", thread |-> Main, line |-> 0, why |-> "none"]

Jobs == [phase : {"idle", "entry", "eval", "stopped", "resumed"},
         type : EventTypes \cup {"none"}, thread : Threads,
         line : Lines \cup {0}, at : Nat]

Job(phase, type, t, l, i) ==
    [phase |-> phase, type |-> type, thread |-> t, line |-> l, at |-> i]

\* none    no client was ever accepted (_session is empty)
\* open    a client is connected and debugger_session::run serves it
\* deaf    run() has returned on a bad packet; the socket is still open
\* lost    the peer is gone; a send may still succeed or may throw
\* closed  the session closed its own socket on a disconnect request
Links == {"none", "open", "deaf", "lost", "closed"}

\* Why an event did not stop: it was the entry call, the frame was ignored,
\* there was nothing to stop for, no session, a condition that could not be
\* evaluated, or a condition being evaluated for another thread
Reasons == {"entry", "ignored", "clear", "nosession", "evalfailed", "bypassed"}

\* What user_exception makes of an exception: nothing (repr or str failed), a
\* text, or bytes that are not UTF-8
Texts == {"none", "utf8", "bytes"}

Passes == [type : EventTypes \cup {"none"}, thread : Threads,
           line : Lines \cup {0}, why : Reasons \cup {"none"}]

Idle == job.phase = "idle"
\* _state == Status::Stopped
IsStopped == job.phase = "stopped"
\* _curframe
curframe == IF IsStopped THEN top[job.thread] ELSE NoFrame

Init ==
    /\ BdbInit
    /\ job = NoJob
    /\ link = "none"
    /\ configured = FALSE
    /\ wait \in BOOLEAN          \* +pyDebugStopOnEntry
    /\ crashed = FALSE
    /\ passed = Nothing
    /\ unwatched = {}

-----------------------------------------------------------------------------
(* How an event ends *)

LetThrough(type, t, l, why) ==
    passed' = [type |-> type, thread |-> t, line |-> l, why |-> why]

\* send_step, send_entry or send_exception with a text that is UTF-8, then
\* interaction(): a send to a socket that cannot take it throws out of the
\* trace call
StopAt(type, t) ==
    \/ /\ link \in {"open", "deaf", "lost"}
       /\ job' = Job("stopped", type, t, 0, 0)
       /\ UNCHANGED crashed
    \/ /\ link \in {"lost", "closed"}
       /\ crashed' = TRUE
       /\ UNCHANGED job

\* user_call, user_line, user_return: nothing happens without a session
UserStop(type, t, l) ==
    IF link = "none"
    THEN LetThrough(type, t, l, "nosession") /\ job' = NoJob /\ UNCHANGED crashed
    ELSE StopAt(type, t) /\ passed' = Nothing

\* mutant of FinishReturn: the step-over target stays where it was
FinishReturn_NoMove(f) == UNCHANGED stepVars

\* The end of dispatch_return: the step-over target moves to the caller, which
\* is NoFrame for a top-level frame.  Nothing else is reset: reset_guard is a
\* unique_ptr that owns nullptr, and a unique_ptr does not call its deleter on
\* nullptr, so bdb::reset never runs.
FinishReturn(f) ==
    /\ stopframe' = IF stopframe = f THEN back[f] ELSE stopframe
    /\ UNCHANGED <<ignored, step, returnframe>>

\* Forget a popped address in the history variable as well.
PopTop(t) == Pop(t) /\ unwatched' = unwatched \ {top[t]}

-----------------------------------------------------------------------------
(* Trace events of the thread that holds the GIL *)

Call(t, f, g) ==
    /\ Idle
    /\ t = Main \/ top[t] # NoFrame
    /\ Push(t, f, g)
    /\ unwatched' = IF top[t] # NoFrame /\ g \notin DOMAIN breaks
                    THEN unwatched \cup {f} ELSE unwatched
    /\ UNCHANGED <<breaks, exmode, linkVars>>
    /\ \/ /\ top[t] = NoFrame                       \* user_entry
          /\ IF wait
             THEN job' = Job("entry", "call", t, 0, 0) /\ passed' = Nothing
             ELSE LetThrough("call", t, 0, "entry") /\ UNCHANGED job
          /\ UNCHANGED <<stepVars, crashed>>
       \/ /\ top[t] # NoFrame
          /\ stop_here(f)
          /\ UserStop("call", t, 0)
          /\ UNCHANGED stepVars
       \/ /\ top[t] # NoFrame
          /\ ~stop_here(f)
          /\ break_anywhere(g)
          /\ LetThrough("call", t, 0, "clear")
          /\ UNCHANGED <<stepVars, job, crashed>>
       \/ /\ top[t] # NoFrame
          /\ ~stop_here(f)
          /\ ~break_anywhere(g)
          /\ ignored' = ignored \cup {f}
          /\ LetThrough("call", t, 0, "ignored")
          /\ UNCHANGED <<step, stopframe, returnframe, job, crashed>>

\* break_here from the i-th breakpoint of the line on.  Breakpoints are
\* always enabled, never temporary and have no ignore count: setBreakpoints
\* is the only code that makes one.
BreakFrom(t, l, i) ==
    LET bs == BreaksAt(top[t], l)
    IN  \/ /\ i > Len(bs)
           /\ LetThrough("line", t, l, "clear")
           /\ job' = NoJob
           /\ UNCHANGED crashed
        \/ /\ i <= Len(bs)
           /\ bs[i] = "plain"
           /\ UserStop("line", t, l)
        \/ /\ i <= Len(bs)
           /\ bs[i] = "cond"
           /\ job' = Job("eval", "line", t, l, i)     \* _evaling = true
           /\ passed' = Nothing
           /\ UNCHANGED crashed

Line(t, l) ==
    /\ Idle
    /\ top[t] # NoFrame
    /\ UNCHANGED <<pyVars, bdbVars, linkVars, unwatched>>
    /\ \/ /\ top[t] \in ignored
          /\ LetThrough("line", t, l, "ignored")
          /\ UNCHANGED <<job, crashed>>
       \/ /\ top[t] \notin ignored
          /\ stop_here(top[t])
          /\ UserStop("line", t, l)
       \/ /\ top[t] \notin ignored
          /\ ~stop_here(top[t])
          /\ BreakFrom(t, l, 1)

\* dispatch_exception does not look at _ignored_frames, and user_exception
\* does not look at _session: when repr and str of the exception fail it stops
\* without telling the client, otherwise it sends them, and a text that is not
\* UTF-8 makes json::dump throw in send_sync, whatever the socket could take.
Exception(t, type, text) ==
    /\ Idle
    /\ top[t] # NoFrame
    /\ UNCHANGED <<pyVars, bdbVars, linkVars, unwatched>>
    /\ \/ /\ ~exception_stops(top[t], type = "caught")
          /\ LetThrough(type, t, 0, "clear")
          /\ UNCHANGED <<job, crashed>>
       \/ /\ exception_stops(top[t], type = "caught")
          /\ passed' = Nothing
          /\ \/ /\ text = "none"
                /\ job' = Job("stopped", type, t, 0, 0)
                /\ UNCHANGED crashed
             \/ text = "utf8" /\ link # "none" /\ StopAt(type, t)
             \/ /\ text = "bytes" \/ (text = "utf8" /\ link = "none")
                /\ crashed' = TRUE
                /\ UNCHANGED job

Return(t) ==
    LET f == top[t]
    IN  /\ Idle
        /\ f # NoFrame
        /\ UNCHANGED <<breaks, exmode, linkVars>>
        /\ \/ /\ f \in ignored
              /\ Unignore(f)
              /\ UNCHANGED <<step, stopframe, returnframe>>
              /\ PopTop(t)
              /\ LetThrough("return", t, 0, "ignored")
              /\ UNCHANGED <<job, crashed>>
           \/ /\ f \notin ignored
              /\ return_stops(f)
              /\ link # "none"
              /\ StopAt("return", t)
              /\ passed' = Nothing
              /\ UNCHANGED <<pyVars, stepVars, unwatched>>
           \/ /\ f \notin ignored
              /\ ~return_stops(f) \/ link = "none"
              /\ FinishReturn(f)
              /\ PopTop(t)
              /\ LetThrough("return", t, 0, "clear")
              /\ UNCHANGED <<job, crashed>>

\* A new thread's first frames are pushed before its trace function is set.
ThreadStart(t, base, run, g, h) ==
    /\ t # Main
    /\ top[t] = NoFrame
    /\ Idle \/ job.phase = "eval"
    /\ PushThread(t, base, run, g, h)
    /\ passed' = Nothing
    /\ UNCHANGED <<bdbVars, job, linkVars, crashed, unwatched>>

-----------------------------------------------------------------------------
(* While a condition is evaluated: trace_dispatch returns at once for every *)
(* thread, because trace_ignore() is one flag for all of them.              *)

Bypassing(t) == job.phase = "eval" /\ t # job.thread

BypassedCall(t, f, g) ==
    /\ Bypassing(t)
    /\ t = Main \/ top[t] # NoFrame
    /\ Push(t, f, g)
    /\ LetThrough("call", t, 0, "bypassed")
    /\ UNCHANGED <<bdbVars, job, linkVars, crashed, unwatched>>

BypassedLine(t, l) ==
    /\ Bypassing(t)
    /\ top[t] # NoFrame
    /\ LetThrough("line", t, l, "bypassed")
    /\ UNCHANGED <<pyVars, bdbVars, job, linkVars, crashed, unwatched>>

BypassedReturn(t) ==
    /\ Bypassing(t)
    /\ top[t] # NoFrame
    /\ PopTop(t)
    /\ LetThrough("return", t, 0, "bypassed")
    /\ UNCHANGED <<bdbVars, job, linkVars, crashed>>

\* The condition is true, is false, or gives no truth value: then break_here
\* returns false, after it sent an error to the client's console when the
\* condition itself failed.  The text of that error is the condition, which a
\* JSON packet brought and which therefore is UTF-8.
EvalDone(value) ==
    /\ job.phase = "eval"
    /\ UNCHANGED <<pyVars, bdbVars, linkVars, unwatched>>
    /\ \/ value = "true" /\ StopAt("line", job.thread) /\ passed' = Nothing
       \/ value = "false" /\ BreakFrom(job.thread, job.line, job.at + 1)
       \/ /\ value = "error"
          /\ \/ /\ LetThrough("line", job.thread, job.line, "evalfailed")
                /\ job' = NoJob
                /\ UNCHANGED crashed
             \/ /\ link \in {"lost", "closed"}
                /\ crashed' = TRUE
                /\ UNCHANGED <<job, passed>>

-----------------------------------------------------------------------------
(* The nested loops of the io thread *)

\* user_entry leaves its loop when the current session is configured
EntryReady ==
    /\ job.phase = "entry"
    /\ link # "none" /\ configured
    /\ wait' = FALSE
    /\ StopAt("call", job.thread)
    /\ passed' = Nothing
    /\ UNCHANGED <<pyVars, bdbVars, link, configured, unwatched>>

\* interaction() has left its loop: the dispatch_* function ends and the
\* Python thread goes on
Resume ==
    /\ job.phase = "resumed"
    /\ job' = NoJob
    /\ passed' = Nothing
    /\ IF job.type = "return"
       THEN FinishReturn(top[job.thread]) /\ PopTop(job.thread)
       ELSE UNCHANGED <<pyVars, stepVars, unwatched>>
    /\ UNCHANGED <<breaks, exmode, linkVars, crashed>>

-----------------------------------------------------------------------------
(* Requests *)

\* mutant of Listening: interaction() waits without serving the io_context
Listening_Idle == job.phase \in {"idle", "entry"}

\* The io thread is in a run_one() loop, the outer one or a nested one.
Listening == job.phase \in {"idle", "entry", "stopped"}
Request   == link = "open" /\ Listening /\ passed' = Nothing
                /\ UNCHANGED <<pyVars, crashed, unwatched>>

\* mutant of Release: a status the nested loop does not know
Release_Unknown == job' = IF IsStopped THEN [job EXCEPT !.phase = "running"] ELSE job

\* state(Status::Running)
Release == job' = IF IsStopped THEN [job EXCEPT !.phase = "resumed"] ELSE job

Pause    == Request /\ set_step /\ UNCHANGED <<breaks, exmode, job, linkVars>>
Continue == Request /\ set_continue /\ Release /\ UNCHANGED <<breaks, exmode, linkVars>>
Next_    == Request /\ set_next(curframe) /\ Release /\ UNCHANGED <<breaks, exmode, linkVars>>
StepIn   == Request /\ set_step /\ Release /\ UNCHANGED <<breaks, exmode, linkVars>>
StepOut  == Request /\ set_return(curframe) /\ Release /\ UNCHANGED <<breaks, exmode, linkVars>>

SetBreakpoints(g, lineBreaks) ==
    /\ Request
    /\ ReplaceBreaks(g, lineBreaks)
    /\ UNCHANGED <<stepVars, exmode, job, linkVars>>

SetExceptionBreakpoints(mode) ==
    /\ Request
    /\ exmode' = mode
    /\ UNCHANGED <<stepVars, breaks, job, linkVars>>

ConfigurationDone ==
    /\ Request
    /\ configured' = TRUE
    /\ UNCHANGED <<bdbVars, job, link, wait>>

\* Only the socket is closed: _state stays Stopped when it was.
Disconnect ==
    /\ Request
    /\ link' = "closed"
    /\ UNCHANGED <<bdbVars, job, configured, wait>>

\* debugger_session::run breaks out of its loop on a packet of length 0, on a
\* parse error, and on whatever a handler throws
BadPacket ==
    /\ Request
    /\ link' = "deaf"
    /\ UNCHANGED <<bdbVars, job, configured, wait>>

\* mutant of Connect: the next client is accepted while one is served
Connect_Any ==
    /\ Listening
    /\ link' = "open"
    /\ configured' = FALSE
    /\ passed' = Nothing
    /\ UNCHANGED <<pyVars, bdbVars, job, wait, crashed, unwatched>>

\* debugger::run accepts the next client: _session.emplace
Connect ==
    /\ Listening
    /\ link # "open"
    /\ link' = "open"
    /\ configured' = FALSE
    /\ passed' = Nothing
    /\ UNCHANGED <<pyVars, bdbVars, job, wait, crashed, unwatched>>

\* the environment: the peer goes away
LoseClient ==
    /\ link \in {"open", "deaf"}
    /\ link' = "lost"
    /\ passed' = Nothing
    /\ UNCHANGED <<pyVars, bdbVars, job, configured, wait, crashed, unwatched>>

\* host.logWrite or redirected output: the socket cannot take the send, or the
\* bytes are not UTF-8 and json::dump throws with the client connected
LogFails ==
    /\ link # "none"
    /\ crashed' = TRUE
    /\ UNCHANGED <<pyVars, bdbVars, job, linkVars, passed, unwatched>>

-----------------------------------------------------------------------------
CallEvent      == \E t \in Threads, f \in Frames, g \in Files : Call(t, f, g)
LineEvent      == \E t \in Threads, l \in Lines : Line(t, l)
ExceptionEvent == \E t \in Threads, type \in {"caught", "uncaught"}, text \in Texts :
                      Exception(t, type, text)
ReturnEvent    == \E t \in Threads : Return(t)
Spawn          == \E t \in Threads, b \in Frames, r \in Frames, g \in Files, h \in Files :
                      ThreadStart(t, b, r, g, h)
BypassedEvent  == \E t \in Threads :
                      \/ \E f \in Frames, g \in Files : BypassedCall(t, f, g)
                      \/ \E l \in Lines : BypassedLine(t, l)
                      \/ BypassedReturn(t)
EvalEnds       == \E value \in {"true", "false", "error"} : EvalDone(value)

TraceEvent == CallEvent \/ LineEvent \/ ExceptionEvent \/ ReturnEvent

RequestStep ==
    \/ Pause \/ Continue \/ Next_ \/ StepIn \/ StepOut
    \/ \E g \in Files, m \in [Lines -> LineBreaks] : SetBreakpoints(g, m)
    \/ \E mode \in ExceptionModes : SetExceptionBreakpoints(mode)
    \/ ConfigurationDone \/ Disconnect \/ BadPacket

Next ==
    \/ /\ ~crashed
       /\ \/ TraceEvent \/ Spawn \/ BypassedEvent \/ EvalEnds
          \/ EntryReady \/ Resume
          \/ RequestStep
          \/ Connect \/ LoseClient \/ LogFails
    \/ crashed /\ UNCHANGED vars         \* the process is gone

Spec == Init /\ [][Next]_vars

-----------------------------------------------------------------------------
\* What an event may leave behind, and the rest of the debugger's state
endTypes ==
    /\ job \in Jobs
    /\ passed \in Passes
    /\ crashed \in BOOLEAN

sessionTypes ==
    /\ link \in Links
    /\ configured \in BOOLEAN
    /\ wait \in BOOLEAN
    /\ unwatched \subseteq Frames

\* Every variable has its type.
TypeOK == BdbTypeOK /\ endTypes /\ sessionTypes

(* Safety.  The stop a user asked for is decided by pointers compared with  *)
(* pointers; these say when the comparison can be trusted.                  *)

\* Stepping in (or pausing) leaves no frame ignored, so that the very next
\* event of any thread stops: bdb::set_step and bdb::pause clear the set, and
\* no CALL may fill it while _step is on.
StepIgnoresNothing == step => ignored = {}

\* A frame is ignored only if it is alive and was called while its file had
\* no breakpoint entry; an address left in _ignored_frames after its frame
\* returned would mute whatever frame is allocated there next.
IgnoredUnwatched == ignored \subseteq unwatched

\* A line that carries an unconditional breakpoint is let through only in a
\* frame that was called before its file had any breakpoint.
BreakpointHonoured ==
    (passed.type = "line" /\ passed.why \in {"ignored", "clear"}) =>
        LET f == top[passed.thread]
        IN  file[f] \in DOMAIN breaks =>
                \/ \A i \in DOMAIN breaks[file[f]][passed.line] :
                       breaks[file[f]][passed.line][i] # "plain"
                \/ f \in unwatched

\* While _step is on the only event that does not stop is the entry of a
\* top-level call (user_entry does not look at _step).
StepNeverPasses == (step /\ passed # Nothing) => passed.why = "entry"

\* Nothing is sent and nobody is waited for before a first client connected,
\* although user_exception and interaction do not check for a session.
StoppedHasSession == IsStopped => link # "none"

\* Text of the scripts on its way to the client, as far as it can throw: log
\* output, and the repr of an exception.
SendsText ==
    \/ LogFails
    \/ \E t \in Threads, type \in {"caught", "uncaught"} : Exception(t, type, "bytes")

\* No exception leaves the debugger before a first client connected, although
\* user_exception uses _session unchecked; afterwards the stop of a breakpoint, a
\* step, a pause or an entry throws only when the socket is gone.  What may
\* throw with a client connected is text of the scripts.
NoCrashWithoutCause ==
    [][~crashed /\ crashed' => /\ link # "none"
                               /\ link \in {"lost", "closed"} \/ SendsText]_vars

\* The step-over target moves to its caller when its frame returns; it is left
\* behind as a dangling pointer only if the frame was ignored or returned
\* while a condition was evaluated for another thread.
StepOverFollowed ==
    [][(stopframe \in live \ live' /\ stopframe' = stopframe)
          => stopframe \in ignored \/ job.phase = "eval"]_vars

\* A frame the user asked to step out of returns without a stop only if it is
\* an ignored frame (in which an exception stopped).
StepOutHonoured ==
    [][(Idle /\ returnframe \in live \ live') => returnframe \in ignored]_vars

(* What the invariants above rest on: inductive, and proved with them in    *)
(* DebuggerProofs.tla.                                                      *)

\* Everything that can stop an event was set by a client.
Armed == \/ step \/ stopframe # NoFrame \/ returnframe # NoFrame
         \/ exmode # NEVER_STOP \/ DOMAIN breaks # {}
ArmedHasSession == Armed => link # "none"

\* Python's frames form one chain for each thread: f_back stays among the live
\* frames, and nothing is the callee, or the innermost frame, of two.
FramesWellLinked ==
    /\ \A t \in Threads : top[t] \in live \cup {NoFrame}
    /\ \A f \in live : back[f] \in live \cup {NoFrame} /\ back[f] # f
    /\ \A t, u \in Threads : t # u /\ top[t] = top[u] => top[t] = NoFrame
    /\ \A f, g \in live : f # g /\ back[f] = back[g] => back[f] = NoFrame
    /\ \A t \in Threads, f \in live : back[f] = top[t] => top[t] = NoFrame

\* An event in hand other than an entry call has a frame, and a RETURN that
\* stopped is not the return of an ignored frame.
JobHasFrame ==
    /\ job.phase # "idle" => top[job.thread] # NoFrame
    /\ job.phase \in {"stopped", "resumed"} /\ job.type = "return"
          => top[job.thread] \notin ignored

(* What comments and labels of the source say, and the code does not do.    *)

\* bdb.cpp:235, "evaluating a breakpoint condition - always happens
\* recursively": events of the other threads are dropped as well.
OnlyRecursiveEventsDropped == passed.why = "bypassed" => passed.thread = job.thread

\* bdb.cpp:312, "cannot stop on this frame again, so stop on parent frame": the
\* parent may be an ignored frame, whose lines never stop.
StepOverReachesCaller ==
    [][(job.phase = "resumed" /\ stopframe' # stopframe) => stopframe' \notin ignored]_vars

\* debugger_session.cpp:268, the filter labelled "Unhandled": the test of the
\* exception mode holds for every mode but NEVER, so that exceptions inside a
\* try block stop as well.
UnhandledIgnoresCaught ==
    [][(Idle /\ IsStopped' /\ job'.type = "caught" /\ exmode = UNHANDLED_EXCEPTION)
          => stop_here(top[job'.thread])]_vars
=============================================================================
