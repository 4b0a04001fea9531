----------------------------- MODULE Lifecycle -----------------------------
(***************************************************************************)
(* The DLL in its host: DllMain and the detours of debug-dll/main.cpp, in  *)
(* the order in which debug-test/bf2simulator.cpp, the stand-in for the    *)
(* game, calls them, around the hand-off of trace events.                  *)
(*                                                                         *)
(* Thread Main is the host.  It loads DLLs, initializes Python, runs the   *)
(* scripts until they fail or the user stops it, finalizes Python and      *)
(* frees the DLLs, while the io thread lives from the attach of the DLL    *)
(* until it finds the io_context stopped.                                  *)
(***************************************************************************)
EXTENDS TraceHandoff, Streams

VARIABLES
    stage,        \* where the host is
    ioAlive,      \* does the thread of _io_runner run?
    pyDebugger,   \* bdb::_pyDebugger # nullptr
    hook          \* was threading.settrace called with it?

lifeVars == <<stage, ioAlive, pyDebugger, hook>>
allVars  == <<vars, streamVars, lifeVars>>

\* loading     LoadLibrary for each -inject argument
\* starting    before Py_Initialize
\* scripts     Python is initialized
\* leaving     run() returns, Python is finalized or was never initialized
\* detaching   in DllMain, with the loader lock, in the destructor of _io_runner
\* gone        the DLL is unloaded
Stages == {"loading", "starting", "scripts", "leaving", "detaching", "gone"}

LifeInit ==
    /\ Init /\ StreamsInit
    /\ stage = "loading"
    /\ ioAlive = FALSE
    /\ pyDebugger = FALSE
    /\ hook = FALSE

Host(from, to) == pc[Main] = "python" /\ stage = from /\ stage' = to

-----------------------------------------------------------------------------
(* The host *)

\* DLL_PROCESS_ATTACH: g_debug.start(), and the detours
Attach ==
    /\ Host("loading", "loading") /\ ~ioAlive
    /\ ioAlive' = TRUE
    /\ UNCHANGED <<vars, streamVars, pyDebugger, hook>>

\* a DLL that cannot be loaded ends run() at once
LoadFails ==
    /\ Host("loading", "leaving")
    /\ UNCHANGED <<vars, streamVars, ioAlive, pyDebugger, hook>>

\* One more DLL makes the vector grow.  A DynLib has a destructor but no move
\* or copy of its own, so that the library of the old element is freed.
Regrow ==
    /\ Host("loading", "detaching") /\ ioAlive
    /\ UNCHANGED <<vars, streamVars, ioAlive, pyDebugger, hook>>

\* allocConsole starts the output redirects (OutputRedirect.tla)
AllocConsole ==
    /\ Host("loading", "starting") /\ ioAlive
    /\ UNCHANGED <<vars, streamVars, ioAlive, pyDebugger, hook>>

\* pyInitialize.  When py_utils::init, pyInit or enable_trace fails the host
\* goes on without a debugger.
PyInitialize ==
    /\ Host("starting", "scripts")
    /\ Install
    /\ \/ EnableTrace /\ pyDebugger' = TRUE
       \/ UNCHANGED <<vars, pyDebugger>>
    /\ UNCHANGED <<ioAlive, hook>>

\* thread.start_new_thread calls PyEval_InitThreads, and so pyEval_InitThreads,
\* before the thread exists.  Without _pyDebugger, or without the threading
\* module, no hook is left.
StartThread(t) ==
    /\ stage = "scripts" \/ pc[Main] = "over"
    /\ hook' \in {hook, hook \/ pyDebugger}
    /\ Spawn(t)
    /\ UNCHANGED <<streamVars, stage, ioAlive, pyDebugger>>

Script ==
    /\ stage = "scripts" /\ \E t \in Threads : pc[t] = "python"
    /\ ScriptAssigns
    /\ UNCHANGED <<vars, lifeVars>>

\* The finalizer of run(), after a failed import, a failed call or a signal,
\* calls Py_Finalize: pyFinalize stops the io_context and drops _pyDebugger.
PyFinalize ==
    /\ Host("scripts", "leaving")
    /\ Finalize
    /\ pyDebugger' = FALSE
    /\ UNCHANGED <<streamVars, ioAlive, hook>>

\* The DynLibs are destroyed: DLL_PROCESS_DETACH, ~debugger, ~jthread.
FreeDlls ==
    /\ stage = "leaving" /\ stage' = "detaching"
    /\ UNCHANGED <<vars, streamVars, ioAlive, pyDebugger, hook>>

Joined ==
    /\ stage = "detaching" /\ ~ioAlive
    /\ stage' = "gone"
    /\ UNCHANGED <<vars, streamVars, ioAlive, pyDebugger, hook>>

HostStep == \/ Attach \/ LoadFails \/ Regrow \/ AllocConsole \/ PyInitialize
            \/ Script \/ PyFinalize \/ FreeDlls \/ Joined
            \/ \E t \in Threads : StartThread(t)

-----------------------------------------------------------------------------
(* The threads *)

Running(t) ==
    /\ \/ TakeGil(t) \/ GiveGil(t) \/ Event(t) \/ Dispatch(t) \/ Inline(t) \/ Answered(t)
       \/ Bootstrap(t) /\ (t \in traced' <=> t \in traced \/ hook)
    /\ UNCHANGED <<streamVars, lifeVars>>

\* between two run_one() of the outer loop
Idle == stack = << >> /\ saved = << >>

\* mutant of IoExit: the loop of start_io_runner ends on a stop request only
IoExit_OnRequest ==
    /\ ioAlive /\ Idle /\ stage = "detaching"
    /\ ioAlive' = FALSE
    /\ UNCHANGED <<vars, streamVars, stage, pyDebugger, hook>>

\* The loop of start_io_runner ends.  A thread that ends needs the loader lock.
IoExit ==
    /\ ioAlive /\ ended /\ Idle /\ stage # "detaching"
    /\ ioAlive' = FALSE
    /\ UNCHANGED <<vars, streamVars, stage, pyDebugger, hook>>

\* handle_source does not look at _state: the outer loop runs the disassembler
\* while the scripts run, on whatever thread state is the current one.
SourceMeanwhile == ioAlive /\ ~ended /\ Idle /\ stage = "scripts" /\ Capture /\ UNCHANGED vars
SourceDone == ioAlive /\ stack = << >> /\ saved # << >> /\ Restore /\ UNCHANGED vars

\* StringIO() fails, whoever asked
NotCaptured ==
    /\ saved = << >>
    /\ Serving("nested") \/ Serving("waiting") \/ (Idle /\ stage = "scripts" /\ ~ended)
    /\ CaptureFails /\ UNCHANGED vars

\* an expression, or the disassembler for a source request
Captured ==
    \/ CodeRequest /\ Capture
    \/ CodeDone /\ Restore
    \/ SourceMeanwhile \/ SourceDone \/ NotCaptured

IoThread ==
    /\ ioAlive
    /\ \/ /\ \/ (RunOne \/ RunsOut) /\ saved = << >>
             \/ Pass \/ EvalCondition \/ CondDone \/ EvalValue \/ ValueDone
             \/ AwaitClient \/ ClientReady \/ Interact \/ ResumeRequest \/ LeaveInteraction
             \/ TextRequest \/ TextDone
             \/ IoGiveGil \/ IoTakeGil \/ Spin
          /\ UNCHANGED streamVars
       \/ Captured
    /\ UNCHANGED lifeVars

LifeNext == HostStep \/ (\E t \in Threads : Running(t)) \/ IoThread \/ IoExit

LifeSpec == LifeInit /\ [][LifeNext]_allVars

\* A thread that runs bytecode gives the GIL away again and again (every
\* hundred bytecodes, traced or not), and a free GIL goes to the io thread some
\* time; a condition ends, and so does its truth value, and a line has finitely
\* many of them; a listing for a source request ends; asio runs handlers in the
\* order they were posted in; the io thread runs while it lives, and ends when
\* its loop does.  Nothing is assumed of the client or of the host.
LifeFairness ==
    /\ WF_allVars(\E t \in Threads : Running(t) /\ (Dispatch(t) \/ Inline(t) \/ Answered(t)))
    /\ SF_allVars(\E t \in Threads : Running(t) /\ GiveGil(t))
    /\ WF_allVars(IoThread /\ (LeaveInteraction \/ SourceDone))
    /\ SF_allVars(IoThread /\ RunOne) /\ SF_allVars(IoThread /\ IoTakeGil)
    /\ SF_allVars(IoThread /\ (CondDone \/ ValueDone))
    /\ SF_allVars(IoThread /\ (Pass \/ Interact \/ AwaitClient))
    /\ WF_allVars(IoExit)
LiveLife == LifeSpec /\ LifeFairness

-----------------------------------------------------------------------------
LifeTypeOK ==
    /\ TypeOK /\ StreamsTypeOK
    /\ stage \in Stages
    /\ ioAlive \in BOOLEAN /\ pyDebugger \in BOOLEAN /\ hook \in BOOLEAN

\* After Py_Finalize no thread is traced any more but one whose bootstrap comes
\* to its sys.settrace even later: disable_trace leaves the hook behind, and a
\* thread that was traced once is rid of it for good.
OnlyHooksTraceLate ==
    [][pc'[Main] = "over" =>
          \A t \in traced' : t \in booting \/ (pc[Main] = "over" /\ t \in traced)]_allVars

\* A stopped io_context ends the io thread, which the detach of the DLL waits
\* for, unless the thread is caught in an event that waits for the client, a
\* trace call holds the GIL for ever, or the detach is already under way, with
\* the loader lock.
IoThreadEnds ==
    ended ~> (~ioAlive \/ Asks \/ traced # {} \/ stage = "detaching")
=============================================================================
