------------------------------ MODULE Launcher ------------------------------
(***************************************************************************)
(* The launcher (launcher/main.cpp, launcher/bf2launcher.cpp): which       *)
(* directory the server is started from, which DLLs are injected into it,  *)
(* and the loop that answers the debug events of the server and of every   *)
(* process the server starts.                                              *)
(*                                                                         *)
(* A DLL is named by a path.  What matters of a path: whether its last     *)
(* component has the name schema of the debugger DLL, whether it is        *)
(* written with '/', and whether its absolute form is so short that        *)
(* std::string keeps the characters inside the object.                     *)
(***************************************************************************)
EXTENDS Naturals, Sequences, SequencesExt

CONSTANTS
    Dlls,           \* paths a user may give to -inject
    AutoDll,        \* bf2py<version>-debug.dll, found in the working directory
    DebugNamed,     \* paths that end in a name of the schema
    ForwardSlashed, \* paths that have a '/' before that name
    Short,          \* paths whose absolute form is kept inside std::string
    MaxArgs         \* bound: arguments of the launcher

ASSUME DllAssumption     == AutoDll \in DebugNamed \ (ForwardSlashed \cup Dlls)
ASSUME BoundAssumption   == MaxArgs \in Nat

VARIABLES
    pc,         \* where main() and launcher::run() are
    argv,       \* arguments not looked at yet
    exeHere,    \* is bf2_w32ded.exe in the working directory?
    registry,   \* the installations the registry knows
    path,       \* launcher::_path, by where it was found
    auto,       \* autoInjectDebugDLL
    dlls,       \* launcher::_dlls
    given,      \* history: all the arguments
    room,       \* capacity of _normalizedDlls
    moves,      \* how often the elements of _normalizedDlls were moved
    ptrs,       \* _detourDllPtrs, each with the value of moves when it was taken
    alive,      \* debugged processes
    event       \* the debug event being handled, NoEvent between two of them

foundVars == <<exeHere, registry>>
argVars   == <<argv, path, auto, dlls, given>>
dllVars   == <<room, moves, ptrs>>
loopVars  == <<alive, event>>
vars      == <<pc, foundVars, argVars, dllVars, loopVars>>

NoEvent == [kind |-> "none", proc |-> "none"]
Event(kind, p) == [kind |-> kind, proc |-> p]

Arguments == {[kind |-> "inject", dll |-> d] : d \in Dlls}
                \cup {[kind |-> k, dll |-> AutoDll] : k \in {"bf2path", "other"}}

Init ==
    /\ pc = "args"
    /\ given \in SeqOf(Arguments, MaxArgs)
    /\ argv = given
    /\ exeHere \in BOOLEAN /\ registry \in SUBSET {"server", "client"}
    /\ path = "none" /\ auto = TRUE /\ dlls = << >>
    /\ room = 0 /\ moves = 0 /\ ptrs = << >>
    /\ alive = {} /\ event = NoEvent

-----------------------------------------------------------------------------
(* main() *)

\* mutant of MatchesSchema: DLLs with any name switch the search off
MatchesSchema_Any(d) == d \in Dlls

\* the regular expression of -inject: only '\' separates directories
MatchesSchema(d) == d \in DebugNamed \ ForwardSlashed

ParseArg ==
    /\ pc = "args" /\ argv # << >>
    /\ argv' = Tail(argv)
    /\ LET a == Head(argv)
       IN  \/ /\ a.kind = "inject"
              /\ dlls' = Append(dlls, a.dll)
              /\ auto' = (auto /\ ~MatchesSchema(a.dll))
              /\ UNCHANGED path
           \/ /\ a.kind = "bf2path"
              /\ path' = "parameter"
              /\ UNCHANGED <<auto, dlls>>
           \/ /\ a.kind = "other"            \* passed on to the server
              /\ UNCHANGED <<path, auto, dlls>>
    /\ UNCHANGED <<pc, given, foundVars, dllVars, loopVars>>

\* mutant of FromRegistry: the keys in the opposite order
FromRegistry_Reversed == IF "client" \in registry THEN "client" ELSE "server"

\* setPathFromRegistry walks a std::map: its keys are in the order of their
\* texts, and "EA GAMES" comes before "Electronic Arts"
FromRegistry == IF "server" \in registry THEN "server" ELSE "client"

DetectPath ==
    /\ pc = "args" /\ argv = << >>
    /\ \/ /\ path # "none"
          /\ pc' = "inject" /\ UNCHANGED path
       \/ /\ path = "none" /\ exeHere
          /\ pc' = "inject" /\ path' = "current"
       \/ /\ path = "none" /\ ~exeHere /\ registry # {}
          /\ pc' = "inject" /\ path' = FromRegistry
       \/ /\ path = "none" /\ ~exeHere /\ registry = {}
          /\ pc' = "failed" /\ UNCHANGED path
    /\ UNCHANGED <<argv, given, foundVars, auto, dlls, dllVars, loopVars>>

\* getPythonVersion loads the server's Python and asks it; any failure on the
\* way, an unusual version or a missing DLL ends the launcher
AutoInject ==
    /\ pc = "inject"
    /\ \/ ~auto /\ pc' = "normalize" /\ UNCHANGED dlls
       \/ auto /\ pc' = "normalize" /\ dlls' = Append(dlls, AutoDll)
       \/ auto /\ pc' = "failed" /\ UNCHANGED dlls
    /\ UNCHANGED <<argv, given, foundVars, path, auto, dllVars, loopVars>>

-----------------------------------------------------------------------------
(* run(), until the process exists *)

\* a full std::vector grows by half, by one element at least
Grown(n) == IF n < 2 THEN n + 1 ELSE n + n \div 2

Pointer(d, n) == [dll |-> d, taken |-> n]

\* mutant of Normalize: the pointer is taken before the vector grows
Normalize_Early ==
    /\ pc = "normalize" /\ Len(ptrs) < Len(dlls)
    /\ room' = Grown(room) /\ moves' = moves + 1
    /\ ptrs' = Append(ptrs, Pointer(dlls[Len(ptrs) + 1], moves))
    /\ UNCHANGED <<pc, foundVars, argVars, loopVars>>

\* one turn of the loop of checkAndNormalizeDLLs
Normalize ==
    /\ pc = "normalize" /\ Len(ptrs) < Len(dlls)
    /\ \/ /\ IF Len(ptrs) = room
             THEN room' = Grown(room) /\ moves' = moves + 1
             ELSE UNCHANGED <<room, moves>>
          /\ ptrs' = Append(ptrs, Pointer(dlls[Len(ptrs) + 1], moves'))
          /\ UNCHANGED pc
       \/ /\ pc' = "failed"                  \* std::filesystem::absolute throws
          /\ UNCHANGED dllVars
    /\ UNCHANGED <<foundVars, argVars, loopVars>>

\* DetourCreateProcessWithDllsW, then ResumeThread
Create ==
    /\ pc = "normalize" /\ Len(ptrs) = Len(dlls)
    /\ \/ pc' = "waiting" /\ alive' = {"server"}
       \/ pc' = "failed" /\ UNCHANGED alive
    /\ UNCHANGED <<foundVars, argVars, dllVars, event>>

-----------------------------------------------------------------------------
(* The debugged processes.  Each stands still from an event to its answer,   *)
(* and DEBUG_PROCESS lets the launcher debug the server's children as well.  *)

Raise(e) ==
    /\ pc = "waiting"
    /\ event' = e
    /\ pc' = "handling"
    /\ UNCHANGED <<foundVars, argVars, dllVars>>

\* debug messages, threads, DLLs
RaiseOther(p) == p \in alive /\ Raise(Event("other", p)) /\ UNCHANGED alive
RaiseFault(p) == p \in alive /\ Raise(Event("fault", p)) /\ UNCHANGED alive

StartChild ==
    /\ "server" \in alive
    /\ Raise(Event("other", "child")) /\ alive' = alive \cup {"child"}

RaiseExit(p) ==
    /\ p \in alive
    /\ Raise(Event("exit", p)) /\ alive' = alive \ {p}

-----------------------------------------------------------------------------
(* The loop of run() *)

\* ContinueDebugEvent, which may fail and end the loop
ContinueEvent ==
    \/ pc' = "waiting" /\ event' = NoEvent
    \/ pc' = "done" /\ UNCHANGED event

\* mutant of HandleOther: the server's events are skipped
HandleOther_Skip ==
    /\ pc = "handling" /\ event.kind = "other" /\ event.proc = "server"
    /\ ContinueEvent
    /\ UNCHANGED <<foundVars, argVars, dllVars, alive>>

\* a message is printed, if there is one
HandleOther ==
    /\ pc = "handling" /\ event.kind = "other"
    /\ ContinueEvent
    /\ UNCHANGED <<foundVars, argVars, dllVars, alive>>

\* print_stacktrace ends in system("pause"), unless a handle cannot be opened
HandleFault ==
    /\ pc = "handling" /\ event.kind = "fault"
    /\ \/ pc' = "paused" /\ UNCHANGED event
       \/ ContinueEvent
    /\ UNCHANGED <<foundVars, argVars, dllVars, alive>>

KeyPressed ==
    /\ pc = "paused"
    /\ ContinueEvent
    /\ UNCHANGED <<foundVars, argVars, dllVars, alive>>

\* the exit of any of the processes ends the loop, with that event unanswered
HandleExit ==
    /\ pc = "handling" /\ event.kind = "exit"
    /\ pc' = "done"
    /\ UNCHANGED <<foundVars, argVars, dllVars, loopVars>>

Handle == HandleOther \/ HandleFault \/ HandleExit

Debuggee == \E p \in {"server", "child"} :
    RaiseOther(p) \/ RaiseFault(p) \/ RaiseExit(p)

Next ==
    \/ ParseArg \/ DetectPath \/ AutoInject
    \/ Normalize \/ Create
    \/ Debuggee \/ StartChild
    \/ Handle \/ KeyPressed

\* The launcher runs; nothing is assumed of the server or of the user.
Spec     == Init /\ [][Next]_vars
LiveSpec == Spec /\ WF_vars(ParseArg \/ DetectPath \/ AutoInject \/ Normalize \/ Create)
                 /\ WF_vars(Handle)

-----------------------------------------------------------------------------
TypeOK ==
    /\ pc \in {"args", "inject", "normalize", "waiting", "handling", "paused",
               "failed", "done"}
    /\ path \in {"none", "parameter", "current", "server", "client"}
    /\ dlls \in Seq(Dlls \cup {AutoDll}) /\ Len(dlls) <= MaxArgs + 1
    /\ alive \subseteq {"server", "child"}

Launched == pc \in {"waiting", "handling", "paused", "done"}
Given(kind) == {a \in ToSet(given) : a.kind = kind}

\* README.md:14-18: a parameter, the working directory, the server's and then
\* the client's installation, each only when everything before it is missing.
\* The code has the last two in the order of two registry keys.
PathHierarchy ==
    Launched =>
        path = CASE Given("bf2path") # {} -> "parameter"
                 [] Given("bf2path") = {} /\ exeHere -> "current"
                 [] Given("bf2path") = {} /\ ~exeHere /\ "server" \in registry -> "server"
                 [] OTHER -> "client"

\* The server is never started without a debugger DLL: the search for one is
\* switched off by nothing but a DLL of that name.
DebuggerInjected == Launched => ToSet(dlls) \cap DebugNamed # {}

\* bf2launcher.h:14, "pointers to normalizedDlls": a pointer given to Detours
\* no longer points at its path only if the path is a short one, and another
\* DLL came after it.
Dangles(i) == ptrs[i].dll \in Short /\ ptrs[i].taken < moves
DanglesOnlyMoved ==
    Launched => \A i \in DOMAIN ptrs : Dangles(i) => i < Len(ptrs)

\* Every event is answered, so that no process stays suspended, unless a key
\* is waited for after a crash or the launcher is leaving.
EventsAnswered == (pc = "handling") ~> (pc \in {"waiting", "paused", "done"})
=============================================================================
