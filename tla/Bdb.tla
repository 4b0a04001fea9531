-------------------------------- MODULE Bdb --------------------------------
(***************************************************************************)
(* The stop logic of the C++ port of Python's bdb (debug-dll/bdb.h and     *)
(* bdb.cpp): which frames are ignored, when a frame stops, and what each   *)
(* stepping command writes.  The class keeps raw PyFrameObject pointers,   *)
(* so a member of Frames is a frame ADDRESS: it is live while Python runs  *)
(* the frame and may be handed out again once the frame has returned.      *)
(*                                                                         *)
(* Debugger.tla extends this module the way class debugger extends bdb.    *)
(***************************************************************************)
EXTENDS Naturals, Sequences, FiniteSets

CONSTANTS
    Threads,     \* Python threads
    Main,        \* the thread the game calls Python from
    Frames,      \* frame addresses
    NoFrame,     \* nullptr
    Files,       \* canonical file names
    NoFile,      \* the file of an address that holds no frame
    Lines,       \* line numbers that carry a breakpoint or a line event
    LineBreaks   \* what setBreakpoints may put on one line, in order

ASSUME MainAssumption   == Main \in Threads
ASSUME FrameAssumption  == NoFrame \notin Frames
ASSUME FileAssumption   == NoFile \notin Files
ASSUME LineAssumption   == Lines \subseteq Nat \ {0}
ASSUME BreakAssumption  == /\ LineBreaks \subseteq Seq({"plain", "cond"})
                           /\ << >> \in LineBreaks

VARIABLES
    top,          \* thread -> its innermost frame
    back,         \* frame -> f_back
    file,         \* frame -> f_code->co_filename, canonical
    live          \* the addresses that hold a frame

VARIABLES
    ignored,      \* _ignored_frames
    step,         \* _step
    stopframe,    \* _stopframe
    returnframe,  \* _returnframe
    breaks,       \* _breaks: a function on the files that have an entry
    exmode        \* _exmode, as the set of its bits

pyVars   == <<top, back, file, live>>
stepVars == <<ignored, step, stopframe, returnframe>>
bdbVars  == <<ignored, step, stopframe, returnframe, breaks, exmode>>

MaybeFrame == Frames \cup {NoFrame}

\* mutant of NEVER_STOP: the enumeration starts at 1
NEVER_STOP_One == {"UNHANDLED"}

\* enum class exception_mode : unsigned char
NEVER_STOP          == {}
UNHANDLED_EXCEPTION == {"UNHANDLED"}
ALL_EXCEPTIONS      == {"UNHANDLED", "HANDLED"}
ExceptionModes      == {NEVER_STOP, UNHANDLED_EXCEPTION, ALL_EXCEPTIONS}

\* bool operator&(exception_mode, exception_mode): some bit is common
Has(mode, bits) == mode \cap bits # {}

BreakTable == UNION {[known -> [Lines -> LineBreaks]] : known \in SUBSET Files}

pyTypes ==
    /\ top \in [Threads -> MaybeFrame]
    /\ back \in [Frames -> MaybeFrame]
    /\ file \in [Frames -> Files \cup {NoFile}]
    /\ live \subseteq Frames

stepTypes ==
    /\ ignored \subseteq Frames
    /\ step \in BOOLEAN
    /\ stopframe \in MaybeFrame
    /\ returnframe \in MaybeFrame

BdbTypeOK ==
    /\ pyTypes
    /\ stepTypes
    /\ breaks \in BreakTable
    /\ exmode \in ExceptionModes

BdbInit ==
    /\ top = [t \in Threads |-> NoFrame]
    /\ back = [f \in Frames |-> NoFrame]
    /\ file = [f \in Frames |-> NoFile]
    /\ live = {}
    /\ ignored = {}
    /\ step = FALSE
    /\ stopframe = NoFrame
    /\ returnframe = NoFrame
    /\ breaks = [g \in {} |-> [l \in Lines |-> << >>]]
    /\ exmode = NEVER_STOP

-----------------------------------------------------------------------------
(* Python's own frame stack *)

Push(t, f, g) ==
    /\ f \in Frames \ live
    /\ live' = live \cup {f}
    /\ top' = [top EXCEPT ![t] = f]
    /\ back' = [back EXCEPT ![f] = top[t]]
    /\ file' = [file EXCEPT ![f] = g]

\* the object is freed; its address is forgotten by Python only
Pop(t) ==
    /\ live' = live \ {top[t]}
    /\ top' = [top EXCEPT ![t] = back[top[t]]]
    /\ back' = [back EXCEPT ![top[t]] = NoFrame]
    /\ file' = [file EXCEPT ![top[t]] = NoFile]

\* A threading.Thread enters the trace with two frames whose CALL the
\* debugger never sees: the bootstrap frame that ran sys.settrace, and the
\* frame whose CALL was spent on tp_call, which installs the C trace function.
PushThread(t, base, run, g, h) ==
    /\ base \in Frames \ live
    /\ run \in Frames \ (live \cup {base})
    /\ live' = live \cup {base, run}
    /\ top' = [top EXCEPT ![t] = run]
    /\ back' = [back EXCEPT ![base] = NoFrame, ![run] = base]
    /\ file' = [file EXCEPT ![base] = g, ![run] = h]

-----------------------------------------------------------------------------
(* The decisions.  A definition with a suffix is a mutant: the definition    *)
(* below it with one plausible mistake, used to see that a property notices. *)

\* a stop frame takes precedence over _step, as in Python's own bdb
stop_here_FrameFirst(f) == IF stopframe # NoFrame THEN f = stopframe ELSE step

stop_here(f) == step \/ f = stopframe

return_stops_NoStepOut(f) == stop_here(f)

\* dispatch_return
return_stops(f) == f = returnframe \/ stop_here(f)

\* A file keeps its entry when its last breakpoint is removed.
break_anywhere(g) == g \in DOMAIN breaks

\* only the first breakpoint of a line counts
BreaksAt_First(f, l) ==
    IF file[f] \in DOMAIN breaks /\ breaks[file[f]][l] # << >>
    THEN <<Head(breaks[file[f]][l])>> ELSE << >>

BreaksAt(f, l) == IF file[f] \in DOMAIN breaks THEN breaks[file[f]][l] ELSE << >>

exception_stops(f, caught) ==
    \/ Has(exmode, ALL_EXCEPTIONS)
    \/ Has(exmode, UNHANDLED_EXCEPTION) /\ ~caught
    \/ stop_here(f)

-----------------------------------------------------------------------------
(* The commands that write the stepping state *)

\* the address of an ignored frame that returns
Unignore_Keep(f) == UNCHANGED ignored
Unignore(f) == ignored' = ignored \ {f}

set_step_KeepIgnored ==
    /\ step' = TRUE
    /\ returnframe' = NoFrame
    /\ UNCHANGED <<ignored, stopframe>>

\* stopframe keeps its value
set_step ==
    /\ ignored' = {}
    /\ step' = TRUE
    /\ returnframe' = NoFrame
    /\ UNCHANGED stopframe

set_next(f) ==
    /\ step' = FALSE
    /\ stopframe' = f
    /\ returnframe' = NoFrame
    /\ UNCHANGED ignored

set_return(f) ==
    /\ step' = FALSE
    /\ stopframe' = NoFrame
    /\ returnframe' = f
    /\ UNCHANGED ignored

set_continue ==
    /\ step' = FALSE
    /\ stopframe' = NoFrame
    /\ returnframe' = NoFrame
    /\ UNCHANGED ignored

\* The whole file is replaced; an empty list leaves an empty entry behind.
ReplaceBreaks(g, lineBreaks) ==
    breaks' = [h \in DOMAIN breaks \cup {g} |->
                  IF h = g THEN lineBreaks ELSE breaks[h]]
=============================================================================
