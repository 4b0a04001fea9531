--------------------------- MODULE DebuggerProofs ---------------------------
(***************************************************************************)
(* Theorems about Debugger.tla, for any number of threads, frames, files   *)
(* and breakpoints.                                                        *)
(***************************************************************************)
EXTENDS Debugger, TLAPS

-----------------------------------------------------------------------------
(* Types.  TypeOK alone is not inductive: the return that Resume completes   *)
(* pops the frame of the event in hand, so that frame has to exist.          *)

\* Replacing the breakpoints of one file leaves a table of breakpoints.
LEMMA ReplaceBreaksType ==
    ASSUME breaks \in BreakTable, NEW g \in Files, NEW m \in [Lines -> LineBreaks],
           ReplaceBreaks(g, m)
    PROVE  breaks' \in BreakTable
<1>1. PICK known \in SUBSET Files : breaks \in [known -> [Lines -> LineBreaks]]
  BY DEF BreakTable
<1>2. breaks' \in [known \cup {g} -> [Lines -> LineBreaks]]
  BY <1>1 DEF ReplaceBreaks
<1>3. known \cup {g} \in SUBSET Files
  BY <1>1
<1>4. QED
  BY <1>2, <1>3 DEF BreakTable

\* The frame stacks keep their types when a frame is pushed or popped.
LEMMA StackTypes ==
    ASSUME pyTypes
    PROVE  /\ \A t \in Threads, f \in Frames, g \in Files : Push(t, f, g) => pyTypes'
           /\ \A t \in Threads : top[t] # NoFrame /\ Pop(t) => pyTypes'
           /\ \A t \in Threads, b, r \in Frames, g, h \in Files :
                 PushThread(t, b, r, g, h) => pyTypes'
  BY DEF pyTypes, Push, Pop, PushThread, MaybeFrame

\* The commands write values of the right type.
LEMMA StepTypes ==
    ASSUME stepTypes
    PROVE  /\ set_step => stepTypes'
           /\ set_continue => stepTypes'
           /\ \A f \in MaybeFrame : set_next(f) \/ set_return(f) => stepTypes'
           /\ \A f \in Frames : back \in [Frames -> MaybeFrame] /\ FinishReturn(f) => stepTypes'
  BY DEF stepTypes, set_step, set_continue, set_next, set_return, FinishReturn, MaybeFrame

\* The records that end or carry an event have their types.
LEMMA RecordTypes ==
    /\ NoJob \in Jobs
    /\ Nothing \in Passes
    /\ \A phase \in {"idle", "entry", "eval", "stopped", "resumed"}, type \in EventTypes,
          t \in Threads, l \in Lines \cup {0}, i \in Nat : Job(phase, type, t, l, i) \in Jobs
  BY MainAssumption DEF NoJob, Nothing, Jobs, Passes, Job

LEMMA LetThroughTypes ==
    ASSUME NEW type \in EventTypes, NEW t \in Threads, NEW l \in Lines \cup {0},
           NEW why \in Reasons
    PROVE  LetThrough(type, t, l, why) => passed' \in Passes
  BY DEF LetThrough, Passes

\* A stop, or a line that is looked up in the breakpoints, keeps the types.
LEMMA StopAtTypes ==
    ASSUME endTypes, NEW t \in Threads, NEW type \in EventTypes
    PROVE  StopAt(type, t) => job' \in Jobs /\ crashed' \in BOOLEAN
<1>1. Job("stopped", type, t, 0, 0) \in Jobs
  BY RecordTypes
<1>2. QED
  BY <1>1 DEF StopAt, endTypes

LEMMA UserStopTypes ==
    ASSUME endTypes, NEW t \in Threads, NEW type \in EventTypes, NEW l \in Lines \cup {0}
    PROVE  UserStop(type, t, l) => endTypes'
<1>1. LetThrough(type, t, l, "nosession") => passed' \in Passes
  BY LetThroughTypes DEF Reasons
<1>2. QED
  BY <1>1, StopAtTypes, RecordTypes DEF UserStop, endTypes

LEMMA BreakFromTypes ==
    ASSUME endTypes, NEW t \in Threads, NEW l \in Lines \cup {0}, NEW i \in Nat
    PROVE  BreakFrom(t, l, i) => endTypes'
<1>1. "line" \in EventTypes
  BY DEF EventTypes
<1>2. UserStop("line", t, l) => endTypes'
  BY <1>1, UserStopTypes
<1>3. LetThrough("line", t, l, "clear") => passed' \in Passes
  BY <1>1, LetThroughTypes DEF Reasons
<1>4. Job("eval", "line", t, l, i) \in Jobs
  BY <1>1, RecordTypes
<1>5. QED
  BY <1>2, <1>3, <1>4, RecordTypes DEF BreakFrom, endTypes

-----------------------------------------------------------------------------
LEMMA TypeOKInit == Init => TypeOK
<1> SUFFICES ASSUME Init PROVE TypeOK
  OBVIOUS
<1>1. breaks \in BreakTable
  <2>1. breaks \in [{} -> [Lines -> LineBreaks]]
    BY DEF Init, BdbInit
  <2>2. {} \in SUBSET Files
    OBVIOUS
  <2>3. QED
    BY <2>1, <2>2 DEF BreakTable
<1>2. pyTypes /\ stepTypes /\ exmode \in ExceptionModes
  BY DEF Init, BdbInit, pyTypes, stepTypes, ExceptionModes, MaybeFrame
<1>3. endTypes /\ sessionTypes
  BY RecordTypes DEF Init, endTypes, sessionTypes, Links
<1>4. QED
  BY <1>1, <1>2, <1>3 DEF TypeOK, BdbTypeOK

\* The trace events
LEMMA TypeOKTrace ==
    ASSUME TypeOK, TraceEvent
    PROVE  TypeOK'
<1> USE DEF TypeOK, BdbTypeOK
<1>1. ASSUME NEW t \in Threads, NEW f \in Frames, NEW g \in Files, Call(t, f, g)
      PROVE  TypeOK'
  <2>1. pyTypes' /\ breaks' = breaks /\ exmode' = exmode
    BY <1>1, StackTypes DEF Call
  <2>2. stepTypes'
    BY <1>1 DEF Call, stepTypes, stepVars
  <2>3. sessionTypes'
    BY <1>1 DEF Call, sessionTypes, linkVars
  <2>4. "call" \in EventTypes
    BY DEF EventTypes
  <2>5. UserStop("call", t, 0) => endTypes'
    BY <2>4, UserStopTypes
  <2>6. \A why \in Reasons : LetThrough("call", t, 0, why) => passed' \in Passes
    BY <2>4, LetThroughTypes
  <2>7. Job("entry", "call", t, 0, 0) \in Jobs
    BY <2>4, RecordTypes
  <2>8. endTypes'
    BY <1>1, <2>5, <2>6, <2>7, RecordTypes DEF Call, endTypes, Reasons
  <2>9. QED
    BY <2>1, <2>2, <2>3, <2>8
<1>2. ASSUME NEW t \in Threads, NEW l \in Lines, Line(t, l)
      PROVE  TypeOK'
  <2>1. BdbTypeOK' /\ sessionTypes'
    BY <1>2 DEF Line, pyTypes, stepTypes, pyVars, bdbVars, sessionTypes, linkVars
  <2>2. "line" \in EventTypes
    BY DEF EventTypes
  <2>3. UserStop("line", t, l) => endTypes'
    BY <2>2, UserStopTypes
  <2>4. BreakFrom(t, l, 1) => endTypes'
    BY BreakFromTypes
  <2>5. LetThrough("line", t, l, "ignored") => passed' \in Passes
    BY <2>2, LetThroughTypes DEF Reasons
  <2>6. endTypes'
    BY <1>2, <2>3, <2>4, <2>5 DEF Line, endTypes
  <2>7. QED
    BY <2>1, <2>6
<1>3. ASSUME NEW t \in Threads, NEW type \in {"caught", "uncaught"}, NEW text \in Texts,
             Exception(t, type, text)
      PROVE  TypeOK'
  <2>1. BdbTypeOK' /\ sessionTypes'
    BY <1>3 DEF Exception, pyTypes, stepTypes, pyVars, bdbVars, sessionTypes, linkVars
  <2>2. type \in EventTypes
    BY DEF EventTypes
  <2>3. StopAt(type, t) => job' \in Jobs /\ crashed' \in BOOLEAN
    BY <2>2, StopAtTypes
  <2>4. LetThrough(type, t, 0, "clear") => passed' \in Passes
    BY <2>2, LetThroughTypes DEF Reasons
  <2>5. Job("stopped", type, t, 0, 0) \in Jobs
    BY <2>2, RecordTypes
  <2>6. endTypes'
    BY <1>3, <2>3, <2>4, <2>5, RecordTypes DEF Exception, endTypes
  <2>7. QED
    BY <2>1, <2>6
<1>4. ASSUME NEW t \in Threads, Return(t)
      PROVE  TypeOK'
  <2>1. top[t] \in Frames /\ back \in [Frames -> MaybeFrame]
    BY <1>4 DEF Return, pyTypes, MaybeFrame
  <2>2. pyTypes' /\ breaks' = breaks /\ exmode' = exmode
    BY <1>4, StackTypes DEF Return, PopTop, pyTypes, pyVars
  <2>3. stepTypes'
    BY <1>4, <2>1, StepTypes DEF Return, Unignore, stepTypes, stepVars
  <2>4. sessionTypes'
    BY <1>4 DEF Return, PopTop, sessionTypes, linkVars
  <2>5. "return" \in EventTypes
    BY DEF EventTypes
  <2>6. StopAt("return", t) => job' \in Jobs /\ crashed' \in BOOLEAN
    BY <2>5, StopAtTypes
  <2>7. \A why \in Reasons : LetThrough("return", t, 0, why) => passed' \in Passes
    BY <2>5, LetThroughTypes
  <2>8. endTypes'
    BY <1>4, <2>6, <2>7, RecordTypes DEF Return, endTypes, Reasons
  <2>9. QED
    BY <2>2, <2>3, <2>4, <2>8
<1>5. QED
  BY <1>1, <1>2, <1>3, <1>4
     DEF TraceEvent, CallEvent, LineEvent, ExceptionEvent, ReturnEvent

\* New threads, events that are bypassed, and the end of a condition
LEMMA TypeOKPython ==
    ASSUME TypeOK, Spawn \/ BypassedEvent \/ EvalEnds
    PROVE  TypeOK'
<1> USE DEF TypeOK, BdbTypeOK
<1>0. \A type \in EventTypes, t \in Threads, l \in Lines :
         /\ LetThrough(type, t, l, "bypassed") => passed' \in Passes
         /\ LetThrough(type, t, 0, "bypassed") => passed' \in Passes
  BY LetThroughTypes DEF Reasons
<1>1. ASSUME NEW t \in Threads, NEW b \in Frames, NEW r \in Frames, NEW g \in Files,
             NEW h \in Files, ThreadStart(t, b, r, g, h)
      PROVE  TypeOK'
  <2>1. BdbTypeOK'
    BY <1>1, StackTypes DEF ThreadStart, stepTypes, bdbVars
  <2>2. QED
    BY <1>1, <2>1, RecordTypes DEF ThreadStart, endTypes, sessionTypes, linkVars
<1>2. ASSUME NEW t \in Threads, NEW f \in Frames, NEW g \in Files, BypassedCall(t, f, g)
      PROVE  TypeOK'
  <2>1. BdbTypeOK'
    BY <1>2, StackTypes DEF BypassedCall, stepTypes, bdbVars
  <2>2. passed' \in Passes
    BY <1>2, LetThroughTypes DEF BypassedCall, EventTypes, Reasons
  <2>3. QED
    BY <1>2, <2>1, <2>2 DEF BypassedCall, endTypes, sessionTypes, linkVars
<1>3. ASSUME NEW t \in Threads, NEW l \in Lines, BypassedLine(t, l)
      PROVE  TypeOK'
  <2>1. BdbTypeOK'
    BY <1>3 DEF BypassedLine, pyTypes, stepTypes, pyVars, bdbVars
  <2>2. passed' \in Passes
    BY <1>3, LetThroughTypes DEF BypassedLine, EventTypes, Reasons
  <2>3. QED
    BY <1>3, <2>1, <2>2 DEF BypassedLine, endTypes, sessionTypes, linkVars
<1>4. ASSUME NEW t \in Threads, BypassedReturn(t)
      PROVE  TypeOK'
  <2>1. BdbTypeOK'
    BY <1>4, StackTypes DEF BypassedReturn, PopTop, stepTypes, bdbVars
  <2>2. passed' \in Passes
    BY <1>4, LetThroughTypes DEF BypassedReturn, EventTypes, Reasons
  <2>3. QED
    BY <1>4, <2>1, <2>2 DEF BypassedReturn, PopTop, endTypes, sessionTypes, linkVars
<1>5. ASSUME NEW value \in {"true", "false", "error"}, EvalDone(value)
      PROVE  TypeOK'
  <2>1. BdbTypeOK' /\ sessionTypes'
    BY <1>5 DEF EvalDone, pyTypes, stepTypes, pyVars, bdbVars, sessionTypes, linkVars
  <2>2. job.thread \in Threads /\ job.line \in Lines \cup {0} /\ job.at + 1 \in Nat
    BY DEF endTypes, Jobs
  <2>3. "line" \in EventTypes
    BY DEF EventTypes
  <2>4. StopAt("line", job.thread) => job' \in Jobs /\ crashed' \in BOOLEAN
    BY <2>2, <2>3, StopAtTypes
  <2>5. BreakFrom(job.thread, job.line, job.at + 1) => endTypes'
    BY <2>2, BreakFromTypes
  <2>6. LetThrough("line", job.thread, job.line, "evalfailed") => passed' \in Passes
    BY <2>2, <2>3, LetThroughTypes DEF Reasons
  <2>7. endTypes'
    BY <1>5, <2>4, <2>5, <2>6, RecordTypes DEF EvalDone, endTypes
  <2>8. QED
    BY <2>1, <2>7
<1>6. QED
  BY <1>1, <1>2, <1>3, <1>4, <1>5 DEF Spawn, BypassedEvent, EvalEnds

\* The io thread's loops, and connections
LEMMA TypeOKIo ==
    ASSUME TypeOK, JobHasFrame, EntryReady \/ Resume \/ Connect \/ LoseClient \/ LogFails
    PROVE  TypeOK'
<1> USE DEF TypeOK, BdbTypeOK
<1>1. CASE EntryReady
  <2>1. BdbTypeOK' /\ sessionTypes'
    BY <1>1 DEF EntryReady, pyTypes, stepTypes, pyVars, bdbVars, sessionTypes
  <2>2. job.thread \in Threads /\ "call" \in EventTypes
    BY DEF endTypes, Jobs, EventTypes
  <2>3. QED
    BY <1>1, <2>1, <2>2, StopAtTypes, RecordTypes DEF EntryReady, endTypes
<1>2. CASE Resume
  <2>1. job.thread \in Threads
    BY DEF endTypes, Jobs
  <2>2. top[job.thread] \in Frames
    BY <1>2, <2>1 DEF Resume, JobHasFrame, pyTypes, MaybeFrame
  <2>3. pyTypes' /\ stepTypes'
    <3>1. CASE job.type = "return"
      <4>1. top[job.thread] # NoFrame
        BY <2>2, FrameAssumption
      <4>2. FinishReturn(top[job.thread]) /\ Pop(job.thread)
        BY <1>2, <3>1 DEF Resume, PopTop
      <4>3. back \in [Frames -> MaybeFrame]
        BY DEF pyTypes
      <4>4. QED
        BY <2>1, <2>2, <4>1, <4>2, <4>3, StackTypes, StepTypes
    <3>2. CASE job.type # "return"
      BY <1>2, <3>2 DEF Resume, pyTypes, stepTypes, pyVars, stepVars
    <3>3. QED
      BY <3>1, <3>2
  <2>4. sessionTypes'
    BY <1>2 DEF Resume, PopTop, sessionTypes, linkVars
  <2>5. QED
    BY <1>2, <2>3, <2>4, RecordTypes DEF Resume, endTypes
<1>3. CASE Connect
  BY <1>3, RecordTypes DEF Connect, pyTypes, stepTypes, pyVars, bdbVars,
     endTypes, sessionTypes, Links
<1>4. CASE LoseClient
  BY <1>4, RecordTypes DEF LoseClient, pyTypes, stepTypes, pyVars, bdbVars,
     endTypes, sessionTypes, Links
<1>5. CASE LogFails
  BY <1>5 DEF LogFails, pyTypes, stepTypes, pyVars, bdbVars,
     endTypes, sessionTypes, linkVars
<1>6. QED
  BY <1>1, <1>2, <1>3, <1>4, <1>5

\* The requests of the client
LEMMA TypeOKRequest ==
    ASSUME TypeOK, RequestStep
    PROVE  TypeOK'
<1> USE DEF TypeOK, BdbTypeOK
<1>1. RequestStep => Request
  BY DEF RequestStep, Pause, Continue, Next_, StepIn, StepOut, SetBreakpoints,
     SetExceptionBreakpoints, ConfigurationDone, Disconnect, BadPacket
<1>2. pyTypes' /\ crashed' \in BOOLEAN /\ unwatched' \subseteq Frames
  BY <1>1 DEF Request, pyTypes, pyVars, endTypes, sessionTypes
<1>3. passed' \in Passes
  BY <1>1, RecordTypes DEF Request, endTypes
<1>4. curframe \in MaybeFrame
  BY DEF curframe, endTypes, Jobs, pyTypes, MaybeFrame
<1>5. Release => job' \in Jobs
  BY DEF Release, endTypes, Jobs
<1>6. ASSUME Pause \/ Continue \/ Next_ \/ StepIn \/ StepOut PROVE TypeOK'
  <2>1. stepTypes'
    BY <1>4, <1>6, StepTypes DEF Pause, Continue, Next_, StepIn, StepOut
  <2>2. job' \in Jobs /\ UNCHANGED <<breaks, exmode, linkVars>>
    BY <1>5, <1>6 DEF Pause, Continue, Next_, StepIn, StepOut, endTypes
  <2>3. QED
    BY <1>2, <1>3, <2>1, <2>2 DEF endTypes, sessionTypes, linkVars
<1>7. ASSUME NEW g \in Files, NEW m \in [Lines -> LineBreaks], SetBreakpoints(g, m)
      PROVE  TypeOK'
  <2>1. breaks' \in BreakTable
    BY <1>7, ReplaceBreaksType DEF SetBreakpoints
  <2>2. QED
    BY <1>2, <1>3, <1>7, <2>1 DEF SetBreakpoints, endTypes, sessionTypes, linkVars,
       stepTypes, stepVars
<1>8. ASSUME NEW mode \in ExceptionModes, SetExceptionBreakpoints(mode) PROVE TypeOK'
  BY <1>2, <1>3, <1>8 DEF SetExceptionBreakpoints, endTypes, sessionTypes, linkVars,
     stepTypes, stepVars
<1>9. ASSUME ConfigurationDone \/ Disconnect \/ BadPacket PROVE TypeOK'
  BY <1>2, <1>3, <1>9 DEF ConfigurationDone, Disconnect, BadPacket, endTypes, sessionTypes,
     stepTypes, bdbVars, Links
<1>10. QED
  BY <1>6, <1>7, <1>8, <1>9 DEF RequestStep

-----------------------------------------------------------------------------
(* The actions in groups, by what they write *)

\* The steps that leave the stepping state and the breakpoints alone
Quiet ==
    \/ LineEvent \/ ExceptionEvent \/ Spawn \/ BypassedEvent \/ EvalEnds
    \/ EntryReady \/ Connect \/ LoseClient \/ LogFails \/ UNCHANGED vars

LEMMA NextCases ==
    [Next]_vars => Quiet \/ CallEvent \/ ReturnEvent \/ Resume \/ RequestStep
  BY DEF Next, Quiet, TraceEvent

LEMMA QuietLeavesBdb == Quiet => UNCHANGED bdbVars
  BY DEF Quiet, LineEvent, Line, ExceptionEvent, Exception, Spawn, ThreadStart, BypassedEvent,
     BypassedCall, BypassedLine, BypassedReturn, EvalEnds, EvalDone, EntryReady, Connect,
     LoseClient, LogFails, vars

LEMMA RequestFacts ==
    RequestStep => /\ link = "open" /\ link' \in {"open", "closed", "deaf"}
                   /\ Listening
                   /\ passed' = Nothing
                   /\ UNCHANGED <<top, back, file, live, crashed, unwatched>>
                   /\ job' = job \/ Release
  BY DEF RequestStep, Pause, Continue, Next_, StepIn, StepOut, SetBreakpoints,
     SetExceptionBreakpoints, ConfigurationDone, Disconnect, BadPacket, Request, linkVars,
     pyVars

\* What a request leaves in the stepping state
LEMMA RequestWrites ==
    RequestStep => \/ UNCHANGED <<ignored, step, stopframe, returnframe>>
                   \/ ignored' = {} /\ step' = TRUE
                   \/ ignored' = ignored /\ step' = FALSE
  BY DEF RequestStep, Pause, Continue, Next_, StepIn, StepOut, SetBreakpoints,
     SetExceptionBreakpoints, ConfigurationDone, Disconnect, BadPacket, set_step, set_next,
     set_return, set_continue, stepVars, bdbVars

-----------------------------------------------------------------------------
(* The event in hand has a frame *)

LEMMA JobHasFrameStep ==
    ASSUME TypeOK, JobHasFrame, [Next]_vars
    PROVE  JobHasFrame'
<1>0. job.thread \in Threads /\ top \in [Threads -> MaybeFrame]
  BY DEF TypeOK, BdbTypeOK, pyTypes, endTypes, Jobs
<1> USE DEF JobHasFrame
<1>1. ASSUME NEW t \in Threads, NEW f \in Frames, NEW g \in Files, Call(t, f, g)
      PROVE  JobHasFrame'
  BY <1>0, <1>1, FrameAssumption DEF Call, Push, Idle, UserStop, StopAt, Job, NoJob
<1>2. ASSUME NEW t \in Threads, Return(t)
      PROVE  JobHasFrame'
  BY <1>0, <1>2 DEF Return, PopTop, Idle, StopAt, Job, pyVars, stepVars
<1>3. ASSUME NEW t \in Threads, NEW l \in Lines, Line(t, l)
      PROVE  JobHasFrame'
  BY <1>3 DEF Line, BreakFrom, UserStop, StopAt, Job, NoJob, Idle, pyVars, bdbVars
<1>4. ASSUME NEW t \in Threads, NEW type \in {"caught", "uncaught"}, NEW text \in Texts,
             Exception(t, type, text)
      PROVE  JobHasFrame'
  BY <1>4 DEF Exception, StopAt, Job, Idle, pyVars, bdbVars
<1>5. ASSUME NEW t \in Threads, NEW b \in Frames, NEW r \in Frames, NEW g \in Files,
             NEW h \in Files, ThreadStart(t, b, r, g, h)
      PROVE  JobHasFrame'
  BY <1>0, <1>5, FrameAssumption DEF ThreadStart, PushThread, bdbVars, Idle
<1>6. ASSUME NEW t \in Threads,
             \/ \E f \in Frames, g \in Files : BypassedCall(t, f, g)
             \/ \E l \in Lines : BypassedLine(t, l)
             \/ BypassedReturn(t)
      PROVE  JobHasFrame'
  BY <1>0, <1>6 DEF BypassedCall, BypassedLine, BypassedReturn, Bypassing, Push, Pop, PopTop,
     pyVars, bdbVars
<1>7. ASSUME NEW value \in {"true", "false", "error"}, EvalDone(value)
      PROVE  JobHasFrame'
  BY <1>7 DEF EvalDone, BreakFrom, UserStop, StopAt, Job, NoJob, pyVars, bdbVars
<1>8. ASSUME RequestStep PROVE JobHasFrame'
  <2>1. ignored' \subseteq ignored
    BY <1>8, RequestWrites
  <2>2. UNCHANGED <<top, back, file, live>> /\ (job' = job \/ Release)
    BY <1>8, RequestFacts
  <2>3. job'.thread = job.thread /\ job'.type = job.type
    BY <2>2 DEF Release, TypeOK, endTypes, Jobs
  <2>4. job'.phase # job.phase => job.phase = "stopped" /\ job'.phase = "resumed"
    BY <2>2 DEF Release, IsStopped, TypeOK, endTypes, Jobs
  <2>5. QED
    BY <2>1, <2>2, <2>3, <2>4
<1>9. ASSUME EntryReady \/ Resume \/ Connect \/ LoseClient \/ LogFails \/ UNCHANGED vars
      PROVE  JobHasFrame'
  BY <1>9 DEF EntryReady, Resume, Connect, LoseClient, LogFails, StopAt, Job, NoJob,
     pyVars, bdbVars, vars
<1>10. QED
  BY <1>1, <1>2, <1>3, <1>4, <1>5, <1>6, <1>7, <1>8, <1>9
     DEF Next, TraceEvent, CallEvent, ReturnEvent, LineEvent, ExceptionEvent, Spawn,
         BypassedEvent, EvalEnds

LEMMA TypeOKStep ==
    ASSUME TypeOK, JobHasFrame, [Next]_vars
    PROVE  TypeOK'
<1>1. CASE UNCHANGED vars
  BY <1>1 DEF TypeOK, BdbTypeOK, pyTypes, stepTypes, endTypes, sessionTypes, vars, pyVars,
     bdbVars, linkVars
<1>2. QED
  BY <1>1, TypeOKTrace, TypeOKPython, TypeOKIo, TypeOKRequest DEF Next

\* Every variable keeps its type, and the event in hand has a frame that is not
\* ignored when it is a RETURN that stopped (dispatch_return, interaction).
THEOREM JobsHaveFrames == Spec => [](TypeOK /\ JobHasFrame)
<1>1. Init => TypeOK /\ JobHasFrame
  BY TypeOKInit DEF Init, NoJob, JobHasFrame
<1>2. TypeOK /\ JobHasFrame /\ [Next]_vars => (TypeOK /\ JobHasFrame)'
  BY TypeOKStep, JobHasFrameStep
<1>3. QED
  BY <1>1, <1>2, PTL DEF Spec

\* Type correctness of bdb and debugger.
THEOREM TypeCorrect == Spec => []TypeOK
  BY JobsHaveFrames, PTL

-----------------------------------------------------------------------------
(* Stepping in leaves no frame ignored *)

LEMMA StepIgnoresNothingStep ==
    ASSUME StepIgnoresNothing, [Next]_vars
    PROVE  StepIgnoresNothing'
<1> USE DEF StepIgnoresNothing
<1>1. CASE Quiet
  BY <1>1, QuietLeavesBdb DEF bdbVars
<1>2. CASE CallEvent
  BY <1>2 DEF CallEvent, Call, stop_here, stepVars
<1>3. CASE ReturnEvent
  BY <1>3 DEF ReturnEvent, Return, FinishReturn, Unignore, stepVars
<1>4. CASE Resume
  BY <1>4 DEF Resume, FinishReturn, stepVars
<1>5. CASE RequestStep
  BY <1>5, RequestWrites
<1>6. QED
  BY <1>1, <1>2, <1>3, <1>4, <1>5, NextCases

\* While _step is on no frame is ignored: set_step and pause clear the set, and
\* dispatch_call, the only code that fills it, does so only when stop_here() is
\* false.
THEOREM StepInIgnoresNothing == Spec => []StepIgnoresNothing
<1>1. Init => StepIgnoresNothing
  BY DEF Init, BdbInit, StepIgnoresNothing
<1>2. StepIgnoresNothing /\ [Next]_vars => StepIgnoresNothing'
  BY StepIgnoresNothingStep
<1>3. QED
  BY <1>1, <1>2, PTL DEF Spec

-----------------------------------------------------------------------------
(* What can stop an event was set by a client *)

\* Once a client was accepted, _session is never empty again.
LEMMA LinkStays == [Next]_vars /\ link # "none" => link' # "none"
<1>1. Quiet /\ link # "none" => link' # "none"
  BY DEF Quiet, LineEvent, Line, ExceptionEvent, Exception, Spawn, ThreadStart, BypassedEvent,
     BypassedCall, BypassedLine, BypassedReturn, EvalEnds, EvalDone, EntryReady, Connect,
     LoseClient, LogFails, vars, linkVars
<1>2. RequestStep => link' # "none"
  BY RequestFacts
<1>3. CallEvent \/ ReturnEvent \/ Resume => link' = link
  BY DEF CallEvent, Call, ReturnEvent, Return, Resume, linkVars
<1>4. QED
  BY <1>1, <1>2, <1>3, NextCases

LEMMA ArmedStep ==
    ASSUME ArmedHasSession, JobHasFrame, [Next]_vars
    PROVE  ArmedHasSession'
<1> SUFFICES ASSUME link' = "none" PROVE ~Armed'
  BY DEF ArmedHasSession
<1>0. link = "none"
  BY LinkStays
<1>1. ~step /\ stopframe = NoFrame /\ returnframe = NoFrame /\ exmode = NEVER_STOP
        /\ DOMAIN breaks = {}
  BY <1>0 DEF ArmedHasSession, Armed
<1>2. CASE Quiet
  BY <1>1, <1>2, QuietLeavesBdb DEF Armed, bdbVars
<1>3. CASE CallEvent
  BY <1>1, <1>3 DEF CallEvent, Call, stepVars, Armed
<1>4. CASE ReturnEvent
  BY <1>1, <1>4 DEF ReturnEvent, Return, FinishReturn, Unignore, stepVars, Armed
<1>5. CASE Resume
  BY <1>1, <1>5 DEF Resume, JobHasFrame, FinishReturn, stepVars, Armed
<1>6. CASE RequestStep
  BY <1>6, RequestFacts
<1>7. QED
  BY <1>2, <1>3, <1>4, <1>5, <1>6, NextCases

LEMMA StopNeedsSession ==
    ASSUME ArmedHasSession, NEW f \in Frames, NEW caught \in BOOLEAN,
           exception_stops(f, caught) \/ return_stops(f)
    PROVE  link # "none"
  BY FrameAssumption DEF ArmedHasSession, Armed, exception_stops, return_stops, stop_here,
     Has, NEVER_STOP

LEMMA StoppedStep ==
    ASSUME TypeOK, StoppedHasSession, ArmedHasSession, [Next]_vars
    PROVE  StoppedHasSession'
<1>0. \A t \in Threads : top[t] # NoFrame => top[t] \in Frames
  BY DEF TypeOK, BdbTypeOK, pyTypes, MaybeFrame
<1> USE DEF StoppedHasSession, IsStopped
<1>1. ASSUME NEW t \in Threads, NEW type \in {"caught", "uncaught"}, NEW text \in Texts,
             Exception(t, type, text)
      PROVE  StoppedHasSession'
  <2>1. exception_stops(top[t], type = "caught") => link # "none"
    BY <1>0, <1>1, StopNeedsSession DEF Exception
  <2>2. QED
    BY <1>1, <2>1 DEF Exception, linkVars
<1>2. CASE CallEvent
  BY <1>2 DEF CallEvent, Call, UserStop, StopAt, Job, NoJob, linkVars, Idle
<1>3. CASE ReturnEvent
  BY <1>3 DEF ReturnEvent, Return, StopAt, linkVars
<1>4. CASE LineEvent \/ EvalEnds
  BY <1>4 DEF LineEvent, Line, EvalEnds, EvalDone, BreakFrom, UserStop, StopAt, Job, NoJob,
     linkVars
<1>5. CASE RequestStep
  BY <1>5, RequestFacts
<1>6. CASE Spawn \/ BypassedEvent \/ LogFails \/ UNCHANGED vars
  BY <1>6 DEF Spawn, ThreadStart, BypassedEvent, BypassedCall, BypassedLine, BypassedReturn,
     LogFails, linkVars, vars
<1>7. CASE EntryReady \/ Resume \/ Connect \/ LoseClient
  BY <1>7 DEF EntryReady, Resume, Connect, LoseClient, NoJob
<1>8. QED
  BY <1>1, <1>2, <1>3, <1>4, <1>5, <1>6, <1>7 DEF Next, TraceEvent, ExceptionEvent

\* The invariant of this section
SessionInv == TypeOK /\ JobHasFrame /\ ArmedHasSession /\ StoppedHasSession

LEMMA SessionInvHolds == Spec => []SessionInv
<1>1. Init => SessionInv
  BY TypeOKInit DEF Init, BdbInit, NoJob, SessionInv, JobHasFrame, ArmedHasSession, Armed,
     StoppedHasSession, IsStopped
<1>2. SessionInv /\ [Next]_vars => SessionInv'
  BY TypeOKStep, JobHasFrameStep, ArmedStep, StoppedStep DEF SessionInv
<1>3. QED
  BY <1>1, <1>2, PTL DEF Spec

\* No thread is stopped, and nothing is sent, before a first client connected,
\* although user_exception and interaction do not look at _session.
THEOREM StopsOnlyForClients == Spec => []StoppedHasSession
<1>1. SessionInv => StoppedHasSession
  BY DEF SessionInv
<1>2. QED
  BY <1>1, SessionInvHolds, PTL

\* An exception leaves the debugger only after a client was accepted: the checks
\* of user_call, user_line and user_return, and in user_exception the fact that
\* nothing can stop before a client armed it, see to that.  A stop that sends no
\* text of the scripts throws only when the socket is gone.
THEOREM ThrowsHaveACause == Spec => NoCrashWithoutCause
<1> DEFINE Gone == link \in {"lost", "closed"}
           Caused == link # "none" /\ (Gone \/ SendsText)
<1>1. ASSUME SessionInv, [Next]_vars
      PROVE  ~crashed /\ crashed' => Caused
  <2> SUFFICES ASSUME ~crashed, crashed' PROVE Caused
    OBVIOUS
  <2>0. \A t \in Threads : top[t] # NoFrame => top[t] \in Frames
    BY <1>1 DEF SessionInv, TypeOK, BdbTypeOK, pyTypes, MaybeFrame
  <2>1. ASSUME NEW t \in Threads, NEW type \in {"caught", "uncaught"}, NEW text \in Texts,
               Exception(t, type, text)
        PROVE  Caused
    <3>1. exception_stops(top[t], type = "caught")
      BY <2>1 DEF Exception
    <3>2. link # "none"
      BY <1>1, <2>0, <2>1, <3>1, StopNeedsSession DEF Exception, SessionInv
    <3>3. Gone \/ text = "bytes"
      BY <2>1, <3>1, <3>2 DEF Exception, StopAt
    <3>4. text = "bytes" => SendsText
      BY <2>1 DEF SendsText
    <3>5. QED
      BY <3>2, <3>3, <3>4
  <2>2. CASE LogFails
    BY <2>2 DEF LogFails, SendsText
  <2>3. ASSUME Gone PROVE Caused
    BY <2>3
  <2>4. CASE CallEvent
    BY <2>3, <2>4 DEF CallEvent, Call, UserStop, StopAt
  <2>5. CASE ReturnEvent
    BY <2>3, <2>5 DEF ReturnEvent, Return, StopAt
  <2>6. CASE LineEvent \/ EvalEnds
    BY <2>3, <2>6 DEF LineEvent, Line, EvalEnds, EvalDone, BreakFrom, UserStop, StopAt
  <2>7. CASE RequestStep
    BY <2>7, RequestFacts
  <2>8. CASE Spawn \/ BypassedEvent \/ UNCHANGED vars
    BY <2>8 DEF Spawn, ThreadStart, BypassedEvent, BypassedCall, BypassedLine,
       BypassedReturn, vars
  <2>9. CASE EntryReady \/ Resume \/ Connect \/ LoseClient
    BY <2>3, <2>9 DEF EntryReady, StopAt, Resume, Connect, LoseClient
  <2>10. QED
    BY <1>1, <2>1, <2>2, <2>4, <2>5, <2>6, <2>7, <2>8, <2>9
       DEF Next, TraceEvent, ExceptionEvent
<1>2. SessionInv /\ [Next]_vars => [~crashed /\ crashed' => Caused]_vars
  BY <1>1
<1>3. QED
  BY <1>2, SessionInvHolds, PTL DEF Spec, NoCrashWithoutCause

-----------------------------------------------------------------------------
(* What a client asked for is not lost *)

\* While a condition is evaluated nobody steps in: evaluation begins at an event
\* for which stop_here() was false, and requests are not served during it.
EvalNotStepping == job.phase = "eval" => ~step

\* The invariant of this section
StepInv == SessionInv /\ StepIgnoresNothing /\ EvalNotStepping

LEMMA EvalNotSteppingStep ==
    ASSUME TypeOK, EvalNotStepping, [Next]_vars
    PROVE  EvalNotStepping'
<1> USE DEF EvalNotStepping
<1>1. CASE CallEvent
  BY <1>1 DEF CallEvent, Call, UserStop, StopAt, Job, NoJob, Idle
<1>2. CASE LineEvent
  BY <1>2 DEF LineEvent, Line, BreakFrom, UserStop, StopAt, Job, NoJob, Idle, stop_here, bdbVars
<1>3. CASE ExceptionEvent \/ ReturnEvent
  BY <1>3 DEF ExceptionEvent, Exception, ReturnEvent, Return, StopAt, Job, Idle
<1>4. CASE EvalEnds
  BY <1>4 DEF EvalEnds, EvalDone, BreakFrom, UserStop, StopAt, Job, NoJob, bdbVars
<1>5. CASE Spawn \/ BypassedEvent \/ LogFails \/ UNCHANGED vars
  BY <1>5 DEF Spawn, ThreadStart, BypassedEvent, BypassedCall, BypassedLine, BypassedReturn,
     LogFails, bdbVars, vars
<1>6. CASE EntryReady \/ Resume \/ Connect \/ LoseClient
  BY <1>6 DEF EntryReady, StopAt, Job, Resume, NoJob, Connect, LoseClient, bdbVars
<1>7. CASE RequestStep
  <2>1. job' = job \/ Release
    BY <1>7, RequestFacts
  <2>2. job.phase # "eval"
    BY <1>7, RequestFacts DEF Listening
  <2>3. job'.phase # "eval"
    BY <2>1, <2>2 DEF Release, TypeOK, endTypes, Jobs
  <2>4. QED
    BY <2>3
<1>8. QED
  BY <1>1, <1>2, <1>3, <1>4, <1>5, <1>6, <1>7 DEF Next, TraceEvent

LEMMA StepInvHolds == Spec => []StepInv
<1>1. Init => EvalNotStepping
  BY DEF Init, NoJob, EvalNotStepping
<1>2. TypeOK /\ EvalNotStepping /\ [Next]_vars => EvalNotStepping'
  BY EvalNotSteppingStep
<1>3. Spec => []EvalNotStepping
  BY <1>1, <1>2, TypeCorrect, PTL DEF Spec
<1>4. SessionInv /\ StepIgnoresNothing /\ EvalNotStepping => StepInv
  BY DEF StepInv
<1>5. QED
  BY <1>3, <1>4, SessionInvHolds, StepInIgnoresNothing, PTL

\* While _step is on, the return of a live frame stops and changes no frame.
LEMMA SteppingReturnStops ==
    ASSUME SessionInv, StepIgnoresNothing, step, ReturnEvent
    PROVE  UNCHANGED pyVars /\ UNCHANGED stepVars /\ passed' = Nothing
<1>1. link # "none"
  BY DEF SessionInv, ArmedHasSession, Armed
<1>2. ignored = {}
  BY DEF StepIgnoresNothing
<1>3. QED
  BY <1>1, <1>2 DEF ReturnEvent, Return, return_stops, stop_here

\* While _step is on every event but the entry of a top-level call stops.
THEOREM SteppingStopsEverything == Spec => []StepNeverPasses
<1>1. Init => StepNeverPasses
  BY DEF Init, StepNeverPasses
<1>2. ASSUME StepInv, StepNeverPasses, [Next]_vars, step'
      PROVE  passed' = Nothing \/ passed'.why = "entry"
  <2>0. step => link # "none" /\ ignored = {} /\ job.phase # "eval"
    BY <1>2 DEF StepInv, SessionInv, ArmedHasSession, Armed, StepIgnoresNothing,
       EvalNotStepping
  <2>1. CASE CallEvent
    <3>1. PICK t \in Threads, f \in Frames, g \in Files : Call(t, f, g)
      BY <2>1 DEF CallEvent
    <3>2. step' = step
      BY <3>1 DEF Call, stepVars
    <3>3. step /\ stop_here(f) /\ link # "none"
      BY <1>2, <2>0, <3>2 DEF stop_here
    <3>4. CASE top[t] = NoFrame
      BY <3>1, <3>4 DEF Call, LetThrough
    <3>5. CASE top[t] # NoFrame
      BY <3>1, <3>3, <3>5 DEF Call, UserStop
    <3>6. QED
      BY <3>4, <3>5
  <2>2. CASE LineEvent
    BY <1>2, <2>0, <2>2 DEF LineEvent, Line, UserStop, stop_here, bdbVars
  <2>3. CASE ExceptionEvent
    BY <1>2, <2>0, <2>3 DEF ExceptionEvent, Exception, exception_stops, stop_here, bdbVars
  <2>4. CASE ReturnEvent
    <3>1. CASE step
      BY <1>2, <2>4, <3>1, SteppingReturnStops DEF StepInv
    <3>2. CASE ~step
      BY <1>2, <2>4, <3>2 DEF ReturnEvent, Return, FinishReturn, stepVars
    <3>3. QED
      BY <3>1, <3>2
  <2>5. CASE BypassedEvent \/ EvalEnds
    <3>1. step
      BY <1>2, <2>5, QuietLeavesBdb DEF Quiet, bdbVars
    <3>2. QED
      BY <2>0, <2>5, <3>1 DEF BypassedEvent, BypassedCall, BypassedLine, BypassedReturn,
         Bypassing, EvalEnds, EvalDone
  <2>6. CASE LogFails \/ UNCHANGED vars
    BY <1>2, <2>6 DEF LogFails, StepNeverPasses, bdbVars, vars
  <2>7. CASE Spawn \/ EntryReady \/ Resume \/ Connect \/ LoseClient
    BY <2>7 DEF Spawn, ThreadStart, EntryReady, Resume, Connect, LoseClient
  <2>8. CASE RequestStep
    BY <2>8, RequestFacts
  <2>9. QED
    BY <1>2, <2>1, <2>2, <2>3, <2>4, <2>5, <2>6, <2>7, <2>8 DEF Next, TraceEvent
<1>3. StepInv /\ StepNeverPasses /\ [Next]_vars => StepNeverPasses'
  BY <1>2 DEF StepNeverPasses, Nothing
<1>4. QED
  BY <1>1, <1>3, StepInvHolds, PTL DEF Spec

\* The frame the user asked to step out of stops when it returns, unless it is
\* an ignored frame (dispatch_return, set_return).
THEOREM StepOutStops == Spec => StepOutHonoured
<1>1. ASSUME StepInv, [Next]_vars, Idle, returnframe \in live \ live'
      PROVE  returnframe \in ignored
  <2>0. live \subseteq Frames
    BY <1>1 DEF StepInv, SessionInv, TypeOK, BdbTypeOK, pyTypes
  <2>1. link # "none"
    BY <1>1, <2>0, FrameAssumption DEF StepInv, SessionInv, ArmedHasSession, Armed
  <2>2. CASE ReturnEvent
    <3>1. PICK t \in Threads : Return(t)
      BY <2>2 DEF ReturnEvent
    <3>2. live' # live
      BY <1>1
    <3>3. live' = live \ {top[t]} /\ (top[t] \in ignored \/ ~return_stops(top[t]))
      BY <2>1, <3>1, <3>2 DEF Return, PopTop, Pop, pyVars
    <3>4. returnframe = top[t]
      BY <1>1, <3>3
    <3>5. QED
      BY <3>3, <3>4 DEF return_stops
  <2>3. CASE CallEvent
    BY <1>1, <2>3 DEF CallEvent, Call, Push
  <2>4. CASE Resume
    BY <1>1, <2>4 DEF Resume, Idle
  <2>5. CASE RequestStep
    BY <1>1, <2>5, RequestFacts
  <2>6. CASE Quiet
    BY <1>1, <2>6 DEF Quiet, LineEvent, Line, ExceptionEvent, Exception, Spawn, ThreadStart,
       PushThread, BypassedEvent, BypassedCall, BypassedLine, BypassedReturn, Bypassing, Push,
       Idle, EvalEnds, EvalDone, EntryReady, Connect, LoseClient, LogFails, vars, pyVars
  <2>7. QED
    BY <1>1, <2>2, <2>3, <2>4, <2>5, <2>6, NextCases
<1>2. StepInv /\ [Next]_vars
         => [(Idle /\ returnframe \in live \ live') => returnframe \in ignored]_vars
  BY <1>1
<1>3. QED
  BY <1>2, StepInvHolds, PTL DEF Spec, StepOutHonoured

-----------------------------------------------------------------------------
(* The stacks *)

LEMMA PushKeepsLinks ==
    ASSUME pyTypes, FramesWellLinked, NEW t \in Threads, NEW f \in Frames, NEW g \in Files,
           Push(t, f, g)
    PROVE  FramesWellLinked'
  BY FrameAssumption DEF FramesWellLinked, pyTypes, Push, MaybeFrame

LEMMA PopKeepsLinks ==
    ASSUME pyTypes, FramesWellLinked, NEW t \in Threads, top[t] # NoFrame, Pop(t)
    PROVE  FramesWellLinked'
  BY FrameAssumption DEF FramesWellLinked, pyTypes, Pop, MaybeFrame

LEMMA PushThreadKeepsLinks ==
    ASSUME pyTypes, FramesWellLinked, NEW t \in Threads, top[t] = NoFrame,
           NEW b \in Frames, NEW r \in Frames, NEW g \in Files, NEW h \in Files,
           PushThread(t, b, r, g, h)
    PROVE  FramesWellLinked'
  BY FrameAssumption DEF FramesWellLinked, pyTypes, PushThread, MaybeFrame

LEMMA LinksStep ==
    ASSUME TypeOK, JobHasFrame, FramesWellLinked, [Next]_vars
    PROVE  FramesWellLinked'
<1>0. pyTypes /\ job.thread \in Threads
  BY DEF TypeOK, BdbTypeOK, endTypes, Jobs
<1>1. CASE UNCHANGED pyVars
  BY <1>1 DEF FramesWellLinked, pyVars
<1>2. CASE \E t \in Threads, f \in Frames, g \in Files : Push(t, f, g)
  BY <1>0, <1>2, PushKeepsLinks
<1>3. CASE \E t \in Threads : top[t] # NoFrame /\ Pop(t)
  BY <1>0, <1>3, PopKeepsLinks
<1>4. CASE Spawn
  BY <1>0, <1>4, PushThreadKeepsLinks DEF Spawn, ThreadStart
<1>5. CASE CallEvent
  BY <1>2, <1>5 DEF CallEvent, Call
<1>6. CASE ReturnEvent
  BY <1>1, <1>3, <1>6 DEF ReturnEvent, Return, PopTop
<1>7. CASE BypassedEvent
  BY <1>1, <1>2, <1>3, <1>7 DEF BypassedEvent, BypassedCall, BypassedLine, BypassedReturn, PopTop
<1>8. CASE Resume
  BY <1>0, <1>1, <1>3, <1>8 DEF Resume, PopTop, JobHasFrame
<1>9. CASE RequestStep
  BY <1>1, <1>9, RequestFacts DEF pyVars
<1>10. CASE LineEvent \/ ExceptionEvent \/ EvalEnds \/ EntryReady \/ Connect \/ LoseClient
              \/ LogFails \/ UNCHANGED vars
  BY <1>1, <1>10 DEF LineEvent, Line, ExceptionEvent, Exception, EvalEnds, EvalDone,
     EntryReady, Connect, LoseClient, LogFails, vars
<1>11. QED
  BY <1>4, <1>5, <1>6, <1>7, <1>8, <1>9, <1>10 DEF Next, TraceEvent

LEMMA LinksHold == Spec => []FramesWellLinked
<1>1. Init => FramesWellLinked
  BY DEF Init, BdbInit, FramesWellLinked
<1>2. TypeOK /\ JobHasFrame /\ FramesWellLinked /\ [Next]_vars => FramesWellLinked'
  BY LinksStep
<1>3. QED
  BY <1>1, <1>2, JobsHaveFrames, PTL DEF Spec

-----------------------------------------------------------------------------
(* The step-over target *)

\* A frame that leaves the stack of the thread that holds the GIL takes the
\* step-over target along: to its caller, or away when it has none.
LEMMA FinishMovesTarget ==
    ASSUME pyTypes, FramesWellLinked, NEW t \in Threads, top[t] # NoFrame,
           FinishReturn(top[t]), stopframe = top[t]
    PROVE  stopframe' # stopframe
  BY DEF FinishReturn, FramesWellLinked

\* When the frame of a step-over returns, the target moves on: it is left behind
\* only for an ignored frame, or while a condition is evaluated (dispatch_return).
THEOREM StepOverIsFollowed == Spec => StepOverFollowed
<1>1. ASSUME TypeOK, JobHasFrame, FramesWellLinked, [Next]_vars,
             stopframe \in live \ live', stopframe' = stopframe
      PROVE  stopframe \in ignored \/ job.phase = "eval"
  <2>0. pyTypes /\ job.thread \in Threads
    BY <1>1 DEF TypeOK, BdbTypeOK, endTypes, Jobs
  <2>1. live' # live
    BY <1>1
  <2>2. CASE ReturnEvent
    <3>1. PICK t \in Threads : Return(t)
      BY <2>2 DEF ReturnEvent
    <3>2. top[t] # NoFrame /\ live' = live \ {top[t]}
              /\ (top[t] \in ignored \/ FinishReturn(top[t]))
      BY <2>1, <3>1 DEF Return, PopTop, Pop, pyVars
    <3>3. stopframe = top[t]
      BY <1>1, <3>2
    <3>4. QED
      BY <1>1, <2>0, <3>2, <3>3, FinishMovesTarget
  <2>3. CASE Resume
    <3>1. /\ job.type = "return" /\ job.phase = "resumed"
          /\ FinishReturn(top[job.thread]) /\ live' = live \ {top[job.thread]}
      BY <2>1, <2>3 DEF Resume, PopTop, Pop, pyVars
    <3>2. stopframe = top[job.thread] /\ top[job.thread] # NoFrame
      BY <1>1, <3>1 DEF JobHasFrame
    <3>3. QED
      BY <1>1, <2>0, <3>1, <3>2, FinishMovesTarget
  <2>4. CASE BypassedEvent
    BY <2>4 DEF BypassedEvent, BypassedCall, BypassedLine, BypassedReturn, Bypassing
  <2>5. CASE CallEvent \/ Spawn
    BY <1>1, <2>5 DEF CallEvent, Call, Push, Spawn, ThreadStart, PushThread
  <2>6. CASE RequestStep
    BY <2>1, <2>6, RequestFacts
  <2>7. CASE LineEvent \/ ExceptionEvent \/ EvalEnds \/ EntryReady \/ Connect \/ LoseClient
              \/ LogFails \/ UNCHANGED vars
    BY <2>1, <2>7 DEF LineEvent, Line, ExceptionEvent, Exception, EvalEnds, EvalDone,
       EntryReady, Connect, LoseClient, LogFails, vars, pyVars
  <2>8. QED
    BY <1>1, <2>2, <2>3, <2>4, <2>5, <2>6, <2>7 DEF Next, TraceEvent
<1>2. TypeOK /\ JobHasFrame /\ FramesWellLinked /\ [Next]_vars
         => [(stopframe \in live \ live' /\ stopframe' = stopframe)
                => stopframe \in ignored \/ job.phase = "eval"]_vars
  BY <1>1
<1>3. QED
  BY <1>2, LinksHold, JobsHaveFrames, PTL DEF Spec, StepOverFollowed

-----------------------------------------------------------------------------
(* Ignored frames.  An event that is bypassed during the evaluation of a     *)
(* condition leaves a stale address behind, so the theorem is about programs *)
(* with one Python thread, and about breakpoints without conditions.         *)

NothingBypassed ==
    Threads = {Main} \/ \A bs \in LineBreaks : \A i \in 1 .. Len(bs) : bs[i] # "cond"

\* A condition is evaluated only where there is one.
EvalAlone == job.phase = "eval" => Threads = {Main}

LEMMA BreaksAtType ==
    ASSUME breaks \in BreakTable, NEW f, NEW l \in Lines
    PROVE  BreaksAt(f, l) \in LineBreaks \cup {<< >>}
  BY DEF BreakTable, BreaksAt

LEMMA EvalAloneStep ==
    ASSUME NothingBypassed, TypeOK, EvalAlone, [Next]_vars
    PROVE  EvalAlone'
<1> USE DEF EvalAlone
<1>1. CASE LineEvent
  <2>1. PICK t \in Threads, l \in Lines : Line(t, l)
    BY <1>1 DEF LineEvent
  <2>2. BreaksAt(top[t], l) \in LineBreaks \cup {<< >>}
    BY BreaksAtType DEF TypeOK, BdbTypeOK
  <2>3. job'.phase = "eval"
          => 1 <= Len(BreaksAt(top[t], l)) /\ BreaksAt(top[t], l)[1] = "cond"
    BY <2>1 DEF Line, BreakFrom, UserStop, StopAt, Job, NoJob, Idle
  <2>4. BreaksAt(top[t], l) \in Seq({"plain", "cond"})
    BY <2>2, BreakAssumption
  <2>5. ASSUME job'.phase = "eval" PROVE BreaksAt(top[t], l) \in LineBreaks
    <3>1. Len(BreaksAt(top[t], l)) # 0
      BY <2>3, <2>4, <2>5
    <3>2. BreaksAt(top[t], l) # << >>
      BY <3>1
    <3>3. QED
      BY <2>2, <3>2
  <2>6. ASSUME job'.phase = "eval" PROVE 1 \in 1 .. Len(BreaksAt(top[t], l))
    BY <2>3, <2>4, <2>6
  <2>7. QED
    BY <2>3, <2>5, <2>6 DEF NothingBypassed
<1>2. CASE EvalEnds
  <2>1. PICK value \in {"true", "false", "error"} : EvalDone(value)
    BY <1>2 DEF EvalEnds
  <2>2. QED
    BY <2>1 DEF EvalDone
<1>3. CASE CallEvent \/ ExceptionEvent \/ ReturnEvent
  BY <1>3 DEF CallEvent, Call, ExceptionEvent, Exception, ReturnEvent, Return, UserStop,
     StopAt, Job, NoJob, Idle
<1>4. CASE Spawn \/ BypassedEvent \/ EntryReady \/ Resume \/ Connect \/ LoseClient
              \/ LogFails \/ UNCHANGED vars
  BY <1>4 DEF Spawn, ThreadStart, BypassedEvent, BypassedCall, BypassedLine, BypassedReturn,
     EntryReady, StopAt, Job, Resume, NoJob, Connect, LoseClient, LogFails, vars
<1>5. CASE RequestStep
  <2>1. job' = job \/ Release
    BY <1>5, RequestFacts
  <2>2. job.phase # "eval"
    BY <1>5, RequestFacts DEF Listening
  <2>3. job'.phase # "eval"
    BY <2>1, <2>2 DEF Release, TypeOK, endTypes, Jobs
  <2>4. QED
    BY <2>3
<1>6. QED
  BY <1>1, <1>2, <1>3, <1>4, <1>5 DEF Next, TraceEvent

LEMMA IgnoredStep ==
    ASSUME TypeOK, JobHasFrame, EvalAlone, IgnoredUnwatched, [Next]_vars
    PROVE  IgnoredUnwatched'
<1> USE DEF IgnoredUnwatched
<1>1. CASE CallEvent
  BY <1>1 DEF CallEvent, Call, break_anywhere, stepVars
<1>2. CASE ReturnEvent
  BY <1>2 DEF ReturnEvent, Return, PopTop, FinishReturn, Unignore, stepVars
<1>3. CASE Resume
  BY <1>3 DEF Resume, JobHasFrame, PopTop, FinishReturn, stepVars
<1>4. CASE BypassedEvent
  <2>1. PICK t \in Threads : Bypassing(t)
    BY <1>4 DEF BypassedEvent, BypassedCall, BypassedLine, BypassedReturn
  <2>2. job.thread \in Threads
    BY DEF TypeOK, endTypes, Jobs
  <2>3. QED
    BY <2>1, <2>2 DEF Bypassing, EvalAlone
<1>5. CASE LineEvent \/ ExceptionEvent \/ Spawn \/ EvalEnds \/ EntryReady \/ Connect
              \/ LoseClient \/ LogFails \/ UNCHANGED vars
  BY <1>5 DEF LineEvent, Line, ExceptionEvent, Exception, Spawn, ThreadStart, EvalEnds,
     EvalDone, EntryReady, Connect, LoseClient, LogFails, vars, bdbVars
<1>6. CASE RequestStep
  BY <1>6, RequestFacts, RequestWrites
<1>7. QED
  BY <1>1, <1>2, <1>3, <1>4, <1>5, <1>6 DEF Next, TraceEvent

\* With one thread, or without conditions, an ignored address holds the frame it
\* was ignored for: dispatch_return takes it out of _ignored_frames before the
\* frame is freed.
THEOREM IgnoredFramesLive ==
    ASSUME NothingBypassed
    PROVE  Spec => []IgnoredUnwatched
<1>1. Init => EvalAlone /\ IgnoredUnwatched
  BY DEF Init, BdbInit, NoJob, EvalAlone, IgnoredUnwatched
<1>2. TypeOK /\ JobHasFrame /\ EvalAlone /\ IgnoredUnwatched /\ [Next]_vars
         => (EvalAlone /\ IgnoredUnwatched)'
  BY EvalAloneStep, IgnoredStep
<1>3. QED
  BY <1>1, <1>2, JobsHaveFrames, PTL DEF Spec
-----------------------------------------------------------------------------
(* Breakpoints.  break_here goes through the breakpoints of a line one by    *)
(* one, and a condition in between lets other threads run: the list it comes *)
(* back to has to be the one it left, and the frame the same.                *)

\* While a condition is evaluated the breakpoints before it on the line, and it
\* itself, are conditional.
EvalPlace ==
    job.phase = "eval" =>
        /\ top[job.thread] # NoFrame
        /\ job.line \in Lines
        /\ LET bs == BreaksAt(top[job.thread], job.line)
           IN  \A i \in 1 .. job.at : i <= Len(bs) => bs[i] = "cond"

\* A line that was looked up and let through has no plain breakpoint.
ClearHasNoPlain ==
    (passed.type = "line" /\ passed.why = "clear") =>
        LET bs == BreaksAt(top[passed.thread], passed.line)
        IN  \A i \in DOMAIN bs : bs[i] # "plain"

BreakInv == EvalPlace /\ ClearHasNoPlain

LEMMA LineBreaksAreSeqs ==
    ASSUME TypeOK, NEW f, NEW l \in Lines
    PROVE  BreaksAt(f, l) \in Seq({"plain", "cond"})
  BY BreaksAtType, BreakAssumption DEF TypeOK, BdbTypeOK

\* break_here from any breakpoint on, when the ones before it are conditional
LEMMA BreakFromStep ==
    ASSUME TypeOK, EvalPlace,
           NEW t \in Threads, NEW l \in Lines, NEW i \in Nat \ {0}, top[t] # NoFrame,
           \A j \in 1 .. i - 1 : j <= Len(BreaksAt(top[t], l)) => BreaksAt(top[t], l)[j] = "cond",
           BreakFrom(t, l, i), UNCHANGED <<pyVars, bdbVars>>
    PROVE  BreakInv'
<1> DEFINE bs == BreaksAt(top[t], l)
<1>0. bs \in Seq({"plain", "cond"}) /\ Len(bs) \in Nat /\ DOMAIN bs = 1 .. Len(bs)
  BY LineBreaksAreSeqs
<1>1. top' = top /\ BreaksAt(top[t], l)' = bs
  BY DEF pyVars, bdbVars, BreaksAt
<1>2. CASE i > Len(bs) /\ LetThrough("line", t, l, "clear") /\ job' = NoJob
  <2>1. \A j \in DOMAIN bs : bs[j] = "cond"
    BY <1>0, <1>2
  <2>2. passed'.thread = t /\ passed'.line = l /\ job'.phase = "idle"
    BY <1>2 DEF LetThrough, NoJob
  <2>3. QED
    BY <1>1, <2>1, <2>2 DEF BreakInv, EvalPlace, ClearHasNoPlain, BreaksAt
<1>3. CASE UserStop("line", t, l)
  <2>1. passed'.why # "clear"
    BY <1>3 DEF UserStop, LetThrough, Nothing
  <2>2. job' = job \/ job'.phase # "eval"
    BY <1>3 DEF UserStop, StopAt, Job, NoJob
  <2>3. EvalPlace'
    BY <2>2 DEF EvalPlace, BreaksAt, pyVars, bdbVars
  <2>4. QED
    BY <2>1, <2>3 DEF BreakInv, ClearHasNoPlain
<1>4. CASE i <= Len(bs) /\ bs[i] = "cond" /\ job' = Job("eval", "line", t, l, i)
             /\ passed' = Nothing
  <2>1. \A j \in 1 .. i : j <= Len(bs) => bs[j] = "cond"
    BY <1>0, <1>4
  <2>2. job'.thread = t /\ job'.line = l /\ job'.at = i /\ passed'.why = "none"
    BY <1>4 DEF Job, Nothing
  <2>3. QED
    BY <1>1, <2>1, <2>2 DEF BreakInv, EvalPlace, ClearHasNoPlain, BreaksAt
<1>5. QED
  BY <1>2, <1>3, <1>4 DEF BreakFrom

\* Other threads leave the frame alone whose condition is evaluated.
LEMMA EvalFrameStays ==
    ASSUME TypeOK, FramesWellLinked, EvalPlace, NEW t \in Threads, t # job.thread,
           job.phase = "eval", UNCHANGED <<job, breaks>>,
           \/ \E f \in Frames, g \in Files : Push(t, f, g)
           \/ top[t] # NoFrame /\ Pop(t)
           \/ \E b, r \in Frames, g, h \in Files : PushThread(t, b, r, g, h)
    PROVE  EvalPlace'
<1> DEFINE f == top[job.thread]
<1>0. pyTypes /\ job.thread \in Threads /\ f \in live /\ f # top[t]
  BY DEF TypeOK, BdbTypeOK, endTypes, Jobs, FramesWellLinked, EvalPlace
<1>1. top'[job.thread] = f /\ file'[f] = file[f]
  BY <1>0 DEF Push, Pop, PushThread, pyTypes, MaybeFrame
<1>2. BreaksAt(top[job.thread], job.line)' = BreaksAt(f, job.line)
  BY <1>1 DEF BreaksAt
<1>3. QED
  BY <1>1, <1>2 DEF EvalPlace
LEMMA BreakInvStep ==
    ASSUME TypeOK, JobHasFrame, FramesWellLinked, BreakInv, [Next]_vars
    PROVE  BreakInv'
<1>0. job \in Jobs /\ job.thread \in Threads /\ job.at \in Nat
  BY DEF TypeOK, endTypes, Jobs
<1>1. CASE CallEvent \/ ExceptionEvent \/ ReturnEvent \/ EntryReady \/ Resume
  BY <1>1 DEF CallEvent, Call, ExceptionEvent, Exception, ReturnEvent, Return, EntryReady, Resume,
     UserStop, StopAt, LetThrough, Job, NoJob, Nothing, Idle, BreakInv, EvalPlace, ClearHasNoPlain
<1>2. CASE LineEvent
  <2>1. PICK t \in Threads, l \in Lines : Line(t, l)
    BY <1>2 DEF LineEvent
  <2>2. CASE BreakFrom(t, l, 1)
    BY <2>1, <2>2, BreakFromStep DEF Line, BreakInv
  <2>3. CASE ~BreakFrom(t, l, 1)
    BY <2>1, <2>3 DEF Line, UserStop, StopAt, LetThrough, Job, NoJob, Nothing, Idle, BreakInv,
       EvalPlace, ClearHasNoPlain
  <2>4. QED
    BY <2>2, <2>3
<1>3. CASE Spawn
  <2>1. ClearHasNoPlain' /\ UNCHANGED <<job, breaks>>
    BY <1>3 DEF Spawn, ThreadStart, Nothing, ClearHasNoPlain, bdbVars
  <2>2. CASE job.phase = "eval"
    <3>1. PICK t \in Threads, b \in Frames, r \in Frames, g \in Files, h \in Files :
             ThreadStart(t, b, r, g, h)
      BY <1>3 DEF Spawn
    <3>2. t # job.thread
      BY <2>2, <3>1 DEF ThreadStart, BreakInv, EvalPlace
    <3>3. QED
      BY <2>1, <2>2, <3>1, <3>2, EvalFrameStays DEF ThreadStart, BreakInv
  <2>3. CASE job.phase # "eval"
    BY <2>1, <2>3 DEF BreakInv, EvalPlace
  <2>4. QED
    BY <2>2, <2>3
<1>4. CASE BypassedEvent
  <2>1. PICK t \in Threads :
           /\ Bypassing(t) /\ UNCHANGED <<bdbVars, job>> /\ passed'.why = "bypassed"
           /\ \/ \E f \in Frames, g \in Files : Push(t, f, g)
              \/ UNCHANGED pyVars
              \/ top[t] # NoFrame /\ Pop(t)
    BY <1>4 DEF BypassedEvent, BypassedCall, BypassedLine, BypassedReturn, LetThrough, PopTop
  <2>2. ClearHasNoPlain'
    BY <2>1 DEF ClearHasNoPlain
  <2>3. CASE UNCHANGED pyVars
    BY <2>1, <2>2, <2>3 DEF BreakInv, EvalPlace, BreaksAt, pyVars, bdbVars
  <2>4. CASE ~UNCHANGED pyVars
    BY <2>1, <2>2, <2>4, EvalFrameStays DEF Bypassing, BreakInv, bdbVars
  <2>5. QED
    BY <2>3, <2>4
<1>5. CASE EvalEnds
  <2>1. PICK value \in {"true", "false", "error"} : EvalDone(value)
    BY <1>5 DEF EvalEnds
  <2>2. CASE BreakFrom(job.thread, job.line, job.at + 1)
    <3>1. job.at + 1 \in Nat \ {0} /\ job.at + 1 - 1 = job.at
      BY <1>0
    <3>2. /\ top[job.thread] # NoFrame /\ job.line \in Lines
          /\ \A i \in 1 .. job.at : i <= Len(BreaksAt(top[job.thread], job.line))
                => BreaksAt(top[job.thread], job.line)[i] = "cond"
      BY <2>1 DEF EvalDone, BreakInv, EvalPlace
    <3>3. EvalPlace /\ UNCHANGED <<pyVars, bdbVars>>
      BY <2>1 DEF EvalDone, BreakInv
    <3>4. QED
      BY <1>0, <2>2, <3>1, <3>2, <3>3, BreakFromStep
  <2>3. CASE ~BreakFrom(job.thread, job.line, job.at + 1)
    <3>1. UNCHANGED <<pyVars, bdbVars>> /\ (job' = job \/ job'.phase # "eval")
      BY <2>1, <2>3 DEF EvalDone, StopAt, Job, NoJob
    <3>2. passed' = passed \/ passed'.why # "clear"
      BY <2>1, <2>3 DEF EvalDone, LetThrough, Nothing
    <3>3. QED
      BY <3>1, <3>2 DEF BreakInv, EvalPlace, ClearHasNoPlain, BreaksAt, pyVars, bdbVars
  <2>4. QED
    BY <2>2, <2>3
<1>6. CASE RequestStep
  <2>1. passed' = Nothing /\ job'.phase # "eval"
    BY <1>0, <1>6, RequestFacts DEF Release, Listening, Jobs
  <2>2. QED
    BY <2>1 DEF BreakInv, EvalPlace, ClearHasNoPlain, Nothing
<1>7. CASE Connect \/ LoseClient \/ LogFails \/ UNCHANGED vars
  BY <1>7 DEF Connect, Listening, LoseClient, LogFails, vars, Nothing, BreakInv, EvalPlace,
     ClearHasNoPlain, BreaksAt, pyVars, bdbVars
<1>8. QED
  BY <1>1, <1>2, <1>3, <1>4, <1>5, <1>6, <1>7 DEF Next, TraceEvent

LEMMA BreakInvHolds == Spec => []BreakInv
<1>1. Init => BreakInv
  BY DEF Init, NoJob, Nothing, BreakInv, EvalPlace, ClearHasNoPlain
<1>2. TypeOK /\ JobHasFrame /\ FramesWellLinked /\ BreakInv /\ [Next]_vars => BreakInv'
  BY BreakInvStep
<1>3. QED
  BY <1>1, <1>2, LinksHold, JobsHaveFrames, PTL DEF Spec

\* However many breakpoints a line has, whatever their conditions give, and
\* whatever other threads do meanwhile: a line that break_here lets through, with
\* every condition false, has no plain breakpoint.
THEOREM ClearLinesHaveNone == Spec => []ClearHasNoPlain
  BY BreakInvHolds, PTL DEF BreakInv

\* The other way to let a line through: its frame is an ignored one.
IgnoredPass ==
    (passed.type = "line" /\ passed.why = "ignored") => top[passed.thread] \in ignored

LEMMA IgnoredPassStep ==
    ASSUME TypeOK, IgnoredPass, [Next]_vars
    PROVE  IgnoredPass'
<1> USE DEF IgnoredPass
<1>1. CASE LineEvent
  <2>1. PICK t \in Threads, l \in Lines : Line(t, l)
    BY <1>1 DEF LineEvent
  <2>2. passed'.why = "ignored" => passed'.thread = t /\ top[t] \in ignored
    BY <2>1 DEF Line, BreakFrom, UserStop, LetThrough, Nothing
  <2>3. QED
    BY <2>1, <2>2 DEF Line, pyVars, bdbVars
<1>2. CASE CallEvent \/ ExceptionEvent \/ ReturnEvent \/ BypassedEvent
  BY <1>2 DEF CallEvent, Call, ExceptionEvent, Exception, ReturnEvent, Return, BypassedEvent,
     BypassedCall, BypassedLine, BypassedReturn, UserStop, LetThrough, Nothing
<1>3. CASE EvalEnds
  BY <1>3 DEF EvalEnds, EvalDone, BreakFrom, UserStop, LetThrough, Nothing, pyVars, bdbVars
<1>4. CASE Spawn \/ EntryReady \/ Resume \/ Connect \/ LoseClient \/ LogFails \/ UNCHANGED vars
  BY <1>4 DEF Spawn, ThreadStart, EntryReady, Resume, Connect, LoseClient, LogFails, Nothing,
     vars, pyVars, bdbVars
<1>5. CASE RequestStep
  BY <1>5, RequestFacts DEF Nothing
<1>6. QED
  BY <1>1, <1>2, <1>3, <1>4, <1>5 DEF Next, TraceEvent

LEMMA BreaksOfLine ==
    ASSUME NEW f, NEW l, file[f] \in DOMAIN breaks
    PROVE  BreaksAt(f, l) = breaks[file[f]][l]
  BY DEF BreaksAt

\* A plain breakpoint is passed only in a frame that was called before its file
\* had an entry: in any other frame break_here finds it (dispatch_line).
THEOREM BreakpointsAreHonoured ==
    ASSUME NothingBypassed
    PROVE  Spec => []BreakpointHonoured
<1>1. Init => IgnoredPass
  BY DEF Init, Nothing, IgnoredPass
<1>2. TypeOK /\ IgnoredPass /\ [Next]_vars => IgnoredPass'
  BY IgnoredPassStep
<1>3. ClearHasNoPlain /\ IgnoredPass /\ IgnoredUnwatched => BreakpointHonoured
  BY BreaksOfLine DEF ClearHasNoPlain, IgnoredPass, IgnoredUnwatched, BreakpointHonoured
<1>4. QED
  BY <1>1, <1>2, <1>3, ClearLinesHaveNone, IgnoredFramesLive, TypeCorrect, PTL DEF Spec
=============================================================================
