-------------------------- MODULE LifecycleProofs --------------------------
(***************************************************************************)
(* The hand-off inside its host: every step of Lifecycle.tla is a step of  *)
(* TraceHandoff.tla or leaves its variables alone, so that its theorems    *)
(* hold from the attach of the DLL to its detach.  On top of them stands   *)
(* what a capture does to sys.stdout and sys.stderr.                       *)
(***************************************************************************)
EXTENDS Lifecycle, HandoffProofs

LEMMA LifeSteps == [LifeNext]_allVars => [Next]_vars
<1> SUFFICES ASSUME [LifeNext]_allVars PROVE [Next]_vars
  OBVIOUS
<1>1. CASE UNCHANGED allVars
  BY <1>1 DEF allVars
<1>2. CASE HostStep
  BY <1>2 DEF HostStep, Attach, LoadFails, Regrow, AllocConsole, PyInitialize, Script,
              PyFinalize, FreeDlls, Joined, StartThread, Next, PythonStep
<1>3. ASSUME NEW t \in Threads, Running(t)
      PROVE  [Next]_vars
  BY <1>3 DEF Running, Next, PythonStep
<1>4. CASE IoThread
  BY <1>4 DEF IoThread, Captured, SourceMeanwhile, SourceDone, NotCaptured, Next, IoStep
<1>5. CASE IoExit
  BY <1>5 DEF IoExit
<1> QED
  BY <1>1, <1>2, <1>3, <1>4, <1>5 DEF LifeNext

\* Every behaviour of the DLL in its host is one of the hand-off.
THEOREM LifeIsHandoff == LifeSpec => Spec
<1>1. LifeInit => Init
  BY DEF LifeInit
<1> QED
  BY <1>1, LifeSteps, PTL DEF LifeSpec, Spec

\* From the attach to the detach: bdb is touched by the io thread only, an event
\* is not dispatched inside another, and Python stands still while the debugger
\* looks at it and runs none itself.
THEOREM LifeIsSafe ==
    LifeSpec => [](BodyOnlyOnIo /\ NoNestedDispatch /\ OneEventAtATime /\ OthersStandStill)
BY LifeIsHandoff, BdbIsTouchedByIoOnly, NothingNested, OneEvent, StacksStandStill, PTL

LEMMA LifeHandoffInv == LifeSpec => []HandoffInv
BY LifeIsHandoff, HandoffIsInvariant, PTL

-----------------------------------------------------------------------------
(* Before the scripts *)

\* Until the scripts run, nothing is traced, no thread is started, no event is on
\* its way and nothing is captured.
QuietStart ==
    stage \in {"loading", "starting"} =>
        /\ traced = {} /\ booting = {}
        /\ stack = << >> /\ queue = << >> /\ saved = << >>
        /\ \A t \in Threads : pc[t] \in {"unborn", "away", "python"}

LEMMA QuietStartStep ==
    ASSUME TypeOK, QuietStart, [LifeNext]_allVars
    PROVE  QuietStart'
<1> SUFFICES ASSUME stage' \in {"loading", "starting"}
             PROVE  /\ traced' = {} /\ booting' = {}
                    /\ stack' = << >> /\ queue' = << >> /\ saved' = << >>
                    /\ \A t \in Threads : pc'[t] \in {"unborn", "away", "python"}
  BY DEF QuietStart
<1> USE DEF QuietStart
<1>1. CASE UNCHANGED allVars
  BY <1>1 DEF allVars, lifeVars, vars, streamVars
<1>2. CASE Attach \/ LoadFails \/ Regrow \/ AllocConsole \/ PyInitialize \/ Script
               \/ PyFinalize \/ FreeDlls \/ Joined
  BY <1>2 DEF Attach, LoadFails, Regrow, AllocConsole, PyInitialize, Script, PyFinalize,
              FreeDlls, Joined, Host, lifeVars, vars, streamVars, Install, ScriptAssigns, Assign
<1>3. ASSUME NEW t \in Threads, StartThread(t)
      PROVE  FALSE
  BY <1>3, MainAssumption DEF StartThread
<1>4. ASSUME NEW t \in Threads, Running(t)
      PROVE  /\ traced' = {} /\ booting' = {}
             /\ stack' = << >> /\ queue' = << >> /\ saved' = << >>
             /\ \A u \in Threads : pc'[u] \in {"unborn", "away", "python"}
  <2>1. stage \in {"loading", "starting"}
    BY <1>4 DEF Running, lifeVars
  <2>2. TakeGil(t) \/ GiveGil(t)
    BY <1>4, <2>1 DEF Running, Event, Dispatch, Inline, Answered, Bootstrap
  <2> QED
    BY <1>4, <2>1, <2>2 DEF Running, TakeGil, GiveGil, ioVars, TypeOK, streamVars
<1>5. CASE IoThread
  <2>1. stage \in {"loading", "starting"} /\ stack = << >> /\ queue = << >> /\ saved = << >>
    BY <1>5 DEF IoThread, lifeVars
  <2>2. UNCHANGED <<traced, booting, stack, queue, saved, pc>>
    BY <1>5, <2>1 DEF IoThread, Captured, SourceMeanwhile, SourceDone, NotCaptured, CaptureFails,
       RunOne, RunsOut, Pass, EvalCondition, CondDone, EvalValue, ValueDone, AwaitClient,
       ClientReady, Interact, ResumeRequest, LeaveInteraction, TextRequest, TextDone,
       CodeRequest, CodeDone, IoGiveGil, IoTakeGil, Spin, Begin, End, Serving, RunsPython,
       Unflagged, In, ioVars, vars, streamVars
  <2> QED
    BY <2>1, <2>2
<1>6. CASE IoExit
  BY <1>6 DEF IoExit, vars, streamVars
<1> QED
  BY <1>1, <1>2, <1>3, <1>4, <1>5, <1>6 DEF LifeNext, HostStep

LEMMA QuietStartHolds == LifeSpec => []QuietStart
<1>1. LifeInit => QuietStart
  BY DEF LifeInit, Init, StreamsInit, QuietStart
<1> QED
  BY <1>1, QuietStartStep, LifeIsHandoff, HandoffTypes, PTL DEF LifeSpec

-----------------------------------------------------------------------------
(* The streams *)

\* what Python or the debugger made is referred to by more than sys
Held(o) == o.kind \in {"file", "redirector"} => o \in owned

\* A capture is under way in the outer loop, or below a loop of the event in
\* hand, and only then is something saved.
Capturing == saved # << >>

StreamInv ==
    /\ sys \in [Names -> Objects]
    /\ \A o \in freed : o.kind = "script"
    /\ \A n \in Names : Stream("file", n) \in owned
    /\ \A n \in Names : Held(sys[n]) /\ (sys[n].kind = "captured" => Capturing)
    /\ Capturing => /\ saved \in [Names -> Objects]
                    /\ \A n \in Names : Held(saved[n]) /\ saved[n].kind # "captured"
                    /\ stack = << >> \/ In("run")
    /\ In("run") => Capturing

\* Only Captured starts and ends a capture, and while one is under way in the
\* outer loop nothing else is done there.
LEMMA SameCapture ==
    ASSUME HandoffInv, StreamInv, [LifeNext]_allVars, ~Captured
    PROVE  /\ saved' = saved
           /\ In("run")' => In("run")
           /\ stack = << >> /\ Capturing => stack' = << >>
           /\ In("run") => In("run")'
<1> USE DEF In
<1>1. CASE UNCHANGED <<stack, saved>>
  BY <1>1
<1>2. CASE RunOne /\ saved = << >> /\ UNCHANGED saved
  <2>1. Head(stack').at = "body"
    BY <1>2 DEF RunOne, Handler
  <2>2. ~In("run")
    BY <1>2 DEF StreamInv, Capturing
  <2> QED
    BY <1>2, <2>1, <2>2 DEF Capturing
<1>3. CASE (Pass \/ LeaveInteraction) /\ UNCHANGED saved
  <2>1. stack # << >> /\ Head(stack).at # "run" /\ Tail(stack) = << >>
    BY <1>3, WhoIsThere DEF Pass, LeaveInteraction, HandoffInv
  <2> QED
    BY <1>3, <2>1 DEF Pass, LeaveInteraction, Finish
<1>4. CASE /\ \/ EvalCondition \/ CondDone \/ EvalValue \/ ValueDone \/ AwaitClient
              \/ ClientReady \/ Interact \/ TextRequest \/ TextDone
           /\ UNCHANGED saved
  <2>1. stack # << >> /\ Head(stack).at # "run"
    BY <1>4 DEF EvalCondition, CondDone, EvalValue, ValueDone, AwaitClient, ClientReady,
       Interact, TextRequest, TextDone, Begin, End, Serving
  <2>2. PICK a \in Activities \ {"run"} : Become(a)
    BY <1>4 DEF EvalCondition, CondDone, EvalValue, ValueDone, AwaitClient, ClientReady,
       Interact, TextRequest, TextDone, Begin, End, Loop, Activities
  <2> QED
    BY <1>4, <2>1, <2>2, BecomeOf DEF HandoffInv
<1>5. CASE UNCHANGED allVars
  BY <1>1, <1>5 DEF allVars, vars, streamVars
<1>6. CASE HostStep
  BY <1>6, <1>1 DEF HostStep, Attach, LoadFails, Regrow, AllocConsole, PyInitialize, Script,
              PyFinalize, FreeDlls, Joined, StartThread, EnableTrace, Finalize, Spawn, vars, ioVars,
              streamVars, Install, ScriptAssigns, Assign
<1>7. ASSUME NEW t \in Threads, Running(t)
      PROVE  UNCHANGED <<stack, saved>>
  BY <1>7 DEF Running, TakeGil, GiveGil, Event, Dispatch, Inline, Answered, Bootstrap, ioVars,
     streamVars
<1>8. CASE IoThread
  BY <1>1, <1>2, <1>3, <1>4, <1>8 DEF IoThread, RunsOut, ResumeRequest, IoGiveGil, IoTakeGil,
              Spin, vars, ioVars, streamVars
<1>9. CASE IoExit
  BY <1>1, <1>9 DEF IoExit, vars, streamVars
<1> QED
  BY <1>1, <1>5, <1>6, <1>7, <1>8, <1>9 DEF LifeNext

\* ... and it does so below a loop or in the outer one
LEMMA CaptureStarts ==
    ASSUME HandoffInv, StreamInv, Captured
    PROVE  \/ Capture /\ ~Capturing /\ (stack' = << >> \/ In("run")')
           \/ Restore /\ Capturing /\ ~In("run")'
           \/ CaptureFails /\ ~Capturing /\ UNCHANGED stack
<1>1. CASE CodeRequest /\ Capture
  <2>1. stack # << >> /\ ~In("run") /\ Become("run")
    BY <1>1 DEF CodeRequest, Serving, Begin, In
  <2>2. In("run")'
    BY <2>1, BecomeOf DEF HandoffInv, Activities
  <2> QED
    BY <1>1, <2>1, <2>2 DEF StreamInv
<1>2. CASE CodeDone /\ Restore
  <2>1. stack # << >> /\ In("run") /\ Become(Loop) /\ Loop \in {"waiting", "nested"}
    BY <1>2 DEF CodeDone, End, In, Loop
  <2>2. ~In("run")'
    BY <2>1, BecomeOf DEF HandoffInv, Activities
  <2> QED
    BY <1>2, <2>1, <2>2 DEF StreamInv
<1>3. CASE SourceMeanwhile
  BY <1>3 DEF SourceMeanwhile, Idle, Capturing, vars
<1>4. CASE SourceDone
  BY <1>4 DEF SourceDone, Capturing, In, vars
<1>5. CASE NotCaptured
  BY <1>5 DEF NotCaptured, Capturing, vars
<1> QED
  BY <1>1, <1>2, <1>3, <1>4, <1>5 DEF Captured

\* what the steps of Streams.tla do to sys
LEMMA CaptureKeeps ==
    ASSUME StreamInv, NEW names \in SUBSET Names, ~Capturing
    PROVE  \A o \in OnlySysOf(names) : o.kind = "script"
BY DEF StreamInv, Held, OnlySysOf, Objects

LEMMA AssignKeeps ==
    ASSUME StreamInv, NEW n \in Names, NEW o \in Objects, Assign(n, o), UNCHANGED stack
    PROVE  StreamInv'
<1>1. sys' \in [Names -> Objects] /\ UNCHANGED saved
  BY DEF StreamInv, Assign
<1>2. freed' \subseteq freed
  BY DEF Assign
<1>3. \A x : x \in owned /\ x.kind # "script" => x \in owned'
  BY DEF Assign, Stream
<1>4. \A m \in Names : Stream("file", m) \in owned'
  BY <1>3 DEF StreamInv, Stream
<1>5. Held(o)' /\ (o.kind = "captured" => Capturing)
  BY <1>3, <1>4 DEF Held, Assign, Stream, StreamInv, Range
<1>6. \A m \in Names : Held(sys[m])' /\ (sys'[m].kind = "captured" => Capturing)
  <2> TAKE m \in Names
  <2>1. sys'[m] = IF m = n THEN o ELSE sys[m]
    BY DEF Assign, StreamInv
  <2> QED
    BY <1>3, <1>5, <2>1 DEF Held, StreamInv
<1>7. Capturing => \A m \in Names : Held(saved[m])' /\ saved'[m].kind # "captured"
  BY <1>1, <1>3 DEF Held, StreamInv
<1> QED
  BY <1>1, <1>2, <1>4, <1>6, <1>7 DEF StreamInv, Capturing, In

LEMMA InstallKeeps ==
    ASSUME StreamInv, Install, ~Capturing, UNCHANGED stack
    PROVE  StreamInv'
<1>1. PICK installed \in SUBSET Names :
          /\ sys' = [n \in Names |-> Stream(IF n \in installed THEN "redirector" ELSE "file", n)]
          /\ owned' = Kept(installed)
          /\ UNCHANGED <<freed, saved>>
  BY DEF Install
<1>2. sys' \in [Names -> Objects]
  BY <1>1 DEF Objects, Stream
<1>3. \A n \in Names : Held(sys[n])' /\ sys'[n].kind # "captured"
  BY <1>1 DEF Held, Kept, Stream
<1>4. \A n \in Names : Stream("file", n) \in owned'
  BY <1>1 DEF Kept
<1> QED
  BY <1>1, <1>2, <1>3, <1>4 DEF StreamInv, Capturing, In

\* a function on the names is not << >>
LEMMA SomethingSaved ==
    ASSUME NEW f \in [Names -> Objects]
    PROVE  f # << >>
<1>1. DOMAIN f # {}
  BY NamesAssumption
<1>2. DOMAIN << >> = {}
  OBVIOUS
<1> QED
  BY <1>1, <1>2

LEMMA StreamStep ==
    ASSUME HandoffInv, QuietStart, StreamInv, [LifeNext]_allVars
    PROVE  StreamInv'
<1>1. CASE Captured
  <2>1. CASE Capture /\ ~Capturing /\ (stack' = << >> \/ In("run")')
    <3>1. \A o \in freed' : o.kind = "script"
      BY <2>1, CaptureKeeps DEF Capture, StreamInv
    <3>2. \A n \in Names : Held(sys[n])' /\ sys'[n].kind = "captured" /\ sys'[n] \in Objects
      BY <2>1 DEF Capture, Held, Stream, Objects
    <3>3. \A n \in Names : Held(saved[n])' /\ saved'[n].kind # "captured"
      BY <2>1 DEF Capture, Held, StreamInv
    <3>4. Capturing' /\ saved' \in [Names -> Objects]
      BY <2>1, SomethingSaved DEF Capture, Capturing, StreamInv
    <3> QED
      BY <2>1, <3>1, <3>2, <3>3, <3>4 DEF Capture, StreamInv
  <2>2. CASE Restore /\ Capturing /\ ~In("run")'
    BY <2>2 DEF Restore, StreamInv, Held, Capturing
  <2>3. CASE CaptureFails /\ ~Capturing /\ UNCHANGED stack
    <3>1. PICK captured \in SUBSET Names : freed' = freed \cup OnlySysOf(captured)
      BY <2>3 DEF CaptureFails
    <3>2. \A o \in freed' : o.kind = "script"
      BY <2>3, <3>1, CaptureKeeps DEF StreamInv
    <3> QED
      BY <2>3, <3>2 DEF CaptureFails, StreamInv, Held, Capturing, In
  <2> QED
    BY <1>1, <2>1, <2>2, <2>3, CaptureStarts
<1>2. CASE ~Captured
  <2>1. /\ saved' = saved
        /\ In("run")' <=> In("run")
        /\ stack = << >> /\ Capturing => stack' = << >>
    BY <1>2, SameCapture
  <2>2. CASE Script
    BY <2>2, AssignKeeps DEF Script, ScriptAssigns, vars
  <2>3. CASE PyInitialize
    <3>1. stage = "starting" /\ Install /\ UNCHANGED stack
      BY <2>3 DEF PyInitialize, Host, EnableTrace, vars, ioVars
    <3>2. ~Capturing
      BY <3>1 DEF QuietStart, Capturing
    <3> QED
      BY <3>1, <3>2, InstallKeeps
  <2>4. CASE ~Script /\ ~PyInitialize
    <3>1. UNCHANGED streamVars
      BY <1>2, <2>4 DEF LifeNext, HostStep, Attach, LoadFails, Regrow, AllocConsole, PyFinalize,
         FreeDlls, Joined, StartThread, Running, IoThread, IoExit, allVars
    <3> QED
      BY <2>1, <3>1 DEF streamVars, StreamInv, Held, Capturing
  <2> QED
    BY <2>2, <2>3, <2>4
<1> QED
  BY <1>1, <1>2

LEMMA StreamInvHolds == LifeSpec => []StreamInv
<1>1. LifeInit => StreamInv
  <2> SUFFICES ASSUME LifeInit PROVE StreamInv
    OBVIOUS
  <2>1. sys = [n \in Names |-> Stream("file", n)] /\ owned = Kept({}) /\ freed = {}
    BY DEF LifeInit, StreamsInit
  <2>2. sys \in [Names -> Objects]
    BY <2>1 DEF Stream, Objects
  <2>3. \A n \in Names : Stream("file", n) \in owned
    BY <2>1 DEF Kept
  <2>4. \A n \in Names : Held(sys[n]) /\ sys[n].kind # "captured"
    BY <2>1, <2>3 DEF Held, Stream
  <2>5. ~In("run") /\ ~Capturing
    BY DEF LifeInit, Init, In, StreamsInit, Capturing
  <2> QED
    BY <2>1, <2>2, <2>3, <2>4, <2>5 DEF StreamInv
<1> QED
  BY <1>1, StreamStep, LifeHandoffInv, QuietStartHolds, PTL DEF LifeSpec

\* A capture never frees what Python or the debugger put into sys, although
\* py_print_wrapper restores it from a pointer that owns nothing
\* (python.cpp:19).
THEOREM StreamsAreNotFreed == LifeSpec => []StreamsSurvive
<1>1. StreamInv => StreamsSurvive
  BY DEF StreamInv, StreamsSurvive
<1> QED
  BY <1>1, StreamInvHolds, PTL

-----------------------------------------------------------------------------
(* Types *)

\* the variables the invariant above does not type
Others ==
    /\ owned \subseteq Objects /\ freed \subseteq Objects
    /\ saved \in [Names -> Objects] \cup {<< >>}
    /\ stage \in Stages
    /\ ioAlive \in BOOLEAN /\ pyDebugger \in BOOLEAN /\ hook \in BOOLEAN

LEMMA OthersStep ==
    ASSUME StreamInv, Others, [LifeNext]_allVars
    PROVE  Others'
<1>1. /\ stage' \in Stages
      /\ ioAlive' \in BOOLEAN /\ pyDebugger' \in BOOLEAN /\ hook' \in BOOLEAN
  BY DEF Others, LifeNext, HostStep, Attach, LoadFails, Regrow, AllocConsole, PyInitialize, Script,
         PyFinalize, FreeDlls, Joined, StartThread, Host, Running, IoThread, IoExit, Stages,
         allVars, lifeVars
<1>2. \/ UNCHANGED streamVars \/ Install \/ ScriptAssigns \/ Capture \/ Restore \/ CaptureFails
  BY DEF LifeNext, HostStep, Attach, LoadFails, Regrow, AllocConsole, PyInitialize, Script,
         PyFinalize, FreeDlls, Joined, StartThread, Running, IoThread, Captured, SourceMeanwhile,
         SourceDone, NotCaptured, IoExit, allVars
<1>3. \A names \in SUBSET Names : OnlySysOf(names) \subseteq Objects
  BY DEF StreamInv, OnlySysOf
<1>4. \A installed \in SUBSET Names : Kept(installed) \subseteq Objects
  BY DEF Kept, Stream, Objects
<1>5. owned' \subseteq Objects /\ freed' \subseteq Objects
  <2>1. CASE UNCHANGED streamVars
    BY <2>1 DEF streamVars, Others
  <2>2. CASE Install
    BY <2>2, <1>4 DEF Install, Others
  <2>3. CASE ScriptAssigns
    BY <2>3 DEF ScriptAssigns, Assign, Others
  <2>4. CASE Capture \/ Restore
    BY <2>4, <1>3 DEF Capture, Restore, Others
  <2>5. CASE CaptureFails
    BY <2>5, <1>3 DEF CaptureFails, Others
  <2> QED
    BY <1>2, <2>1, <2>2, <2>3, <2>4, <2>5
<1>6. saved' \in [Names -> Objects] \cup {<< >>}
  BY <1>2 DEF streamVars, Install, ScriptAssigns, Assign, Capture, Restore, CaptureFails,
              Others, StreamInv
<1> QED
  BY <1>1, <1>5, <1>6 DEF Others

\* Every variable of the DLL in its host keeps its type.
THEOREM LifeTypes == LifeSpec => []LifeTypeOK
<1>1. LifeInit => Others
  <2> SUFFICES ASSUME LifeInit PROVE Others
    OBVIOUS
  <2>1. owned \subseteq Objects
    BY DEF LifeInit, StreamsInit, Kept, Stream, Objects
  <2> QED
    BY <2>1 DEF LifeInit, StreamsInit, Others, Stages
<1>2. TypeOK /\ StreamInv /\ Others => LifeTypeOK
  BY DEF StreamInv, Others, LifeTypeOK, StreamsTypeOK
<1> QED
  BY <1>1, <1>2, OthersStep, StreamInvHolds, LifeIsHandoff, HandoffTypes, PTL DEF LifeSpec

-----------------------------------------------------------------------------
(* After Py_Finalize *)

\* disable_trace clears the trace function of every thread that has it; after
\* Py_Finalize only a thread whose bootstrap was still to come may install it
\* (main.cpp:215, bdb.cpp:125).
THEOREM HooksTraceLate == LifeSpec => OnlyHooksTraceLate
<1> DEFINE Traces == pc'[Main] = "over" =>
                       \A t \in traced' : t \in booting \/ (pc[Main] = "over" /\ t \in traced)
<1>1. TypeOK /\ [LifeNext]_allVars => [Traces]_allVars
  <2> SUFFICES ASSUME TypeOK, [LifeNext]_allVars, pc'[Main] = "over",
                      NEW t \in traced', t \notin booting
               PROVE  pc[Main] = "over" /\ t \in traced
    OBVIOUS
  <2>1. CASE Finalize
    BY <2>1 DEF Finalize
  <2>2. ASSUME NEW u \in Threads, Spawn(u)
        PROVE  pc[Main] = "over" /\ t \in traced
    BY <2>2, MainAssumption DEF Spawn, TypeOK
  <2>3. ASSUME NEW u \in Threads, TakeGil(u) \/ GiveGil(u) \/ Event(u) \/ Dispatch(u)
                                   \/ Inline(u) \/ Answered(u)
        PROVE  pc[Main] = "over" /\ UNCHANGED traced
    BY <2>3, MainAssumption
    DEF TakeGil, GiveGil, Event, Dispatch, Inline, Answered, TypeOK
  <2>4. ASSUME NEW u \in Threads, Bootstrap(u)
        PROVE  pc[Main] = "over" /\ t \in traced
    BY <2>4 DEF Bootstrap
  <2>5. CASE EnableTrace
    BY <2>5 DEF EnableTrace
  <2>6. CASE UNCHANGED <<pc, traced>>
    BY <2>6
  <2>7. IoStep => UNCHANGED <<pc, traced>>
    BY DEF IoStep, RunOne, RunsOut, Pass, EvalCondition, CondDone, EvalValue, ValueDone,
           AwaitClient, ClientReady, Interact, ResumeRequest, LeaveInteraction, TextRequest,
           TextDone, CodeRequest, CodeDone, IoGiveGil, IoTakeGil, Spin, vars
  <2> QED
    BY <2>1, <2>2, <2>3, <2>4, <2>5, <2>6, <2>7, LifeSteps DEF Next, PythonStep, vars
<1> QED
  BY <1>1, LifeIsHandoff, HandoffTypes, PTL DEF LifeSpec, OnlyHooksTraceLate
=============================================================================
