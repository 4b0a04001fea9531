---------------------------- MODULE HandoffProofs ----------------------------
(***************************************************************************)
(* The safety properties of TraceHandoff, for any set of Python threads.   *)
(* All of them follow from who can hold the GIL in each activity of the io *)
(* thread, and from where the thread of a posted event can be.             *)
(***************************************************************************)
EXTENDS TraceHandoff, TLAPS

\* the io thread is in one handler at most, and one more is posted at most
Shapes ==
    /\ stack = << >> \/ \E a \in Activities, t \in Threads : stack = <<Handler(a, t)>>
    /\ queue = << >> \/ \E t \in Threads : queue = <<t>>

\* bytecode runs with the GIL, on the io thread only for the event in hand
RunnersHoldGil ==
    /\ \A t \in Threads : pc[t] \in {"python", "tracing", "inline"} => gil = t
    /\ gil = Io => RunsPython

\* _evaling is set during conditions, and an event was let in only then
EvalingInConditions ==
    /\ evaling <=> In("cond")
    /\ \A t \in Threads : pc[t] = "inline" => evaling

\* the thread of the event in hand waits with the GIL, which is taken from it
\* only when Python is run for the event
OwnerWaits ==
    stack # << >> =>
        /\ pc[Head(stack).for] = "posted"
        /\ Head(stack).for \notin ready
        /\ gil = Head(stack).for <=> ~RunsPython

\* a second event can only be posted while Python runs without _evaling
PosterWaits ==
    queue # << >> =>
        /\ pc[Head(queue)] = "posted" /\ gil = Head(queue)
        /\ stack # << >> => Unflagged

\* a thread that has its answer takes it before anything else happens
AnsweredWaits ==
    \A t \in ready : pc[t] = "posted" /\ gil = t /\ stack = << >> /\ queue = << >>

\* an event that was posted is queued, in hand, or answered
PostedSomewhere ==
    \A t \in Threads : pc[t] = "posted" =>
        t \in ready \/ queue = <<t>> \/ (stack # << >> /\ Head(stack).for = t)

HandoffInv ==
    /\ TypeOK /\ Shapes /\ RunnersHoldGil /\ EvalingInConditions
    /\ OwnerWaits /\ PosterWaits /\ AnsweredWaits /\ PostedSomewhere
    /\ BodyOnlyOnIo

-----------------------------------------------------------------------------
(* The parts of the invariant that speak of the io thread, with sequences    *)
(* written out.                                                              *)

LEMMA OneHandler ==
    ASSUME NEW a, NEW t
    PROVE  LET s == <<Handler(a, t)>>
           IN  /\ s # << >> /\ Head(s) = Handler(a, t) /\ Tail(s) = << >>
               /\ Head(s).at = a /\ Head(s).for = t
               /\ s \o << >> = s /\ Len(s) = 1
  BY DEF Handler

LEMMA OnePosted ==
    ASSUME NEW t
    PROVE  /\ <<t>> # << >> /\ Head(<<t>>) = t /\ Tail(<<t>>) = << >>
           /\ Append(<< >>, t) = <<t>> /\ Len(<<t>>) = 1
  OBVIOUS

-----------------------------------------------------------------------------
LEMMA WhoIsThere ==
    ASSUME Shapes
    PROVE  /\ stack # << >> => /\ Head(stack).for \in Threads /\ Head(stack).at \in Activities
                               /\ Tail(stack) = << >>
           /\ queue # << >> => Head(queue) \in Threads /\ queue = <<Head(queue)>>
<1>1. CASE \E a \in Activities, t \in Threads : stack = <<Handler(a, t)>>
<2>1. PICK a \in Activities, t \in Threads : stack = <<Handler(a, t)>>
  BY <1>1
<2>2. Head(stack).for = t /\ Head(stack).at = a /\ Tail(stack) = << >>
  BY <2>1, OneHandler
<2>3. CASE \E u \in Threads : queue = <<u>>
  BY <2>2, <2>3, OnePosted
<2>4. QED
  BY <2>2, <2>3 DEF Shapes
<1>2. CASE stack = << >> /\ \E u \in Threads : queue = <<u>>
  BY <1>2, OnePosted
<1>3. QED
  BY <1>1, <1>2 DEF Shapes

LEMMA InitHolds == Init => HandoffInv
<1> SUFFICES ASSUME Init PROVE HandoffInv
  OBVIOUS
<1>1. stack = << >> /\ queue = << >> /\ ready = {} /\ ~evaling /\ gil = Free
  BY DEF Init
<1>2. \A a : ~In(a)
  BY <1>1 DEF In
<1>3. \A t \in Threads : pc[t] \in {"away", "unborn"}
  BY DEF Init
<1>4. TypeOK
<2>1. pc \in [Threads -> PcValues] /\ traced \subseteq Threads
  BY MainAssumption DEF Init, PcValues
<2>2. queue \in Seq(Threads) /\ stack \in Seq([at : Activities, for : Threads])
  BY <1>1
<2>3. QED
  BY <1>1, <2>1, <2>2 DEF Init, TypeOK
<1>5. Shapes /\ OwnerWaits /\ PosterWaits /\ AnsweredWaits /\ PostedSomewhere
  BY <1>1, <1>3 DEF Shapes, OwnerWaits, PosterWaits, AnsweredWaits, PostedSomewhere
<1>6. RunnersHoldGil /\ EvalingInConditions /\ BodyOnlyOnIo
  BY <1>1, <1>2, <1>3, NameAssumption
  DEF RunnersHoldGil, EvalingInConditions, BodyOnlyOnIo
<1>7. QED
  BY <1>4, <1>5, <1>6 DEF HandoffInv

-----------------------------------------------------------------------------
(* One lemma for each kind of step.  A Python thread that moves holds the    *)
(* GIL or takes it when it is free.                                          *)

LEMMA PythonStepKeeps ==
    ASSUME HandoffInv, NEW t \in Threads,
           Spawn(t) \/ Bootstrap(t) \/ TakeGil(t) \/ GiveGil(t) \/ Event(t) \/ Inline(t) \/ Answered(t)
    PROVE  HandoffInv'
<1>1. UNCHANGED <<stack, queue, evaling, stopped, ended, wait>>
  BY DEF Spawn, Bootstrap, TakeGil, GiveGil, Event, Inline, Answered, ioVars
<1>2. /\ In("cond")' <=> In("cond")
      /\ Unflagged' <=> Unflagged
  BY <1>1 DEF In, Unflagged
<1>0. /\ stack # << >> => Head(stack).for \in Threads
      /\ queue # << >> => Head(queue) \in Threads
  BY WhoIsThere DEF HandoffInv
<1>3. Shapes'
  BY <1>1, <1>2 DEF HandoffInv, Shapes
<1>4. TypeOK'
  BY <1>1 DEF HandoffInv, TypeOK, Spawn, Bootstrap, TakeGil, GiveGil, Event, Inline, Answered, ioVars, PcValues
<1>5. RunnersHoldGil' /\ EvalingInConditions' /\ BodyOnlyOnIo'
<2> USE <1>1, <1>2, NameAssumption
    DEF HandoffInv, TypeOK, RunnersHoldGil, EvalingInConditions, BodyOnlyOnIo, RunsPython
<2>1. CASE Spawn(t)
  BY <2>1 DEF Spawn
<2>2. CASE TakeGil(t)
  BY <2>2 DEF TakeGil
<2>3. CASE GiveGil(t)
  BY <2>3 DEF GiveGil
<2>4. CASE Event(t)
  BY <2>4 DEF Event
<2>5. CASE Inline(t)
  BY <2>5 DEF Inline
<2>6. CASE Answered(t)
  BY <2>6, <1>0 DEF Answered, AnsweredWaits
<2>7. CASE Bootstrap(t)
  BY <2>7 DEF Bootstrap
<2>8. QED
  BY <2>1, <2>2, <2>3, <2>4, <2>5, <2>6, <2>7
<1>6. OwnerWaits'
  BY <1>0, <1>1, <1>2, NameAssumption
  DEF HandoffInv, TypeOK, RunnersHoldGil, OwnerWaits, AnsweredWaits, RunsPython,
      Spawn, Bootstrap, TakeGil, GiveGil, Event, Inline, Answered, ioVars
<1>7. PosterWaits'
  BY <1>0, <1>1, <1>2, NameAssumption
  DEF HandoffInv, TypeOK, RunnersHoldGil, PosterWaits, AnsweredWaits, RunsPython,
      Spawn, Bootstrap, TakeGil, GiveGil, Event, Inline, Answered, ioVars
<1>8. AnsweredWaits' /\ PostedSomewhere'
  BY <1>1, <1>2, NameAssumption
  DEF HandoffInv, TypeOK, RunnersHoldGil, AnsweredWaits, PostedSomewhere, RunsPython,
      Spawn, Bootstrap, TakeGil, GiveGil, Event, Inline, Answered, ioVars
<1>9. QED
  BY <1>3, <1>4, <1>5, <1>6, <1>7, <1>8 DEF HandoffInv
\* Nobody who runs bytecode meets an event in hand, except during an
\* evaluation, or a posted or answered one.
LEMMA RunnerIsAlone ==
    ASSUME HandoffInv, NEW t \in Threads, pc[t] \in {"python", "tracing", "inline"}
    PROVE  /\ gil = t /\ t \notin ready
           /\ ready = {} /\ queue = << >>
           /\ stack # << >> => RunsPython /\ Head(stack).for # t
<1>1. gil = t
  BY DEF HandoffInv, RunnersHoldGil
<1>2. ready = {}
  BY <1>1 DEF HandoffInv, AnsweredWaits
<1>3. queue = << >>
  BY <1>1 DEF HandoffInv, PosterWaits
<1>4. stack # << >> => RunsPython /\ Head(stack).for # t
  BY <1>1 DEF HandoffInv, OwnerWaits
<1>5. QED
  BY <1>1, <1>2, <1>3, <1>4

LEMMA DispatchKeeps ==
    ASSUME HandoffInv, NEW t \in Threads, Dispatch(t)
    PROVE  HandoffInv'
<1>1. /\ gil = t /\ t \notin ready
      /\ ready = {} /\ queue = << >>
      /\ stack # << >> => RunsPython /\ Head(stack).for # t
  BY RunnerIsAlone DEF Dispatch
<1>2. UNCHANGED <<gil, stack, ready, evaling>>
  BY DEF Dispatch
<1>3. In("cond")' <=> In("cond")
  BY <1>2 DEF In
<1>4. Unflagged' <=> Unflagged
  BY <1>2 DEF In, Unflagged
<1>5. stack # << >> => Head(stack).for \in Threads
  BY WhoIsThere DEF HandoffInv
<1>6. CASE evaling
<2>1. pc' = [pc EXCEPT ![t] = "inline"] /\ queue' = queue
  BY <1>6 DEF Dispatch
<2>2. TypeOK'
  BY <1>2, <2>1 DEF HandoffInv, TypeOK, PcValues, Dispatch
<2>3. Shapes' /\ PosterWaits' /\ AnsweredWaits'
  BY <1>1, <1>2, <1>4, <2>1 DEF HandoffInv, Shapes, PosterWaits, AnsweredWaits
<2>4. RunnersHoldGil' /\ EvalingInConditions' /\ BodyOnlyOnIo' /\ PostedSomewhere'
  BY <1>1, <1>2, <1>3, <1>4, <1>6, <2>1
  DEF HandoffInv, TypeOK, RunnersHoldGil, EvalingInConditions, BodyOnlyOnIo,
      PostedSomewhere, RunsPython
<2>5. OwnerWaits'
  BY <1>1, <1>2, <1>3, <1>4, <1>5, <2>1 DEF HandoffInv, TypeOK, OwnerWaits, RunsPython
<2>6. QED
  BY <2>2, <2>3, <2>4, <2>5 DEF HandoffInv
<1>7. CASE ~evaling
<2>1. pc' = [pc EXCEPT ![t] = "posted"] /\ queue' = <<t>>
  BY <1>1, <1>7, OnePosted DEF Dispatch
<2>2. queue' # << >> /\ Head(queue') = t
  BY <2>1, OnePosted
<2>3. stack # << >> => Unflagged
  BY <1>1, <1>7 DEF HandoffInv, EvalingInConditions, RunsPython
<2>4. queue' \in Seq(Threads)
  BY <2>1
<2>5. TypeOK'
  BY <1>2, <2>1, <2>4 DEF HandoffInv, TypeOK, PcValues, Dispatch
<2>6. Shapes'
  BY <1>2, <1>4, <2>1 DEF HandoffInv, Shapes
<2>7. PosterWaits' /\ AnsweredWaits'
  BY <1>1, <1>2, <1>4, <2>1, <2>2, <2>3 DEF HandoffInv, TypeOK, PosterWaits, AnsweredWaits
<2>8. RunnersHoldGil' /\ EvalingInConditions' /\ BodyOnlyOnIo'
  BY <1>2, <1>3, <1>4, <2>1
  DEF HandoffInv, TypeOK, RunnersHoldGil, EvalingInConditions, BodyOnlyOnIo, RunsPython
<2>9. PostedSomewhere'
  BY <1>1, <1>2, <2>1 DEF HandoffInv, TypeOK, PostedSomewhere
<2>10. OwnerWaits'
  BY <1>1, <1>2, <1>3, <1>4, <1>5, <2>1 DEF HandoffInv, TypeOK, OwnerWaits, RunsPython
<2>11. QED
  BY <2>5, <2>6, <2>7, <2>8, <2>9, <2>10 DEF HandoffInv
<1>8. QED
  BY <1>6, <1>7

LEMMA FinalizeKeeps ==
    ASSUME HandoffInv, Finalize
    PROVE  HandoffInv'
<1>1. /\ gil = Main /\ Main \notin ready
      /\ ready = {} /\ queue = << >>
      /\ stack # << >> => RunsPython /\ Head(stack).for # Main
  BY RunnerIsAlone, MainAssumption DEF Finalize
<1>2. UNCHANGED <<queue, stack, ready, evaling, stopped>> /\ gil' = Free
      /\ pc' = [pc EXCEPT ![Main] = "over"]
  BY DEF Finalize, ioVars
<1>3. /\ In("cond")' <=> In("cond")
      /\ Unflagged' <=> Unflagged
  BY <1>2 DEF In, Unflagged
<1>4. stack # << >> => Head(stack).for \in Threads
  BY WhoIsThere DEF HandoffInv
<1>5. TypeOK'
  BY <1>2, MainAssumption DEF HandoffInv, TypeOK, PcValues, Finalize
<1>6. Shapes' /\ PosterWaits' /\ AnsweredWaits'
  BY <1>1, <1>2, <1>3 DEF HandoffInv, Shapes, PosterWaits, AnsweredWaits
<1>7. RunnersHoldGil' /\ EvalingInConditions' /\ BodyOnlyOnIo' /\ PostedSomewhere'
  BY <1>1, <1>2, <1>3, MainAssumption, NameAssumption
  DEF HandoffInv, TypeOK, RunnersHoldGil, EvalingInConditions, BodyOnlyOnIo,
      PostedSomewhere, RunsPython
<1>8. OwnerWaits'
  BY <1>1, <1>2, <1>3, <1>4, NameAssumption DEF HandoffInv, TypeOK, OwnerWaits, RunsPython
<1>9. QED
  BY <1>5, <1>6, <1>7, <1>8 DEF HandoffInv
-----------------------------------------------------------------------------
(* The io thread.  Its steps start a handler, change the activity of the one *)
(* it is in, end it, or pass the GIL.                                        *)

LEMMA StackTypes ==
    /\ << >> \in Seq([at : Activities, for : Threads])
    /\ << >> \in Seq(Threads)
    /\ \A a \in Activities, t \in Threads :
           <<Handler(a, t)>> \in Seq([at : Activities, for : Threads])
  BY DEF Handler

LEMMA BecomeOf ==
    ASSUME Shapes, stack # << >>, NEW a \in Activities, Become(a)
    PROVE  /\ stack' # << >> /\ Head(stack').for = Head(stack).for
           /\ \A x : In(x)' <=> x = a
           /\ stack' \in Seq([at : Activities, for : Threads])
           /\ queue' = queue => Shapes'
<1>1. PICK t \in Threads : Head(stack).for = t /\ Tail(stack) = << >>
  BY WhoIsThere
<1>2. stack' = <<Handler(a, t)>>
  BY <1>1, OneHandler DEF Become
<1>3. stack' # << >> /\ Head(stack').for = t /\ Head(stack').at = a
  BY <1>2, OneHandler
<1>4. queue' = queue => Shapes'
  BY <1>2 DEF Shapes
<1>5. stack' \in Seq([at : Activities, for : Threads])
  BY <1>2, StackTypes
<1>6. QED
  BY <1>1, <1>3, <1>4, <1>5 DEF In

\* RunOne starts a handler only when the io thread is in none.
LEMMA RunOneKeeps ==
    ASSUME HandoffInv, RunOne
    PROVE  HandoffInv'
<1>1. PICK t \in Threads : queue = <<t>> /\ Head(queue) = t /\ Tail(queue) = << >>
  BY WhoIsThere, OnePosted DEF HandoffInv, RunOne
<1>2. stack = << >>
  BY DEF HandoffInv, PosterWaits, RunOne, Unflagged, In
<1>3. stack' = <<Handler("body", t)>> /\ queue' = << >>
  BY <1>1, <1>2, OneHandler DEF RunOne
<1>4. stack' # << >> /\ Head(stack').for = t /\ Head(stack').at = "body"
  BY <1>3, OneHandler
<1>5. ~In("cond")' /\ ~Unflagged' /\ ~In("cond") /\ ~Unflagged
  BY <1>2, <1>4 DEF In, Unflagged
<1>6. UNCHANGED <<pc, gil, traced, booting, ready, evaling, stopped, ended, wait>>
  BY DEF RunOne
<1>7. gil = t /\ pc[t] = "posted" /\ ready = {}
  BY <1>1 DEF HandoffInv, PosterWaits, AnsweredWaits
<1>8. Shapes'
  BY <1>3 DEF Shapes, Activities
<1>9. TypeOK'
<2>1. stack' \in Seq([at : Activities, for : Threads]) /\ queue' \in Seq(Threads)
  BY <1>3, StackTypes DEF Activities
<2>2. QED
  BY <1>6, <2>1 DEF HandoffInv, TypeOK
<1>10. RunnersHoldGil' /\ EvalingInConditions' /\ BodyOnlyOnIo'
  BY <1>5, <1>6 DEF HandoffInv, RunnersHoldGil, EvalingInConditions, BodyOnlyOnIo,
     RunsPython
<1>11. OwnerWaits' /\ PosterWaits' /\ AnsweredWaits'
  BY <1>3, <1>4, <1>5, <1>6, <1>7 DEF OwnerWaits, PosterWaits, AnsweredWaits, RunsPython
<1>12. PostedSomewhere'
  BY <1>1, <1>2, <1>3, <1>4, <1>6, <1>7 DEF HandoffInv, PostedSomewhere
<1>13. QED
  BY <1>8, <1>9, <1>10, <1>11, <1>12 DEF HandoffInv

\* Pass and LeaveInteraction: the thread that waited gets its answer.
LEMMA FinishKeeps ==
    ASSUME HandoffInv, Pass \/ LeaveInteraction
    PROVE  HandoffInv'
<1>1. stack # << >> /\ ~RunsPython
  BY DEF Pass, LeaveInteraction, In, RunsPython, Unflagged
<1>2. PICK t \in Threads : Head(stack).for = t /\ Tail(stack) = << >>
  BY <1>1, WhoIsThere DEF HandoffInv
<1>3. gil = t /\ pc[t] = "posted"
  BY <1>1, <1>2 DEF HandoffInv, OwnerWaits
<1>4. ready = {} /\ queue = << >>
  BY <1>1 DEF HandoffInv, AnsweredWaits, PosterWaits, RunsPython
<1>5. stack' = << >> /\ ready' = {t} /\ queue' = << >>
  BY <1>2, <1>4 DEF Pass, LeaveInteraction, Finish
<1>6. UNCHANGED <<pc, gil, traced, booting, evaling, stopped, ended, wait>>
  BY DEF Pass, LeaveInteraction
<1>7. ~In("cond")' /\ ~Unflagged'
  BY <1>5 DEF In, Unflagged
<1>8. Shapes'
  BY <1>5 DEF Shapes
<1>9. TypeOK'
<2>1. stack' \in Seq([at : Activities, for : Threads]) /\ queue' \in Seq(Threads)
  BY <1>5, StackTypes
<2>2. QED
  BY <1>5, <1>6, <2>1 DEF HandoffInv, TypeOK
<1>10. RunnersHoldGil' /\ EvalingInConditions' /\ BodyOnlyOnIo'
  BY <1>1, <1>6, <1>7 DEF HandoffInv, RunnersHoldGil, EvalingInConditions, BodyOnlyOnIo,
     RunsPython
<1>11. OwnerWaits' /\ PosterWaits' /\ AnsweredWaits'
  BY <1>3, <1>5, <1>6 DEF OwnerWaits, PosterWaits, AnsweredWaits
<1>12. PostedSomewhere'
  BY <1>2, <1>4, <1>5, <1>6 DEF HandoffInv, PostedSomewhere
<1>13. QED
  BY <1>8, <1>9, <1>10, <1>11, <1>12 DEF HandoffInv
\* The activity of the handler changes, and with it who has the GIL: its
\* thread, or the io thread while it runs Python.
Activity == \/ EvalCondition \/ CondDone \/ EvalValue \/ ValueDone
            \/ AwaitClient \/ ClientReady \/ Interact
            \/ TextRequest \/ TextDone \/ CodeRequest \/ CodeDone

\* From where to where: Python begins or ends on the io thread, or neither.
LEMMA ActivityMoves ==
    ASSUME TypeOK, EvalingInConditions, Activity
    PROVE  /\ stack # << >>
           /\ UNCHANGED <<pc, traced, booting, queue, ready, ended>>
           /\ stopped' \in BOOLEAN /\ wait' \in BOOLEAN
           /\ \E b \in Activities :
                  /\ Become(b) /\ evaling' = (b = "cond")
                  /\ \/ ~RunsPython /\ b \in {"cond", "value", "str", "run"} /\ gil' = Io
                     \/ /\ RunsPython /\ b \in {"body", "waiting", "nested"}
                        /\ gil = Io /\ gil' = Head(stack).for
                     \/ ~RunsPython /\ b \in {"waiting", "nested"} /\ gil' = gil
<1> USE DEF In, RunsPython, Unflagged, EvalingInConditions, TypeOK
<1>1. CASE EvalCondition \/ EvalValue \/ TextRequest \/ CodeRequest
  <2>1. PICK a \in {"body", "waiting", "nested"}, b \in {"cond", "value", "str", "run"} :
            Begin(a, b) /\ evaling' = (b = "cond")
    BY <1>1 DEF EvalCondition, EvalValue, TextRequest, CodeRequest, Begin
  <2>2. UNCHANGED <<pc, traced, booting, queue, ready, stopped, ended, wait>>
    BY <1>1 DEF EvalCondition, EvalValue, TextRequest, CodeRequest
  <2> QED
    BY <2>1, <2>2 DEF Begin, Activities
<1>2. CASE CondDone \/ ValueDone \/ TextDone \/ CodeDone
  <2>1. PICK a \in {"cond", "value", "str", "run"}, b \in {"body", "waiting", "nested"} :
            End(a, b) /\ evaling' = FALSE
    BY <1>2 DEF CondDone, ValueDone, TextDone, CodeDone, Loop, End
  <2>2. UNCHANGED <<pc, traced, booting, queue, ready, stopped, ended, wait>>
    BY <1>2 DEF CondDone, ValueDone, TextDone, CodeDone
  <2> QED
    BY <2>1, <2>2 DEF End, Activities
<1>3. CASE AwaitClient
  BY <1>3 DEF AwaitClient, Activities
<1>4. CASE ClientReady
  BY <1>4 DEF ClientReady, Activities
<1>5. CASE Interact
  BY <1>5 DEF Interact, Activities
<1> QED
  BY <1>1, <1>2, <1>3, <1>4, <1>5 DEF Activity

LEMMA ActivityKeeps ==
    ASSUME HandoffInv, Activity
    PROVE  HandoffInv'
<1>1. stack # << >>
  BY ActivityMoves DEF HandoffInv
<1>2. PICK t \in Threads : Head(stack).for = t
  BY <1>1, WhoIsThere DEF HandoffInv
<1>3. /\ UNCHANGED <<pc, traced, booting, queue, ready, ended>>
      /\ stopped' \in BOOLEAN /\ wait' \in BOOLEAN
  BY ActivityMoves DEF HandoffInv
<1>4. pc[t] = "posted" /\ t \notin ready /\ ready = {}
  BY <1>1, <1>2 DEF HandoffInv, OwnerWaits, AnsweredWaits
\* before and after the step the GIL is at the handler's thread or the io thread
<1>5. gil = t \/ gil = Io
  BY <1>1, <1>2, ActivityMoves DEF HandoffInv, OwnerWaits
<1>6. queue = << >> /\ \A u \in Threads : pc[u] \notin {"python", "tracing", "inline"}
  <2>1. queue = << >>
    <3>1. CASE gil = Io
      BY <3>1, NameAssumption, WhoIsThere DEF HandoffInv, PosterWaits
    <3>2. CASE gil = t
      BY <1>1, <1>2, <3>2 DEF HandoffInv, PosterWaits, OwnerWaits, RunsPython
    <3> QED
      BY <1>5, <3>1, <3>2
  <2> QED
    BY <1>5, <2>1, <1>4, NameAssumption DEF HandoffInv, RunnersHoldGil
<1>13. PICK b \in Activities :
          /\ Become(b)
          /\ gil' = IF b \in {"cond", "value", "str", "run"} THEN Io ELSE t
          /\ evaling' = (b = "cond")
  BY <1>1, <1>2, ActivityMoves DEF HandoffInv, OwnerWaits
<1>7. /\ stack' # << >> /\ Head(stack').for = t
      /\ \A x : In(x)' <=> x = b
      /\ stack' \in Seq([at : Activities, for : Threads])
      /\ Shapes'
  BY <1>1, <1>2, <1>3, <1>13, BecomeOf DEF HandoffInv
<1>8. TypeOK'
  BY <1>3, <1>13, <1>7 DEF HandoffInv, TypeOK
<1>9. RunnersHoldGil' /\ EvalingInConditions' /\ BodyOnlyOnIo'
  BY <1>3, <1>6, <1>13, <1>7, NameAssumption
  DEF HandoffInv, RunnersHoldGil, EvalingInConditions, BodyOnlyOnIo, RunsPython, Unflagged
<1>10. OwnerWaits'
  BY <1>3, <1>4, <1>13, <1>7, NameAssumption DEF OwnerWaits, RunsPython, Unflagged
<1>11. PosterWaits' /\ AnsweredWaits' /\ PostedSomewhere'
  BY <1>1, <1>2, <1>3, <1>4, <1>6, <1>7
  DEF HandoffInv, PosterWaits, AnsweredWaits, PostedSomewhere
<1>12. QED
  BY <1>7, <1>8, <1>9, <1>10, <1>11 DEF HandoffInv

LEMMA GilKeeps ==
    ASSUME HandoffInv,
           EnableTrace \/ RunsOut \/ ResumeRequest \/ IoGiveGil \/ IoTakeGil \/ UNCHANGED vars
    PROVE  HandoffInv'
<1>1. UNCHANGED <<pc, queue, stack, ready, evaling>>
  BY DEF EnableTrace, RunsOut, ResumeRequest, IoGiveGil, IoTakeGil, ioVars, vars
<1>2. /\ In("cond")' <=> In("cond")
      /\ Unflagged' <=> Unflagged
  BY <1>1 DEF In, Unflagged
<1>3. \/ gil' = gil
      \/ {gil, gil'} = {Io, Free} /\ RunsPython
  BY DEF EnableTrace, RunsOut, ResumeRequest, IoGiveGil, IoTakeGil, ioVars, vars,
     RunsPython, HandoffInv, RunnersHoldGil
<1>4. stack # << >> => Head(stack).for \in Threads
  BY WhoIsThere DEF HandoffInv
<1>5. queue # << >> => Head(queue) \in Threads
  BY WhoIsThere DEF HandoffInv
<1>6. TypeOK' /\ Shapes'
  BY <1>1, <1>3, MainAssumption DEF HandoffInv, TypeOK, Shapes, EnableTrace, RunsOut,
     ResumeRequest, IoGiveGil, IoTakeGil, ioVars, vars
<1>7. RunnersHoldGil' /\ EvalingInConditions' /\ BodyOnlyOnIo'
  BY <1>1, <1>2, <1>3, NameAssumption
  DEF HandoffInv, RunnersHoldGil, EvalingInConditions, BodyOnlyOnIo, RunsPython
<1>8. OwnerWaits'
  BY <1>1, <1>2, <1>3, <1>4, NameAssumption DEF HandoffInv, OwnerWaits, RunsPython
<1>9. PosterWaits'
  BY <1>1, <1>2, <1>3, <1>5, NameAssumption DEF HandoffInv, PosterWaits
<1>10. AnsweredWaits' /\ PostedSomewhere'
  BY <1>1, <1>3, NameAssumption DEF HandoffInv, TypeOK, AnsweredWaits, PostedSomewhere
<1>11. QED
  BY <1>6, <1>7, <1>8, <1>9, <1>10 DEF HandoffInv

-----------------------------------------------------------------------------
\* The invariant holds of every behaviour.
LEMMA HandoffIsInvariant == Spec => []HandoffInv
<1>1. Init => HandoffInv
  BY InitHolds
<1>2. HandoffInv /\ [Next]_vars => HandoffInv'
<2> SUFFICES ASSUME HandoffInv, [Next]_vars PROVE HandoffInv'
  OBVIOUS
<2>1. CASE PythonStep
  BY <2>1, PythonStepKeeps, DispatchKeeps DEF PythonStep
<2>2. CASE EnableTrace \/ Finalize
  BY <2>2, GilKeeps, FinalizeKeeps
<2>3. CASE IoStep
  BY <2>3, RunOneKeeps, FinishKeeps, ActivityKeeps, GilKeeps DEF IoStep, Spin, Activity
<2>4. CASE UNCHANGED vars
  BY <2>4, GilKeeps
<2>5. QED
  BY <2>1, <2>2, <2>3, <2>4 DEF Next
<1>3. QED
  BY <1>1, <1>2, PTL DEF Spec
LEMMA Lengths ==
    ASSUME Shapes
    PROVE  /\ Len(stack) \in {0, 1} /\ (stack = << >> => Len(stack) = 0)
           /\ Len(queue) \in {0, 1} /\ (queue = << >> => Len(queue) = 0)
<1>1. Len(stack) \in {0, 1} /\ (stack = << >> => Len(stack) = 0)
<2>1. CASE stack = << >>
  BY <2>1
<2>2. CASE \E a \in Activities, t \in Threads : stack = <<Handler(a, t)>>
<3>1. PICK a \in Activities, t \in Threads : stack = <<Handler(a, t)>>
  BY <2>2
<3>2. Len(stack) = 1 /\ stack # << >>
  BY <3>1, OneHandler
<3>3. QED
  BY <3>2
<2>3. QED
  BY <2>1, <2>2 DEF Shapes
<1>2. Len(queue) \in {0, 1} /\ (queue = << >> => Len(queue) = 0)
  BY OnePosted DEF Shapes
<1>3. QED
  BY <1>1, <1>2

\* Every variable of the hand-off keeps its type.
THEOREM HandoffTypes == Spec => []TypeOK
  BY HandoffIsInvariant, PTL DEF HandoffInv

\* No dispatch_* function ever runs on a Python thread: an event let in without
\* a post meets _evaling still set in bdb::trace_dispatch (bdb.cpp:234).
THEOREM BdbIsTouchedByIoOnly == Spec => []BodyOnlyOnIo
  BY HandoffIsInvariant, PTL DEF HandoffInv

\* No event is dispatched inside the loops of user_entry and interaction(),
\* whatever Python is run there (debugger.cpp:70 and 155).
THEOREM NothingNested == Spec => []NoNestedDispatch
<1>1. Shapes => NoNestedDispatch
  <2>1. \A n \in {0, 1} : n <= 1
    OBVIOUS
  <2> QED
    BY <2>1, Lengths DEF NoNestedDispatch
<1>2. HandoffInv => Shapes
  BY DEF HandoffInv
<1>3. QED
  BY <1>1, <1>2, HandoffIsInvariant, PTL

\* Events are handled one at a time, but for one that is posted while Python
\* runs for the event in hand without _evaling (bdb.cpp:400, debugger.cpp:120).
THEOREM OneEvent == Spec => []OneEventAtATime
<1>1. HandoffInv => OneEventAtATime
  <2> SUFFICES ASSUME HandoffInv
               PROVE  /\ Len(stack) + Len(queue) <= 2
                      /\ Len(stack) + Len(queue) = 2 => Unflagged
    BY DEF OneEventAtATime
  <2>1. /\ Len(stack) \in {0, 1} /\ (stack = << >> => Len(stack) = 0)
        /\ Len(queue) \in {0, 1} /\ (queue = << >> => Len(queue) = 0)
    BY Lengths DEF HandoffInv
  <2>2. \A m, n \in {0, 1} : m + n <= 2 /\ (m + n = 2 => m # 0 /\ n # 0)
    OBVIOUS
  <2>3. stack # << >> /\ queue # << >> => Unflagged
    BY DEF HandoffInv, PosterWaits
  <2> QED
    BY <2>1, <2>2, <2>3
<1> QED
  BY <1>1, HandoffIsInvariant, PTL

\* While the io thread is in a dispatch_* function, in the loop of user_entry or
\* in that of interaction(), and runs no Python, no other thread does, so that
\* the stacks it walks stand still.
THEOREM StacksStandStill == Spec => []OthersStandStill
<1>1. HandoffInv => OthersStandStill
  <2> SUFFICES ASSUME HandoffInv, In("body") \/ In("waiting") \/ In("nested"),
                      NEW t \in Threads, pc[t] \in {"python", "tracing", "inline"}
               PROVE  FALSE
    BY DEF OthersStandStill
  <2>1. stack # << >> /\ ~RunsPython
    BY DEF In, RunsPython, Unflagged
  <2> QED
    BY <2>1, RunnerIsAlone
<1> QED
  BY <1>1, HandoffIsInvariant, PTL

\* What _evaling is for (debugger.cpp:8): as long as it is set, no thread waits,
\* with the GIL, for an io thread that needs it.  Only Python that the debugger
\* runs without it can deadlock, as the run repl shows.
THEOREM ConditionsNeverDeadlock == Spec => [](GilDeadlock => ~evaling /\ Unflagged)
<1>1. HandoffInv => (GilDeadlock => ~evaling /\ Unflagged)
  <2> SUFFICES ASSUME HandoffInv, In("cond") \/ Unflagged, NEW t \in Threads,
                      gil = t, pc[t] = "posted"
               PROVE  ~evaling /\ Unflagged
    BY DEF GilDeadlock, RunsPython
  <2>1. stack # << >> /\ RunsPython
    BY DEF In, RunsPython, Unflagged
  <2>2. ready = {} /\ Head(stack).for # t
    BY <2>1 DEF HandoffInv, AnsweredWaits, OwnerWaits
  <2>3. queue # << >>
    BY <2>2, OnePosted DEF HandoffInv, PostedSomewhere
  <2>4. Unflagged
    BY <2>1, <2>3 DEF HandoffInv, PosterWaits
  <2> QED
    BY <2>4 DEF HandoffInv, EvalingInConditions, Unflagged, In
<1> QED
  BY <1>1, HandoffIsInvariant, PTL
=============================================================================
