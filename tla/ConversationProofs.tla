------------------------- MODULE ConversationProofs -------------------------
(***************************************************************************)
(* The conversation is a refinement in two directions: its steps are steps *)
(* of Debugger.tla, so that what is proved there holds here as well, and   *)
(* it implements what a client may believe (ClientView.tla).  The second   *)
(* needs one invariant: a client that was told of a stop last finds the    *)
(* program stopped.                                                        *)
(***************************************************************************)
EXTENDS Conversation, DebuggerProofs

\* What the last message says is true.
Believed == heard = "stopped" => IsStopped

-----------------------------------------------------------------------------
(* Steps of the debugger *)

LEMMA ConversationSteps == ConversationNext => [Next]_vars
<1> SUFFICES ASSUME ConversationNext PROVE [Next]_vars
  OBVIOUS
<1>1. CASE crashed /\ UNCHANGED allVars
  BY <1>1 DEF allVars
<1>2. CASE ~crashed /\ (PythonEvent \/ UnprintableException)
  BY <1>2 DEF PythonEvent, UnprintableException, ExceptionEvent, Texts, TraceEvent, Next
<1>3. CASE ~crashed /\ (ConditionDone \/ Entry \/ Released \/ Unasked \/ Output)
  BY <1>3 DEF ConditionDone, Entry, Released, Unasked, Output, Next
<1>4. CASE ~crashed /\ (ResumeRequest \/ SetRequest)
  BY <1>4 DEF ResumeRequest, SetRequest, RequestStep, Next
<1>5. CASE ~crashed /\ (Arrive \/ Ask \/ DisconnectRequest \/ UnknownRequest \/ BadPacketRead)
  BY <1>5 DEF Arrive, Ask, DisconnectRequest, UnknownRequest, BadPacketRead, RequestStep, Next
<1>6. CASE ~crashed /\ (Sent \/ NewClient \/ PeerGone)
  BY <1>6 DEF Sent, NewClient, PeerGone, RequestStep, Next
<1> QED
  BY <1>1, <1>2, <1>3, <1>4, <1>5, <1>6 DEF ConversationNext, Served

\* Every behaviour of the conversation is one of the debugger.
THEOREM ConversationIsDebugger == ConversationSpec => Spec
<1>1. ConversationInit => Init
  BY DEF ConversationInit
<1>2. [ConversationNext]_allVars => [Next]_vars
  BY ConversationSteps DEF allVars
<1> QED
  BY <1>1, <1>2, PTL DEF ConversationSpec, Spec

-----------------------------------------------------------------------------
(* What steps do to the link and to the stop *)

\* A stop or the end of a condition: the link is not touched, and nothing was
\* stopped before.
LEMMA EventsStop ==
    ASSUME PythonEvent \/ UnprintableException \/ ConditionDone \/ Entry
    PROVE  ~IsStopped /\ link' = link
<1>1. CASE PythonEvent \/ UnprintableException
  BY <1>1 DEF PythonEvent, UnprintableException, CallEvent, LineEvent, ReturnEvent, Call, Line,
              Return, Exception, Idle, IsStopped, linkVars
<1>2. CASE ConditionDone
  BY <1>2 DEF ConditionDone, EvalEnds, EvalDone, IsStopped, linkVars
<1>3. CASE Entry
  BY <1>3 DEF Entry, EntryReady, IsStopped, linkVars
<1> QED
  BY <1>1, <1>2, <1>3

\* What neither stops nor releases anything, and leaves the link alone.
LEMMA QuietSteps ==
    ASSUME Released \/ Unasked \/ Output \/ SetRequest
               \/ Arrive \/ Ask \/ DisconnectRequest \/ UnknownRequest
    PROVE  IsStopped' = IsStopped /\ UNCHANGED <<link, heard>>
<1>1. CASE Released
  BY <1>1 DEF Released, Resume, IsStopped, NoJob, linkVars
<1>2. CASE Unasked
  BY <1>2 DEF Unasked, Spawn, ThreadStart, BypassedEvent, BypassedCall, BypassedLine,
              BypassedReturn, IsStopped, linkVars
<1>3. CASE Output
  BY <1>3 DEF Output, LogFails, IsStopped, linkVars
<1>4. CASE SetRequest
  BY <1>4 DEF SetRequest, Silent, Pause, ConfigurationDone, SetBreakpoints,
              SetExceptionBreakpoints, IsStopped, linkVars
<1>5. CASE Arrive \/ Ask \/ DisconnectRequest \/ UnknownRequest
  BY <1>5 DEF Arrive, Ask, DisconnectRequest, UnknownRequest, vars, linkVars, IsStopped
<1> QED
  BY <1>1, <1>2, <1>3, <1>4, <1>5

\* A client comes or goes: the stop stays as it is.
LEMMA LinkSteps ==
    ASSUME BadPacketRead \/ Sent \/ NewClient \/ PeerGone
    PROVE  IsStopped' = IsStopped
BY DEF BadPacketRead, BadPacket, Sent, Disconnect, NewClient, Connect, PeerGone, LoseClient,
       IsStopped, vars

\* A resume request releases the program.
LEMMA ResumeReleases ==
    ASSUME TypeOK, ResumeRequest
    PROVE  ~IsStopped' /\ link = "open" /\ link' = "open" /\ heard' = "running"
BY DEF TypeOK, endTypes, Jobs, ResumeRequest, Serve, Continue, Next_, StepIn, StepOut, Release,
       IsStopped, linkVars

-----------------------------------------------------------------------------
LEMMA BelievedStep ==
    ASSUME TypeOK, Believed, [ConversationNext]_allVars
    PROVE  Believed'
<1>1. CASE UNCHANGED allVars
  BY <1>1 DEF Believed, IsStopped, allVars, vars
<1>2. CASE PythonEvent \/ ConditionDone \/ Entry
  BY <1>2, EventsStop DEF PythonEvent, ConditionDone, Entry, StoppedEvent, Believed
<1>3. CASE UnprintableException
  BY <1>3, EventsStop DEF UnprintableException, Silent, Believed
<1>4. CASE Released \/ Unasked \/ Output \/ SetRequest \/ Arrive \/ Ask
               \/ DisconnectRequest \/ UnknownRequest
  BY <1>4, QuietSteps DEF Believed
<1>5. CASE ResumeRequest
  BY <1>5, ResumeReleases DEF Believed
<1>6. CASE BadPacketRead \/ Sent \/ NewClient \/ PeerGone
  BY <1>6, LinkSteps DEF BadPacketRead, Sent, NewClient, PeerGone, Believed
<1> QED
  BY <1>1, <1>2, <1>3, <1>4, <1>5, <1>6 DEF ConversationNext, Served

LEMMA TypesAlways == ConversationSpec => []TypeOK
BY ConversationIsDebugger, TypeCorrect, PTL

LEMMA BelievedAlways == ConversationSpec => []Believed
<1>1. ConversationInit => Believed
  BY DEF ConversationInit, Believed
<1> QED
  BY <1>1, BelievedStep, TypesAlways, PTL DEF ConversationSpec

\* The client's view and what the session is sending keep their types.
THEOREM ConversationTypes == ConversationSpec => []ConversationTypeOK
<1> USE DEF ConversationTypeOK
<1>1. ConversationInit => ConversationTypeOK
  BY DEF ConversationInit
<1>2. ASSUME ConversationTypeOK, [ConversationNext]_allVars
      PROVE  ConversationTypeOK'
  <2>1. CASE UNCHANGED allVars
    BY <1>2, <2>1 DEF allVars
  <2>2. CASE PythonEvent \/ UnprintableException \/ ConditionDone \/ Entry
    BY <1>2, <2>2 DEF PythonEvent, UnprintableException, ConditionDone, Entry, StoppedEvent, Silent
  <2>3. CASE Released \/ Unasked \/ Output \/ NewClient \/ PeerGone \/ Sent
    BY <1>2, <2>3 DEF Released, Unasked, Output, NewClient, PeerGone, Sent
  <2>4. CASE ResumeRequest \/ SetRequest \/ Arrive \/ Ask \/ DisconnectRequest
                \/ UnknownRequest \/ BadPacketRead
    BY <1>2, <2>4 DEF ResumeRequest, SetRequest, Arrive, Ask, DisconnectRequest,
                UnknownRequest, BadPacketRead, Serve, Silent
  <2> QED
    BY <1>2, <2>1, <2>2, <2>3, <2>4 DEF ConversationNext, Served
<1> QED
  BY <1>1, <1>2, PTL DEF ConversationSpec

-----------------------------------------------------------------------------
(* The refinement *)

ViewStep == [View!Next]_<<link = "open", IsStopped, link = "open" /\ heard = "stopped">>

LEMMA ViewSteps ==
    ASSUME TypeOK, Believed, [ConversationNext]_allVars
    PROVE  ViewStep
<1>1. CASE UNCHANGED allVars
  BY <1>1 DEF ViewStep, IsStopped, allVars, vars, linkVars
<1>2. CASE PythonEvent \/ ConditionDone \/ Entry
  <2>1. StoppedEvent
    BY <1>2 DEF PythonEvent, ConditionDone, Entry
  <2>2. ~IsStopped /\ link' = link
    BY <1>2, EventsStop
  <2>3. CASE IsStopped'
    <3>1. View!Announce
      BY <2>1, <2>2, <2>3 DEF StoppedEvent, View!Announce
    <3> QED
      BY <3>1 DEF ViewStep, View!Next
  <2>4. CASE ~IsStopped'
    BY <2>1, <2>2, <2>4 DEF StoppedEvent, ViewStep, IsStopped
  <2> QED
    BY <2>3, <2>4
<1>3. CASE UnprintableException
  <2>1. ~IsStopped /\ link' = link /\ heard' = heard
    BY <1>3, EventsStop DEF UnprintableException, Silent
  <2> QED
    BY <2>1 DEF ViewStep, View!Next, View!Hush, IsStopped
<1>4. CASE Released \/ Unasked \/ Output \/ SetRequest \/ Arrive \/ Ask
               \/ DisconnectRequest \/ UnknownRequest
  BY <1>4, QuietSteps DEF ViewStep
<1>5. CASE ResumeRequest
  BY <1>5, ResumeReleases DEF Believed, ViewStep, View!Next, View!Answer, IsStopped
<1>6. CASE BadPacketRead \/ Sent \/ NewClient \/ PeerGone
  <2>1. IsStopped' = IsStopped
    BY <1>6, LinkSteps
  <2>2. CASE NewClient
    BY <2>1, <2>2 DEF NewClient, Connect, ViewStep, View!Next, View!Join
  <2>3. CASE BadPacketRead \/ Sent \/ PeerGone
    <3>1. heard' = heard /\ (link' = link \/ link' \in {"lost", "closed", "deaf"})
      BY <2>3 DEF BadPacketRead, BadPacket, Sent, Disconnect, PeerGone, LoseClient, vars, linkVars
    <3> QED
      BY <2>1, <3>1 DEF ViewStep, View!Next, View!Leave
  <2> QED
    BY <1>6, <2>2, <2>3
<1> QED
  BY <1>1, <1>2, <1>3, <1>4, <1>5, <1>6 DEF ConversationNext, Served

\* The session and the nested loops implement what a client may believe.
THEOREM ClientsMayBelieve == ConversationSpec => ClientBelief
<1>1. ConversationInit => View!Init
  BY DEF ConversationInit, Init, NoJob, IsStopped, View!Init
<1>2. TypeOK /\ Believed /\ [ConversationNext]_allVars => ViewStep
  BY ViewSteps
<1> QED
  BY <1>1, <1>2, BelievedAlways, TypesAlways, PTL DEF ConversationSpec, ClientBelief, View!Spec, ViewStep
=============================================================================
