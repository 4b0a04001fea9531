---------------------------- MODULE Conversation ----------------------------
(***************************************************************************)
(* The debugger as its client sees it: the session reads the next request  *)
(* only when the handler of the last one has sent its response, events are *)
(* sent from the trace calls in between, and a new client starts with      *)
(* nothing (debugger_session.cpp, debugger::run in debugger.cpp).          *)
(*                                                                         *)
(* Every step is a step of Debugger.tla, or leaves its variables alone;    *)
(* the variables added here say what the client was told last, whether it  *)
(* has sent a request that nobody has read yet, and what the session is    *)
(* sending.                                                                *)
(***************************************************************************)
EXTENDS Debugger

VARIABLES
    heard,     \* what the last message about the state told this client
    unread,    \* has the client sent a request that is not read yet?
    sending    \* what the coroutine of the session is sending

allVars == <<vars, heard, unread, sending>>

ConversationInit ==
    /\ Init
    /\ heard = "nothing"
    /\ unread = FALSE
    /\ sending = "nothing"

-----------------------------------------------------------------------------
(* Events, sent by send_sync: the message is on its way before the nested    *)
(* loop of interaction() starts.                                             *)

\* mutant of StoppedEvent: nothing is sent while a response is under way
StoppedEvent_Skip ==
    heard' = IF IsStopped' /\ ~IsStopped /\ sending = "nothing" THEN "stopped" ELSE heard

\* send_entry, send_step or send_exception, if the event stopped
StoppedEvent == heard' = IF IsStopped' /\ ~IsStopped THEN "stopped" ELSE heard

Silent == UNCHANGED heard

PythonEvent ==
    /\ \/ CallEvent \/ LineEvent \/ ReturnEvent
       \/ \E t \in Threads, type \in {"caught", "uncaught"}, text \in {"utf8", "bytes"} :
              Exception(t, type, text)
    /\ StoppedEvent
    /\ UNCHANGED <<unread, sending>>

\* user_exception has no text to send, and stops without a message
UnprintableException ==
    /\ \E t \in Threads, type \in {"caught", "uncaught"} : Exception(t, type, "none")
    /\ Silent
    /\ UNCHANGED <<unread, sending>>

ConditionDone == EvalEnds /\ StoppedEvent /\ UNCHANGED <<unread, sending>>
Entry         == EntryReady /\ StoppedEvent /\ UNCHANGED <<unread, sending>>

\* host.logWrite, redirected output and setHostModule send messages that say
\* nothing of the state; they only matter when the send throws
Output   == LogFails /\ UNCHANGED <<heard, unread, sending>>
Released == Resume /\ UNCHANGED <<heard, unread, sending>>
Unasked  == (Spawn \/ BypassedEvent) /\ UNCHANGED <<heard, unread, sending>>

-----------------------------------------------------------------------------
(* Requests.  One may come at any time, also while a condition is evaluated; *)
(* what it asks for shows when it is read.  A handler starts to send before  *)
(* it returns to the io_context, so that its response is on the wire before  *)
(* any event that follows.                                                   *)

\* One at a time; PacketReader.tla has the stream of them.
Arrive ==
    /\ link = "open" /\ ~unread
    /\ unread' = TRUE
    /\ UNCHANGED <<vars, heard, sending>>

Serve(answer) ==
    /\ link = "open" /\ Listening
    /\ unread /\ unread' = FALSE
    /\ sending = "nothing" /\ sending' = answer

ResumeRequest ==
    /\ Serve("response")
    /\ Continue \/ Next_ \/ StepIn \/ StepOut
    /\ heard' = "running"

SetRequest ==
    /\ Serve("response")
    /\ \/ Pause \/ ConfigurationDone
       \/ \E g \in Files, m \in [Lines -> LineBreaks] : SetBreakpoints(g, m)
       \/ \E mode \in ExceptionModes : SetExceptionBreakpoints(mode)
    /\ Silent

\* attach, threads, evaluate and the requests of SessionRefs.tla: only a
\* response, which the event "initialized" follows for initialize
Ask == Serve("response") /\ UNCHANGED <<vars, heard>>

\* the socket is closed when the response was sent
DisconnectRequest == Serve("goodbye") /\ UNCHANGED <<vars, heard>>

\* a request with an unknown command gets no response at all
UnknownRequest == Serve("nothing") /\ UNCHANGED <<vars, heard>>

\* an empty packet, one that is not JSON, or a handler that throws, because
\* something is missing in the request or the response is not UTF-8
BadPacketRead == Serve("nothing") /\ BadPacket /\ UNCHANGED heard

\* the send of the coroutine is done
Sent ==
    /\ link = "open" /\ Listening
    /\ \/ /\ sending = "goodbye"
          /\ Disconnect
          /\ sending' = "nothing"
       \/ /\ sending = "response"
          /\ UNCHANGED vars
          /\ sending' = "nothing"
    /\ UNCHANGED <<heard, unread>>

Served == ResumeRequest \/ SetRequest \/ Ask
              \/ DisconnectRequest \/ UnknownRequest \/ BadPacketRead

-----------------------------------------------------------------------------
\* run() notices the lost peer, in a read or in the send it waits for, ends,
\* and the next client is accepted
NewClient ==
    /\ Connect
    /\ heard' = "nothing"
    /\ unread' = FALSE
    /\ sending' = "nothing"

PeerGone == LoseClient /\ UNCHANGED <<heard, unread, sending>>

ConversationNext ==
    \/ /\ ~crashed
       /\ \/ PythonEvent \/ UnprintableException \/ ConditionDone \/ Entry
          \/ Released \/ Unasked \/ Output
          \/ Arrive \/ Served \/ Sent
          \/ NewClient \/ PeerGone
    \/ crashed /\ UNCHANGED allVars

ConversationSpec == ConversationInit /\ [][ConversationNext]_allVars

\* Python keeps running its program, and the condition of a breakpoint ends.
\* The io thread leaves a nested loop whose condition is false, and takes its
\* handlers in turn, so that a packet that is there is read, and a send that is
\* done is noticed, although trace events keep coming; the peer reads what it is
\* sent, or goes away.
ConversationFairness ==
    /\ WF_allVars(~crashed /\ (PythonEvent \/ UnprintableException))
    /\ WF_allVars(~crashed /\ ConditionDone)
    /\ SF_allVars(~crashed /\ Served) /\ SF_allVars(~crashed /\ Sent)
    /\ WF_allVars(~crashed /\ Released) /\ WF_allVars(~crashed /\ Entry)
LiveConversation == ConversationSpec /\ ConversationFairness

-----------------------------------------------------------------------------
ConversationTypeOK ==
    /\ heard \in {"nothing", "stopped", "running"}
    /\ unread \in BOOLEAN
    /\ sending \in {"nothing", "response", "goodbye"}

\* What a client may believe (ClientView.tla): the session and the nested loops
\* implement it.
View == INSTANCE ClientView WITH
            client <- link = "open",
            held   <- IsStopped,
            told   <- link = "open" /\ heard = "stopped"
ClientBelief == View!Spec

\* A client that is configured while the first call waits for it is told of
\* the entry, unless it, or the process, is gone before.
EntryTold ==
    (job.phase = "entry" /\ configured /\ link = "open")
        ~> (heard = "stopped" \/ link # "open" \/ crashed)

\* A request is read, whenever it comes: while an event is stopped or waits for
\* a client, because the nested loops go on serving the socket, and while a
\* condition is evaluated, afterwards.  And the answer that its handler begins
\* is sent.  (An unknown command has none.)
RequestsServed ==
    /\ (unread /\ link = "open") ~> (~unread \/ link # "open" \/ crashed)
    /\ (sending # "nothing" /\ link = "open")
           ~> (sending = "nothing" \/ link # "open" \/ crashed)

\* A pause, or a step in, stops some thread at its next event, or another
\* command takes it back.  (While the first call still waits for a client to be
\* configured, only that client can end the wait.)
PauseStops == (Idle /\ step /\ ~wait) ~> (IsStopped \/ ~step \/ crashed)
=============================================================================
