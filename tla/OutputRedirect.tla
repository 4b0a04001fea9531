--------------------------- MODULE OutputRedirect ---------------------------
(***************************************************************************)
(* class output_redirect (debug-dll/output_redirect.cpp): stdout is        *)
(* replaced by the write end of a pipe, a reader thread cuts what arrives  *)
(* into lines and hands each to the callback, which may forward it to the  *)
(* real stdout (output_callback in main.cpp), and stop() puts stdout back. *)
(*                                                                         *)
(* Three parties interleave: the threads that print, the reader, and the   *)
(* thread that runs start() and, from the destructor, stop().              *)
(***************************************************************************)
EXTENDS Naturals, Sequences

CONSTANTS
    PipeSize,    \* what the pipe holds (4096 bytes in the code)
    ReadSize,    \* what one read() takes at most (4096 bytes as well)
    MaxWritten   \* bound: characters printed in all

ASSUME SizeAssumption == PipeSize \in Nat \ {0} /\ ReadSize \in Nat \ {0}
                         /\ MaxWritten \in Nat

VARIABLES
    phase,      \* the thread that runs start() and stop()
    out,        \* what the descriptor of stdout refers to
    fds,        \* the members that are not -1
    open,       \* the descriptors that are open
    stopping,   \* the stop_token of _reader
    reader,     \* where the reader thread is
    pipe,       \* characters in the pipe
    line,       \* characters of the line being put together
    delivered,  \* history: what was given to the callback
    written,    \* history: what was printed while stdout was the pipe
    misclosed,  \* history: some close() named a descriptor that was not open
    astray      \* history: some forwarded line went to no open descriptor

ownVars  == <<phase, fds, stopping>>
pipeVars == <<pipe, line, delivered, written>>
vars == <<ownVars, out, open, reader, pipeVars, misclosed, astray>>

Char == {"x", "nl"}

Init ==
    /\ phase = "new"
    /\ out = "console"
    /\ fds = {} /\ open = {}
    /\ stopping = FALSE
    /\ reader = "none"
    /\ pipe = << >> /\ line = << >> /\ delivered = << >> /\ written = << >>
    /\ misclosed = FALSE /\ astray = FALSE

-----------------------------------------------------------------------------
\* mutant of Start: the alias is given back once stdout is the pipe
Start_NoAlias ==
    /\ phase = "new"
    /\ phase' = "started"
    /\ fds' = {"write", "read"}
    /\ open' = {"write", "read"}
    /\ out' = "pipe"
    /\ reader' = "test"
    /\ UNCHANGED <<stopping, pipeVars, misclosed, astray>>

Start ==
    /\ phase = "new"
    /\ phase' = "started"
    /\ fds' = {"alias", "write", "read"}
    /\ open' = {"alias", "write", "read"}
    /\ out' = "pipe"
    /\ reader' = "test"
    /\ UNCHANGED <<stopping, pipeVars, misclosed, astray>>

\* stdout has no descriptor: start() returns false, which main.cpp does not look
\* at, and the stop() of the destructor finds nothing to do
NotRedirected ==
    /\ phase = "new"
    /\ phase' = "refused"
    /\ UNCHANGED <<fds, stopping, out, open, reader, pipeVars, misclosed, astray>>

\* A step of start() fails: dup, pipe, dup2 or setvbuf.  Every failure calls
\* _err_callback, which main.cpp never sets, and so leaves start() with an
\* exception that nobody catches.
StartFails(left) ==
    /\ phase = "new"
    /\ phase' = "thrown"
    /\ fds' = left.fds /\ open' = left.open /\ out' = left.out
    /\ UNCHANGED <<stopping, reader, pipeVars, misclosed, astray>>

Leftovers == LET all == {"alias", "write", "read"}
             IN  {[fds |-> {}, open |-> {}, out |-> "console"],           \* dup
                  [fds |-> {"alias"}, open |-> {}, out |-> "console"],    \* pipe
                  [fds |-> all, open |-> all, out |-> "console"],         \* dup2
                  [fds |-> all, open |-> all, out |-> "pipe"]}            \* setvbuf

Close(fd) ==
    /\ misclosed' = (misclosed \/ fd \notin open)
    /\ open' = open \ {fd}

-----------------------------------------------------------------------------
(* stop(), in the order of the code *)

StopStep(from, to) == phase = from /\ phase' = to

RequestStop ==
    /\ StopStep("started", "closing write")
    /\ stopping' = TRUE
    /\ UNCHANGED <<out, fds, open, reader, pipeVars, misclosed, astray>>

CloseWrite ==
    /\ StopStep("closing write", "restoring")
    /\ Close("write")
    /\ fds' = fds \ {"write"}
    /\ UNCHANGED <<out, stopping, reader, pipeVars, astray>>

\* mutant of Restore: stdout keeps the pipe open
Restore_Skip ==
    /\ StopStep("restoring", "closing alias")
    /\ UNCHANGED <<out, fds, open, stopping, reader, pipeVars, misclosed, astray>>

\* dup2: the last write end of the pipe is gone
Restore ==
    /\ StopStep("restoring", "closing alias")
    /\ out' = "console"
    /\ UNCHANGED <<fds, open, stopping, reader, pipeVars, misclosed, astray>>

CloseAlias ==
    /\ StopStep("closing alias", "joining")
    /\ Close("alias")
    /\ fds' = fds \ {"alias"}
    /\ UNCHANGED <<out, stopping, reader, pipeVars, astray>>

Join ==
    /\ StopStep("joining", "joined")
    /\ reader = "ended"
    /\ UNCHANGED <<out, fds, open, stopping, reader, pipeVars, misclosed, astray>>

CloseRead ==
    /\ StopStep("joined", "stopped")
    /\ IF "read" \in fds THEN Close("read") ELSE UNCHANGED <<open, misclosed>>
    /\ fds' = fds \ {"read"}
    /\ UNCHANGED <<out, stopping, reader, pipeVars, astray>>

Stop == RequestStop \/ CloseWrite \/ Restore \/ CloseAlias \/ Join \/ CloseRead

-----------------------------------------------------------------------------
(* Printing threads.  A write blocks while the pipe is full. *)

Write(c) ==
    /\ phase # "thrown"
    /\ out = "pipe" /\ "read" \in open
    /\ Len(written) < MaxWritten
    /\ Len(pipe) < PipeSize
    /\ pipe' = Append(pipe, c)
    /\ written' = Append(written, c)
    /\ UNCHANGED <<ownVars, out, open, reader, line, delivered, misclosed, astray>>

-----------------------------------------------------------------------------
(* The reader thread *)

\* while (!token.stop_requested())
Test ==
    /\ reader = "test"
    /\ reader' = IF stopping THEN "closing" ELSE "reading"
    /\ UNCHANGED <<ownVars, out, open, pipeVars, misclosed, astray>>

\* mutant of Read: the line buffer is emptied before every read
Read_FreshLine(n) ==
    /\ reader = "reading"
    /\ n \in 1..Len(pipe) /\ n <= ReadSize
    /\ line' = SubSeq(pipe, 1, n)
    /\ pipe' = SubSeq(pipe, n + 1, Len(pipe))
    /\ reader' = "lines"
    /\ UNCHANGED <<ownVars, out, open, delivered, written, misclosed, astray>>

Read(n) ==
    /\ reader = "reading"
    /\ n \in 1..Len(pipe) /\ n <= ReadSize
    /\ line' = line \o SubSeq(pipe, 1, n)
    /\ pipe' = SubSeq(pipe, n + 1, Len(pipe))
    /\ reader' = "lines"
    /\ UNCHANGED <<ownVars, out, open, delivered, written, misclosed, astray>>

\* mutant of EndOfPipe: a state the thread has no code for
EndOfPipe_Unknown ==
    /\ reader = "reading"
    /\ pipe = << >> /\ out = "console" /\ "write" \notin open
    /\ reader' = "eof"
    /\ UNCHANGED <<ownVars, out, open, pipeVars, misclosed, astray>>

\* read() returns 0 when the pipe is empty and has no write end left
EndOfPipe ==
    /\ reader = "reading"
    /\ pipe = << >> /\ out = "console" /\ "write" \notin open
    /\ reader' = "closing"
    /\ UNCHANGED <<ownVars, out, open, pipeVars, misclosed, astray>>

FirstNewline == CHOOSE i \in DOMAIN line : /\ line[i] = "nl"
                                          /\ \A j \in 1..(i - 1) : line[j] # "nl"
HasLine == \E i \in DOMAIN line : line[i] = "nl"

\* one turn of the inner loop: _callback(output) ...
DeliverLine ==
    /\ reader = "lines"
    /\ HasLine /\ ~stopping
    /\ delivered' = delivered \o SubSeq(line, 1, FirstNewline)
    /\ line' = SubSeq(line, FirstNewline + 1, Len(line))
    /\ reader' = "forwarding"
    /\ UNCHANGED <<ownVars, out, open, pipe, written, misclosed, astray>>

\* ... which writes it to output_fd(), the alias of the real stdout, with
\* +pyDebugForwardOutput=1
Forward ==
    /\ reader = "forwarding"
    /\ astray' = (astray \/ "alias" \notin open)
    /\ reader' = "lines"
    /\ UNCHANGED <<ownVars, out, open, pipeVars, misclosed>>

\* mutant of LinesDone: at most one line for each read
LinesDone_Early ==
    /\ reader = "lines"
    /\ reader' = "test"
    /\ UNCHANGED <<ownVars, out, open, pipeVars, misclosed, astray>>

LinesDone ==
    /\ reader = "lines"
    /\ ~HasLine \/ stopping
    /\ reader' = "test"
    /\ UNCHANGED <<ownVars, out, open, pipeVars, misclosed, astray>>

\* mutant of CloseReader: _read_fd keeps its value
CloseReader_KeepMember ==
    /\ reader = "closing"
    /\ IF "read" \in fds THEN Close("read") ELSE UNCHANGED <<open, misclosed>>
    /\ reader' = "ended"
    /\ UNCHANGED <<fds, phase, out, stopping, pipeVars, astray>>

CloseReader ==
    /\ reader = "closing"
    /\ IF "read" \in fds THEN Close("read") ELSE UNCHANGED <<open, misclosed>>
    /\ fds' = fds \ {"read"}
    /\ reader' = "ended"
    /\ UNCHANGED <<phase, out, stopping, pipeVars, astray>>

ReaderStep == \/ Test \/ (\E n \in 1..Len(pipe) : Read(n)) \/ EndOfPipe
              \/ DeliverLine \/ Forward \/ LinesDone \/ CloseReader

Next ==
    \/ Start \/ NotRedirected
    \/ \E left \in Leftovers : StartFails(left)
    \/ Stop
    \/ \E c \in Char : Write(c)
    \/ ReaderStep

Spec == Init /\ [][Next]_vars

\* Both threads run; nothing is assumed of the ones that print, nor that
\* stop() is ever called.
LiveSpec == Spec /\ WF_vars(ReaderStep) /\ WF_vars(Stop /\ phase # "started")

-----------------------------------------------------------------------------
TypeOK ==
    /\ phase \in {"new", "refused", "thrown", "started", "closing write", "restoring",
                  "closing alias", "joining", "joined", "stopped"}
    /\ out \in {"console", "pipe"}
    /\ fds \subseteq {"alias", "write", "read"}
    /\ open \subseteq {"alias", "write", "read"}
    /\ stopping \in BOOLEAN /\ misclosed \in BOOLEAN /\ astray \in BOOLEAN
    /\ reader \in {"none", "test", "reading", "lines", "forwarding", "closing", "ended"}
    /\ pipe \in Seq(Char) /\ line \in Seq(Char)
    /\ delivered \in Seq(Char) /\ written \in Seq(Char)

\* Nothing that was printed is lost, repeated or reordered on the way through
\* pipe, reads of any size and the line buffer, until and during a stop: what
\* is not delivered then is the rest of what was printed.
NothingLost == delivered \o line \o pipe = written

\* No descriptor is closed twice, although the reader and stop() both close
\* the read end: a descriptor number that was given back may belong to
\* somebody else by then.
ClosedOnce == ~misclosed

\* A forwarded line reaches the real stdout, unless stop() has begun: it closes
\* the alias before it joins the reader, which may be in the callback.
ForwardSafe == astray => stopping

\* The reader is woken by the end of the pipe, which the order of the steps
\* of stop() brings about: stop() returns.
StopReturns == (phase = "closing write") ~> (phase = "stopped")

\* A line that was printed reaches the callback, unless stop() comes first.
LinesDelivered ==
    \A n \in 1..MaxWritten :
        (Len(written) >= n /\ written[n] = "nl")
            ~> (Len(delivered) >= n \/ stopping)
=============================================================================
