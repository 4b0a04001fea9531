--------------------------- MODULE RedirectProofs ---------------------------
(***************************************************************************)
(* Theorems about OutputRedirect.tla, for pipes, reads and outputs of any  *)
(* size.                                                                   *)
(***************************************************************************)
EXTENDS OutputRedirect, SequenceTheorems, WellFoundedInduction, TLAPS

-----------------------------------------------------------------------------
(* Sequences *)

\* A set of numbers that has an element has a least one.
LEMMA LeastNumber ==
    ASSUME NEW S \in SUBSET Nat, S # {}
    PROVE  \E n \in S : \A m \in S : n <= m
<1>1. PICK n \in S : \A m \in S : <<m, n>> \notin OpToRel(<, Nat)
  BY NatLessThanWellFounded, WFMin
<1>2. \A m \in S : ~(m < n)
  BY <1>1 DEF OpToRel
<1>3. QED
  BY <1>2

LEMMA Assoc ==
    ASSUME NEW S
    PROVE  \A a, b, c \in Seq(S) : (a \o b) \o c = a \o (b \o c)
  BY ConcatAssociative

\* Cutting a sequence in two loses nothing.
LEMMA CutAndJoin ==
    ASSUME NEW S, NEW s \in Seq(S), NEW n \in 0 .. Len(s)
    PROVE  /\ SubSeq(s, 1, n) \in Seq(S) /\ SubSeq(s, n + 1, Len(s)) \in Seq(S)
           /\ SubSeq(s, 1, n) \o SubSeq(s, n + 1, Len(s)) = s
<1>1. 1 \in 1 .. Len(s) + 1 /\ n \in 1 - 1 .. Len(s) /\ Len(s) \in n .. Len(s)
  OBVIOUS
<1>2. SubSeq(s, 1, n) \o SubSeq(s, n + 1, Len(s)) = SubSeq(s, 1, Len(s))
  BY <1>1, ConcatAdjacentSubSeq
<1>3. SubSeq(s, 1, n) \in Seq(S) /\ SubSeq(s, n + 1, Len(s)) \in Seq(S)
  OBVIOUS
<1>4. QED
  BY <1>2, <1>3, SubSeqFull

LEMMA FirstNewlineFound ==
    ASSUME line \in Seq(Char), HasLine
    PROVE  /\ FirstNewline \in 1 .. Len(line)
           /\ line[FirstNewline] = "nl"
           /\ \A j \in 1 .. FirstNewline - 1 : line[j] # "nl"
<1> DEFINE S == {i \in DOMAIN line : line[i] = "nl"}
<1>1. PICK n \in S : \A m \in S : n <= m
  <2>1. S \in SUBSET Nat /\ S # {}
    BY DEF HasLine
  <2>2. QED
    BY <2>1, LeastNumber
<1>2. \A j \in 1 .. n - 1 : line[j] # "nl"
  BY <1>1
<1>3. QED
  BY <1>1, <1>2 DEF FirstNewline

-----------------------------------------------------------------------------
(* Types *)

\* The characters are moved by three actions only.
LEMMA CharsWritten ==
    ASSUME [Next]_vars
    PROVE  \/ UNCHANGED pipeVars
           \/ \E c \in Char : Write(c)
           \/ \E n \in 1 .. Len(pipe) : Read(n)
           \/ DeliverLine
  BY DEF Next, ReaderStep, Start, NotRedirected, StartFails, Stop, RequestStop, CloseWrite,
     Restore, CloseAlias, Join, CloseRead, Test, EndOfPipe, Forward, LinesDone, CloseReader, vars

CharTypes == /\ pipe \in Seq(Char) /\ line \in Seq(Char)
             /\ delivered \in Seq(Char) /\ written \in Seq(Char)

LEMMA CharTypesStep ==
    ASSUME CharTypes, [Next]_vars
    PROVE  CharTypes'
<1> USE DEF CharTypes
<1>1. ASSUME NEW c \in Char, Write(c) PROVE CharTypes'
  <2>1. Append(pipe, c) \in Seq(Char) /\ Append(written, c) \in Seq(Char)
    OBVIOUS
  <2>2. QED
    BY <1>1, <2>1 DEF Write
<1>2. ASSUME NEW n \in 1 .. Len(pipe), Read(n) PROVE CharTypes'
  <2>1. SubSeq(pipe, 1, n) \in Seq(Char) /\ SubSeq(pipe, n + 1, Len(pipe)) \in Seq(Char)
    BY CutAndJoin
  <2>2. line \o SubSeq(pipe, 1, n) \in Seq(Char)
    BY <2>1
  <2>3. QED
    BY <1>2, <2>1, <2>2 DEF Read
<1>3. CASE DeliverLine
  <2>1. FirstNewline \in 0 .. Len(line)
    BY <1>3, FirstNewlineFound DEF DeliverLine
  <2>2. SubSeq(line, 1, FirstNewline) \in Seq(Char)
           /\ SubSeq(line, FirstNewline + 1, Len(line)) \in Seq(Char)
    BY <2>1, CutAndJoin
  <2>3. delivered \o SubSeq(line, 1, FirstNewline) \in Seq(Char)
    BY <2>2
  <2>4. QED
    BY <1>3, <2>2, <2>3 DEF DeliverLine
<1>4. CASE UNCHANGED pipeVars
  BY <1>4 DEF pipeVars
<1>5. QED
  BY <1>1, <1>2, <1>3, <1>4, CharsWritten

LEMMA TypeOKStep == TypeOK /\ [Next]_vars => TypeOK'
<1> SUFFICES ASSUME TypeOK, [Next]_vars PROVE TypeOK'
  OBVIOUS
<1>1. CharTypes'
  BY CharTypesStep DEF TypeOK, CharTypes
<1> USE <1>1 DEF TypeOK, CharTypes
<1>2. CASE Start \/ NotRedirected \/ Stop
  BY <1>2 DEF Start, NotRedirected, Stop, RequestStop, CloseWrite, Restore, CloseAlias, Join, CloseRead,
     StopStep, Close
<1>3. CASE \E left \in Leftovers : StartFails(left)
  BY <1>3 DEF Leftovers, StartFails
<1>4. CASE (\E c \in Char : Write(c)) \/ (\E n \in 1 .. Len(pipe) : Read(n)) \/ DeliverLine
  BY <1>4 DEF Write, Read, DeliverLine, ownVars
<1>5. CASE Test \/ EndOfPipe \/ Forward \/ LinesDone \/ CloseReader
  BY <1>5 DEF Test, EndOfPipe, Forward, LinesDone, CloseReader, Close, ownVars
<1>6. CASE UNCHANGED vars
  BY <1>6 DEF vars, ownVars
<1>7. QED
  BY <1>2, <1>3, <1>4, <1>5, <1>6 DEF Next, ReaderStep

\* Every variable of the redirect keeps its type.
THEOREM RedirectTypes == Spec => []TypeOK
<1>1. << >> \in Seq(Char)
  OBVIOUS
<1>2. Init => TypeOK
  BY <1>1 DEF Init, TypeOK
<1>3. QED
  BY <1>2, TypeOKStep, PTL DEF Spec

-----------------------------------------------------------------------------
(* The characters *)

\* Every read and every line is a cut of what is there.
LEMMA NothingLostStep ==
    ASSUME TypeOK, NothingLost, [Next]_vars
    PROVE  NothingLost'
<1>0. pipe \in Seq(Char) /\ line \in Seq(Char) /\ delivered \in Seq(Char)
  BY DEF TypeOK
<1>1. \A x, y, z \in Seq(Char) : (x \o y) \o z = x \o (y \o z) /\ x \o y \in Seq(Char)
  BY Assoc
<1>2. CASE UNCHANGED pipeVars
  BY <1>2 DEF NothingLost, pipeVars
<1>3. ASSUME NEW c \in Char, Write(c) PROVE NothingLost'
  <2>1. pipe' = pipe \o <<c>> /\ written' = written \o <<c>>
           /\ line' = line /\ delivered' = delivered
    BY <1>0, <1>3, AppendIsConcat DEF Write, TypeOK
  <2>2. <<c>> \in Seq(Char) /\ delivered \o line \in Seq(Char)
    BY <1>0
  <2>3. (delivered \o line) \o (pipe \o <<c>>) = ((delivered \o line) \o pipe) \o <<c>>
    BY <1>0, <1>1, <2>2
  <2>4. QED
    BY <1>0, <2>1, <2>3 DEF NothingLost
<1>4. ASSUME NEW n \in 1 .. Len(pipe), Read(n) PROVE NothingLost'
  <2> DEFINE a == SubSeq(pipe, 1, n)
             b == SubSeq(pipe, n + 1, Len(pipe))
  <2>1. a \in Seq(Char) /\ b \in Seq(Char) /\ a \o b = pipe
    BY <1>0, CutAndJoin
  <2>2. line' = line \o a /\ pipe' = b /\ delivered' = delivered /\ written' = written
    BY <1>4 DEF Read
  <2> HIDE DEF a, b
  <2>3. delivered \o line \in Seq(Char) /\ delivered \o (line \o a) = (delivered \o line) \o a
    BY <1>0, <1>1, <2>1
  <2>4. ((delivered \o line) \o a) \o b = (delivered \o line) \o (a \o b)
    BY <1>0, <1>1, <2>1, <2>3
  <2>5. QED
    BY <1>0, <2>1, <2>2, <2>3, <2>4 DEF NothingLost
<1>5. CASE DeliverLine
  <2> DEFINE a == SubSeq(line, 1, FirstNewline)
             b == SubSeq(line, FirstNewline + 1, Len(line))
  <2>1. FirstNewline \in 0 .. Len(line)
    BY <1>0, <1>5, FirstNewlineFound DEF DeliverLine
  <2>2. a \in Seq(Char) /\ b \in Seq(Char) /\ a \o b = line
    BY <1>0, <2>1, CutAndJoin
  <2>3. delivered' = delivered \o a /\ line' = b /\ pipe' = pipe /\ written' = written
    BY <1>5 DEF DeliverLine
  <2> HIDE DEF a, b
  <2>4. (delivered \o a) \o b = delivered \o (a \o b)
    BY <1>0, <1>1, <2>2
  <2>5. QED
    BY <1>0, <2>2, <2>3, <2>4 DEF NothingLost
<1>6. QED
  BY <1>2, <1>3, <1>4, <1>5, CharsWritten

\* What was printed is what was delivered, what is left of a line, and what is
\* in the pipe, in this order: nothing is lost, repeated or reordered.
THEOREM OutputIsComplete == Spec => []NothingLost
<1>1. Init => NothingLost
  BY DEF Init, NothingLost
<1>2. TypeOK /\ NothingLost /\ [Next]_vars => NothingLost'
  BY NothingLostStep
<1>3. QED
  BY <1>1, <1>2, RedirectTypes, PTL DEF Spec
-----------------------------------------------------------------------------
(* Descriptors *)

\* A member that is set names a descriptor stop() has not closed yet, and the
\* reader runs only between start() and the end of the join.  The read end is
\* closed by whoever finds the member first, and the member goes with it.
Unclosed ==
    /\ "read" \in fds => "read" \in open
    /\ phase \in {"started", "closing write"} => "write" \in open
    /\ phase \in {"started", "closing write", "restoring", "closing alias"} => "alias" \in open
    /\ phase \in {"new", "refused", "thrown"} => reader = "none"
    /\ phase \notin {"new", "refused", "thrown", "started"} => stopping

RedirectInv == Unclosed /\ ClosedOnce /\ ForwardSafe

LEMMA RedirectInvStep ==
    ASSUME RedirectInv, TypeOK, [Next]_vars
    PROVE  RedirectInv'
<1> USE DEF RedirectInv, Unclosed, ClosedOnce, ForwardSafe
<1>0. phase \in {"new", "refused", "thrown", "started", "closing write", "restoring",
                 "closing alias", "joining", "joined", "stopped"}
  BY DEF TypeOK
<1>1. CASE Start
  BY <1>1 DEF Start
<1>9. CASE NotRedirected
  BY <1>9 DEF NotRedirected
<1>2. CASE \E left \in Leftovers : StartFails(left)
  BY <1>2 DEF Leftovers, StartFails
<1>3. CASE Stop
  BY <1>0, <1>3 DEF Stop, RequestStop, CloseWrite, Restore, CloseAlias, Join, CloseRead, StopStep,
     Close
<1>4. CASE Forward
  BY <1>0, <1>4 DEF Forward, ownVars
<1>5. CASE CloseReader
  BY <1>0, <1>5 DEF CloseReader, Close
<1>6. CASE \/ \E c \in Char : Write(c)
           \/ \E n \in 1 .. Len(pipe) : Read(n)
           \/ Test \/ EndOfPipe \/ DeliverLine \/ LinesDone
  <2>1. /\ UNCHANGED <<phase, fds, stopping, open, misclosed, astray>>
        /\ reader = "none" => reader' = "none"
    BY <1>6 DEF Write, Read, Test, EndOfPipe, DeliverLine, LinesDone, ownVars
  <2>2. QED
    BY <2>1
<1>7. CASE UNCHANGED vars
  BY <1>7 DEF vars, ownVars
<1>8. QED
  BY <1>1, <1>2, <1>3, <1>4, <1>5, <1>6, <1>7, <1>9 DEF Next, ReaderStep

LEMMA RedirectInvHolds == Spec => []RedirectInv
<1>1. Init => RedirectInv
  BY DEF Init, RedirectInv, Unclosed, ClosedOnce, ForwardSafe
<1>2. RedirectInv /\ TypeOK /\ [Next]_vars => RedirectInv'
  BY RedirectInvStep
<1>3. QED
  BY <1>1, <1>2, RedirectTypes, PTL DEF Spec

\* The reader and stop() both close the read end, and start() may have thrown
\* half way: still no close() names a descriptor that was given back.
THEOREM EachIsClosedOnce == Spec => []ClosedOnce
  BY RedirectInvHolds, PTL DEF RedirectInv

\* The callback finds the alias of the real stdout open until stop() has begun.
THEOREM ForwardingIsSafe == Spec => []ForwardSafe
  BY RedirectInvHolds, PTL DEF RedirectInv
=============================================================================
