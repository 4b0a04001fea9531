---------------------------- MODULE PacketReader ----------------------------
(***************************************************************************)
(* How debugger_session::run takes requests off the socket: read until the *)
(* blank line that ends the header, get_packet_length, read what the       *)
(* length asks for and the buffer does not hold yet, hand the packet on.   *)
(* TCP delivers the bytes in pieces of any size, and async_read_until      *)
(* usually reads past the blank line.                                      *)
(*                                                                         *)
(* The stream is a sequence of tokens: a Content-Length line with its      *)
(* value, another header line, a blank line, a byte of a request body.     *)
(* A body may contain a blank line of its own.  The tokens of a body name  *)
(* its request, because no two requests have the same text (DAP numbers    *)
(* them).                                                                  *)
(***************************************************************************)
EXTENDS Naturals, Sequences

CONSTANTS
    Requests,   \* what the client may send
    Body,       \* request -> its body, a sequence of TRUE for a blank line,
                \* FALSE for any other byte
    Disconnects, \* the disconnect requests among them
    MaxSent     \* bound: requests sent in one session

ASSUME BodyAssumption == \A r \in Requests : Body[r] \in Seq(BOOLEAN) /\ Body[r] # << >>
ASSUME DisconnectAssumption == Disconnects \subseteq Requests
ASSUME SentAssumption == MaxSent \in Nat

VARIABLES
    sent,      \* the requests the client has sent
    wire,      \* tokens on their way
    buffer,    \* the streambuf of run()
    want,      \* length of the packet whose body is being read, 0 before its header
    handled,   \* the requests handed to the handlers
    serving,   \* run() has not returned
    socket     \* "open", "closed" by a handler, or "lost"

vars == <<sent, wire, buffer, want, handled, serving, socket>>

LengthLine(n) == [kind |-> "length", value |-> n]
OtherLine     == [kind |-> "other", value |-> 0]
BlankLine     == [kind |-> "blank", value |-> 0]
Byte(r, i)    == [kind |-> IF Body[r][i] THEN "blank" ELSE "byte", value |-> 0,
                  of |-> r, at |-> i]

BodyTokens(r) == [i \in DOMAIN Body[r] |-> Byte(r, i)]
\* A client may send header lines besides Content-Length, before or after it;
\* a faulty one leaves it out.
Headers(n) == {<<LengthLine(n)>>, <<LengthLine(n), OtherLine>>,
               <<OtherLine, LengthLine(n)>>, <<OtherLine>>}

Init ==
    /\ sent = << >> /\ wire = << >> /\ buffer = << >>
    /\ want = 0
    /\ handled = << >>
    /\ serving = TRUE
    /\ socket = "open"

-----------------------------------------------------------------------------
(* The client *)

Send(r, header) ==
    /\ Len(sent) < MaxSent
    /\ socket = "open"
    /\ sent' = Append(sent, r)
    /\ wire' = wire \o header \o <<BlankLine>> \o BodyTokens(r)
    /\ UNCHANGED <<buffer, want, handled, serving, socket>>

Lose ==
    /\ socket = "open"
    /\ socket' = "lost"
    /\ UNCHANGED <<sent, wire, buffer, want, handled, serving>>

-----------------------------------------------------------------------------
(* run() *)

\* mutants: the delimiter must end the buffer; the last blank line is taken
HasBlank_AtEnd(tokens) == tokens # << >> /\ tokens[Len(tokens)].kind = "blank"
FirstBlank_Last(tokens) ==
    CHOOSE i \in DOMAIN tokens : /\ tokens[i].kind = "blank"
                                 /\ \A j \in (i + 1)..Len(tokens) : tokens[j].kind # "blank"

HasBlank(tokens) == \E i \in DOMAIN tokens : tokens[i].kind = "blank"
FirstBlank(tokens) ==
    CHOOSE i \in DOMAIN tokens : /\ tokens[i].kind = "blank"
                                 /\ \A j \in 1..(i - 1) : tokens[j].kind # "blank"

Receive(n) ==
    /\ buffer' = buffer \o SubSeq(wire, 1, n)
    /\ wire' = SubSeq(wire, n + 1, Len(wire))

\* async_read_until reads as much as there is
ReadUntil(n) ==
    /\ serving /\ want = 0
    /\ ~HasBlank(buffer)
    /\ n \in 1..Len(wire)
    /\ Receive(n)
    /\ UNCHANGED <<sent, want, handled, serving, socket>>

\* get_packet_length: the last Content-Length line before the first blank
\* line, 0 when there is none; the header leaves the buffer
PacketLength(tokens) ==
    LET lines == {i \in 1..(FirstBlank(tokens) - 1) : tokens[i].kind = "length"}
    IN  IF lines = {} THEN 0
        ELSE tokens[CHOOSE i \in lines : \A j \in lines : j <= i].value

get_packet_length ==
    /\ serving /\ want = 0
    /\ HasBlank(buffer)
    /\ buffer' = SubSeq(buffer, FirstBlank(buffer) + 1, Len(buffer))
    /\ want' = PacketLength(buffer)
    /\ serving' = (PacketLength(buffer) # 0)     \* "closing session": break
    /\ UNCHANGED <<sent, wire, handled, socket>>

\* async_read with transfer_exactly never reads past the packet
ReadExactly(n) ==
    /\ serving /\ want > Len(buffer)
    /\ n \in 1..Len(wire)
    /\ n <= want - Len(buffer)
    /\ Receive(n)
    /\ UNCHANGED <<sent, want, handled, serving, socket>>

\* json::parse of exactly the packet, consume, and the handler, which closes the
\* socket for a disconnect and ends the loop.  A text that is not one request
\* throws, a handler may throw as well, and either way run() returns.
Packet == SubSeq(buffer, 1, want)
Parsed == {r \in Requests : BodyTokens(r) = Packet}

HandlePacket ==
    /\ serving /\ want # 0 /\ Len(buffer) >= want
    /\ buffer' = SubSeq(buffer, want + 1, Len(buffer))
    /\ want' = 0
    /\ IF Parsed # {}
       THEN \E r \in Parsed :
              /\ handled' = Append(handled, r)
              /\ \/ r \notin Disconnects /\ UNCHANGED <<serving, socket>>
                 \/ r \in Disconnects /\ serving' = FALSE /\ socket' = "closed"
                 \/ serving' = FALSE /\ UNCHANGED socket
       ELSE serving' = FALSE /\ UNCHANGED <<handled, socket>>
    /\ UNCHANGED <<sent, wire>>

\* a read fails when the peer is gone and nothing is left to read
ReadError ==
    /\ serving /\ socket = "lost" /\ wire = << >>
    /\ IF want = 0 THEN ~HasBlank(buffer) ELSE Len(buffer) < want
    /\ serving' = FALSE
    /\ UNCHANGED <<sent, wire, buffer, want, handled, socket>>

Read == \E n \in 1..Len(wire) : ReadUntil(n) \/ ReadExactly(n)

Next ==
    \/ \E r \in Requests : \E header \in Headers(Len(Body[r])) : Send(r, header)
    \/ Lose
    \/ Read \/ get_packet_length \/ HandlePacket \/ ReadError

Spec == Init /\ [][Next]_vars

\* The io thread keeps running, TCP delivers what was sent.
LiveSpec == Spec /\ WF_vars(Read \/ get_packet_length \/ HandlePacket)

-----------------------------------------------------------------------------
\* However the stream is cut into pieces, requests are handled in order, once
\* each, and a packet never starts or ends in the middle of another.
Channel == INSTANCE Fifo WITH sent <- sent, handled <- handled
HandledInOrder == Channel!Spec

\* A request that was sent is handled, unless the session ends first.
AllHandled ==
    \A n \in 1..MaxSent : (Len(sent) >= n) ~> (Len(handled) >= n \/ ~serving)
=============================================================================
