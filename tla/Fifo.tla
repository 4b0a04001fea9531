-------------------------------- MODULE Fifo --------------------------------
(* What the packet reader promises: the requests of the client are handled  *)
(* in the order they were sent, each at most once, none of them garbled.    *)
EXTENDS Naturals, Sequences

CONSTANT Requests
VARIABLES sent, handled

Send(r) == sent' = Append(sent, r) /\ UNCHANGED handled

Handle ==
    /\ Len(handled) < Len(sent)
    /\ handled' = Append(handled, sent[Len(handled) + 1])
    /\ UNCHANGED sent

Init == sent = << >> /\ handled = << >>
Next == Handle \/ \E r \in Requests : Send(r)
Spec == Init /\ [][Next]_<<sent, handled>>
=============================================================================
