----------------------------- MODULE ClientView -----------------------------
(* What a client may believe.  A program that stands still is released by   *)
(* nobody but a connected client, a client that was told of a stop finds    *)
(* the program stopped until it answers, and there is one stop at a time.   *)
(* Two things it is not promised: to be told of every stop (Hush), and to   *)
(* be told of a stop that is older than its connection (Join).              *)

VARIABLES
    client,   \* is a client connected?
    held,     \* does the program stand still in a stop?
    told      \* was the connected client sent a stopped event it has not answered?

Init == client = FALSE /\ held = FALSE /\ told = FALSE

Join  == ~client /\ client' = TRUE /\ told' = FALSE /\ UNCHANGED held
Leave == client /\ client' = FALSE /\ told' = FALSE /\ UNCHANGED held

Announce == ~held /\ held' = TRUE /\ told' = client /\ UNCHANGED client
Hush     == ~held /\ held' = TRUE /\ UNCHANGED <<client, told>>

\* continue, next, stepIn or stepOut
Answer == client /\ held /\ held' = FALSE /\ told' = FALSE /\ UNCHANGED client

Next == Join \/ Leave \/ Announce \/ Hush \/ Answer
Spec == Init /\ [][Next]_<<client, held, told>>
=============================================================================
