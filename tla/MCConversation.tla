--------------------------- MODULE MCConversation ---------------------------
(* Conversation.tla for TLC: one Python thread, one file.                   *)
EXTENDS Conversation

CONSTANTS t1, f1, f2, g1

OneThread == {t1}
TwoFrames == {f1, f2}
OneFile == {g1}
OneLine == {1}
CondOnly == {<< >>, <<"cond">>}
=============================================================================
