-------------------------------- MODULE MCWeb --------------------------------
(***************************************************************************)
(* The web runtime for TLC: a behaviour picks the life cycle of the        *)
(* connection or what is said on it, and the other stays where it starts.  *)
(***************************************************************************)
EXTENDS WebConnection, Conversation

VARIABLE half   \* the one that moves

halves == <<vars, talkVars, half>>

WebInit == half \in {"connection", "conversation"} /\ Init /\ TalkInit

WebNext ==
    /\ UNCHANGED half
    /\ \/ half = "connection" /\ Next /\ UNCHANGED talkVars
       \/ half = "conversation" /\ TalkNext /\ UNCHANGED vars

WebSpec == WebInit /\ [][WebNext]_halves /\ Fairness /\ TalkFairness
=============================================================================
