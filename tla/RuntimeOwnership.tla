-------------------------- MODULE RuntimeOwnership --------------------------
(***************************************************************************)
(* What the bridge promises about browser runtimes                         *)
(* (docs/bridge-protocol.md): one connection at a time acts for a runtime; *)
(* a replacement takes over from the connection it resumes in one step, in *)
(* which the old connection loses everything it owns; nobody else takes    *)
(* over an active runtime; "a browser disconnect atomically removes every  *)
(* registration owned by that connection", and a connection that has ended *)
(* never acts again.                                                       *)
(*                                                                         *)
(* Gateway.tla is shown to implement this module.                          *)
(***************************************************************************)
EXTENDS FiniteSets

CONSTANTS
    Connections,
    SameRuntime(_, _)  \* two connections belong to one app runtime instance

VARIABLES
    acting,  \* the connections that act for their runtimes
    ended,   \* the connections that have been retired or closed
    owned    \* <<thing, connection>>: registrations and requests in progress

vars == <<acting, ended, owned>>

Rivals(c) == {d \in acting : SameRuntime(c, d)}
Of(c) == {o \in owned : o[2] = c}

Init == acting = {} /\ ended = {} /\ owned = {}

Begin(c) ==
    /\ c \notin acting \cup ended
    /\ Rivals(c) = {}
    /\ acting' = acting \cup {c}
    /\ UNCHANGED <<ended, owned>>

\* The authenticated replacement of one connection by another.
TakeOver(old, c) ==
    /\ c \notin acting \cup ended
    /\ Rivals(c) = {old}
    /\ acting' = (acting \ {old}) \cup {c}
    /\ ended' = ended \cup {old}
    /\ owned' = owned \ Of(old)

End(c) ==
    /\ acting' = acting \ {c}
    /\ ended' = ended \cup {c}
    /\ owned' = owned \ Of(c)

\* Only a connection that acts comes to own something.
Acquire(c) ==
    /\ c \in acting
    /\ owned \subseteq owned'
    /\ \A o \in owned' \ owned : o[2] = c
    /\ UNCHANGED <<acting, ended>>

Release ==
    /\ owned' \subseteq owned
    /\ UNCHANGED <<acting, ended>>

Next ==
    \/ \E c \in Connections : Begin(c) \/ End(c) \/ Acquire(c)
    \/ \E old, c \in Connections : TakeOver(old, c)
    \/ Release

Spec == Init /\ [][Next]_vars
=============================================================================
