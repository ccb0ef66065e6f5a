-------------------------------- MODULE Cube --------------------------------
(***************************************************************************)
(* The demo site's shared cube (site/src/runtime/rubiks-cube.ts): moves    *)
(* that the bridge's tools and the page's keys request, queued behind an   *)
(* animated one, cancelled by aborts and resets, and the turns it makes by *)
(* itself while it is watched and idle.                                    *)
(*                                                                         *)
(* What a move does to the cubies is CubeMoves'; here it is the revision.  *)
(* A handler is an operator from cube to cube.  The entries of one call    *)
(* share its abort signal, whose listeners run in one step.                *)
(***************************************************************************)
EXTENDS Integers, Sequences, FiniteSets

CONSTANTS
    Calls,        \* calls of applyMoves and scramble
    MaxMoves,     \* of a call
    MaxViews,     \* bound of the model
    MaxRevision   \* bound of the model

VARIABLES
    cube,      \* [revision, queue, active, calls]
    autoplay,     \* #autoplayTimer is armed
    enabled,   \* #autoplayEnabled
    views,     \* #viewReferences
    reduced,   \* #reducedMotion
    stopped    \* history: a scramble or a reset was refused after it had cancelled the
               \* move under way, and nothing was scheduled or accepted since

cubeVars == <<cube, autoplay, enabled, views, reduced, stopped>>

ASSUME CubeAssumption == Calls \cap {"none", "nobody"} = {} /\ MaxMoves \in Nat

Nobody == "nobody"   \* autoplay's move
NoEntry == [call |-> "none", animated |-> FALSE]

\* What is known of a call: its moves still to come; the revision that the next of
\* them must find, if it expected one at first; whether each has found it.
NewCall == [phase |-> "new", left |-> 0, next |-> {}, exact |-> TRUE]
Settled(call, phase) == [call EXCEPT !.phase = phase, !.left = 0, !.next = {}]

CubeInit ==
    /\ cube = [revision |-> 0, queue |-> <<>>, active |-> NoEntry, calls |-> [c \in Calls |-> NewCall]]
    /\ autoplay = FALSE /\ enabled = TRUE /\ views = 0 /\ reduced = FALSE /\ stopped = FALSE

-----------------------------------------------------------------------------
Idle(k) == k.active = NoEntry /\ k.queue = <<>>
Entries(c, n, animated) == [i \in 1..n |-> [call |-> c, animated |-> animated]]
Concerns(k, c) == k.active.call = c \/ \E i \in DOMAIN k.queue : k.queue[i].call = c

\* A call one of whose moves has found the revision.
Counted(call, revision) ==
    LET counted == [call EXCEPT !.left = @ - 1, !.next = {r + 1 : r \in @},
                                !.exact = @ /\ call.next \subseteq {revision}]
    IN  IF counted.left = 0 THEN Settled(counted, "resolved") ELSE counted

\* commitMove, and the entry's resolve.
Committed(k, entry) ==
    [k EXCEPT !.revision = @ + 1,
              !.calls = [c \in Calls |-> IF c = entry.call THEN Counted(@[c], k.revision) ELSE @[c]]]
CommitAll(k, entries) ==
    LET after[n \in 0..Len(entries)] == IF n = 0 THEN k ELSE Committed(after[n - 1], entries[n])
    IN  after[Len(entries)]

\* startNextMove, nothing being active: what is not animated is committed at once.
StartNext(k) ==
    LET glides == {i \in DOMAIN k.queue : k.queue[i].animated}
        first == IF glides = {} THEN Len(k.queue) + 1 ELSE CHOOSE i \in glides : \A j \in glides : i <= j
    IN  [CommitAll(k, SubSeq(k.queue, 1, first - 1)) EXCEPT
            !.active = IF glides = {} THEN NoEntry ELSE k.queue[first],
            !.queue = SubSeq(k.queue, first + 1, Len(k.queue))]

Enqueued(k, entries) ==
    LET q == [k EXCEPT !.queue = @ \o entries] IN IF k.active = NoEntry THEN StartNext(q) ELSE q

\* finishActiveMove
Finished(k) == StartNext(Committed([k EXCEPT !.active = NoEntry], k.active))

Rejected(k, cs) ==
    [k EXCEPT !.calls = [c \in Calls |-> IF c \in cs /\ @[c].phase = "waiting"
                                         THEN Settled(@[c], "rejected") ELSE @[c]]]

\* cancelAll and replaceWithSolvedState
Cancelled(k) == Rejected([k EXCEPT !.active = NoEntry, !.queue = <<>>], Calls)
Solved(k) == [Cancelled(k) EXCEPT !.revision = @ + 1]

\* abortEntry, of every entry of the call.
Without(queue, c) ==
    LET kept[n \in 0..Len(queue)] ==
            IF n = 0 THEN <<>>
            ELSE IF queue[n].call = c THEN kept[n - 1] ELSE Append(kept[n - 1], queue[n])
    IN  kept[Len(queue)]
Aborted(k, c) ==
    LET q == Rejected([k EXCEPT !.queue = Without(@, c)], {c})
    IN  IF k.active.call = c THEN StartNext([q EXCEPT !.active = NoEntry]) ELSE q

-----------------------------------------------------------------------------
\* scheduleAutoplay; it first clears the autoplay.
Plays == enabled /\ ~reduced /\ views > 0
Schedules == autoplay' = (Plays' /\ Idle(cube')) /\ stopped' = FALSE

Bounded(n) == cube.revision + n <= MaxRevision

\* applyMoves after its checks: at once, or by the queue.
Moved(k, c, n, animated) ==
    IF (animated /\ ~reduced) \/ ~Idle(k) THEN Enqueued(k, Entries(c, n, animated /\ ~reduced))
    ELSE CommitAll(k, Entries(c, n, FALSE))

\* Slip: moves that are still to come are not looked at.
Unexpected_Revision(k, revision) == revision # k.revision
Unexpected(k, revision) == revision # k.revision \/ ~Idle(k)

\* The checks of applyMoves.  "revision" is expectedRevision, or none; "aborted", that
\* its signal is; no moves stand for every list or length that is refused.
MayMove(k, n, revision, aborted) == n > 0 /\ ~aborted /\ \A r \in revision : ~Unexpected(k, r)

Accepted(k, c, n, revision) ==
    [k EXCEPT !.calls[c] = [@ EXCEPT !.phase = "waiting", !.left = n, !.next = revision]]
Refused(k, c) == [k EXCEPT !.calls[c] = Settled(@, "rejected")]

ApplyMoves(c, n, animated, revision, aborted) ==
    /\ cube.calls[c].phase = "new" /\ Bounded(n)
    /\ UNCHANGED <<enabled, views, reduced>>
    /\ IF MayMove(cube, n, revision, aborted)
       THEN cube' = Moved(Accepted(cube, c, n, revision), c, n, animated) /\ Schedules
       ELSE cube' = Refused(cube, c) /\ UNCHANGED <<autoplay, stopped>>

\* What ends with the cube replaced, and nothing scheduled.
Leaves == UNCHANGED autoplay /\ stopped' = (stopped \/ cube.active # NoEntry)

\* The length is looked at first; the options that applyMoves checks, after the state
\* was replaced: the revision it compares is the one after that.
Scramble(c, n, animated, revision, aborted) ==
    /\ cube.calls[c].phase = "new" /\ Bounded(n + 1)
    /\ UNCHANGED <<enabled, views, reduced>>
    /\ IF n = 0 THEN cube' = Refused(cube, c) /\ UNCHANGED <<autoplay, stopped>>
       ELSE IF MayMove(Solved(cube), n, revision, aborted)
       THEN /\ cube' = Moved(Accepted(Solved(cube), c, n, revision), c, n, animated)
            /\ Schedules
       ELSE cube' = Refused(Solved(cube), c) /\ Leaves

\* To the solved state, or n moves from it; here the length is looked at last.
Reset(mode, n) ==
    /\ Bounded(n + 1)
    /\ UNCHANGED <<enabled, views, reduced>>
    /\ IF mode = "scrambled" /\ n = 0 THEN cube' = Solved(cube) /\ Leaves
       ELSE /\ cube' = CommitAll(Solved(cube),
                                 Entries(Nobody, IF mode = "solved" THEN 0 ELSE n, FALSE))
            /\ Schedules

SetAutoplay(on) ==
    /\ enabled' = on
    /\ UNCHANGED <<cube, views, reduced>>
    /\ IF on THEN Schedules ELSE autoplay' = FALSE /\ UNCHANGED stopped

AcquireView(reducedMotion) ==
    /\ views < MaxViews
    /\ UNCHANGED <<cube, enabled>>
    /\ views' = views + 1 /\ reduced' = reducedMotion
    /\ Schedules

ReleaseView ==
    /\ views > 0 /\ views' = views - 1
    /\ UNCHANGED <<cube, enabled, reduced, stopped>>
    /\ autoplay' = (autoplay /\ views' > 0)

CallAborted(c) ==
    /\ cube.calls[c].phase = "waiting"
    /\ UNCHANGED <<enabled, views, reduced>>
    /\ cube' = Aborted(cube, c)
    /\ IF cube.active.call = c THEN Schedules ELSE UNCHANGED <<autoplay, stopped>>

AnimationTimer ==
    /\ cube.active # NoEntry
    /\ UNCHANGED <<enabled, views, reduced>>
    /\ cube' = Finished(cube)
    /\ Schedules

AutoplayTimer ==
    /\ autoplay /\ Bounded(1)
    /\ UNCHANGED <<enabled, views, reduced>>
    /\ cube' = Moved(cube, Nobody, 1, TRUE)
    /\ Schedules

CubeNext ==
    \/ \E c \in Calls, n \in 0..MaxMoves, animated, aborted \in BOOLEAN :
         \E revision \in {{}, {0}, {cube.revision}, {cube.revision + 1}} :
            \/ ApplyMoves(c, n, animated, revision, aborted)
            \/ Scramble(c, n, animated, revision, aborted)
    \/ \E c \in Calls : CallAborted(c)
    \/ \E mode \in {"solved", "scrambled"}, n \in 0..MaxMoves : Reset(mode, n)
    \/ \E on \in BOOLEAN : SetAutoplay(on) \/ AcquireView(on)
    \/ ReleaseView \/ AnimationTimer \/ AutoplayTimer

CubeSpec == CubeInit /\ [][CubeNext]_cubeVars

-----------------------------------------------------------------------------
(* Properties.                                                              *)

\* A call that was answered has no move in the queue, one that waits has all those
\* that were not committed; expectedRevision is compare-and-swap although the moves
\* come later, one animation after the other: each is applied to the state that the
\* one before it left, which for a scramble is the state that it began with; and
\* while it is watched, enabled and motion is welcome, the cube stops for good after
\* a scramble or a reset that was refused only when it had cancelled a move, and
\* after nothing else, whichever way moves ended before.
QueueSound ==
    /\ \A c \in Calls :
        LET call == cube.calls[c]
        IN  /\ call.phase \in {"resolved", "rejected"} => ~Concerns(cube, c)
            /\ call.phase = "waiting" =>
                  call.left = Cardinality({i \in DOMAIN cube.queue : cube.queue[i].call = c})
                              + IF cube.active.call = c THEN 1 ELSE 0
            /\ call.exact
    /\ Plays => (stopped <=> ~autoplay /\ cube.active = NoEntry)
    /\ autoplay => Plays /\ Idle(cube)
=============================================================================
