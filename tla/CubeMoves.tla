----------------------------- MODULE CubeMoves ------------------------------
(***************************************************************************)
(* The moves of the demo site's cube (site/src/runtime/rubiks-cube.ts),    *)
(* seen from one of its 26 cubies: where a turn takes it, how it turns it, *)
(* and the facelets its stickers end up on.  A cubie ignores the others,   *)
(* so what holds of each of them holds of the cube.                        *)
(*                                                                         *)
(* "places" is where the stickers of a real cube would be, by the meaning  *)
(* of the notation: a face's layer turns clockwise, seen from outside.     *)
(***************************************************************************)
EXTENDS Integers, Sequences

VARIABLES
    cubie,   \* [home, position, basis]
    places   \* of each of its stickers: [at, normal]

turnVars == <<cubie, places>>

Faces == {"U", "R", "F", "D", "L", "B"}
Moves == Faces \X {"", "'", "2"}

\* MOVE_DEFINITIONS; the axes x, y and z are 1, 2 and 3.
Turn(axis, layer, clockwise) == [axis |-> axis, layer |-> layer, clockwise |-> clockwise]
MoveDefinitions_Mirrored ==
    [U |-> Turn(2, 1, -1), R |-> Turn(1, 1, -1), F |-> Turn(3, 1, -1),
     D |-> Turn(2, -1, -1), L |-> Turn(1, -1, -1), B |-> Turn(3, -1, -1)]
MoveDefinitions ==
    [U |-> Turn(2, 1, -1), R |-> Turn(1, 1, -1), F |-> Turn(3, 1, -1),
     D |-> Turn(2, -1, 1), L |-> Turn(1, -1, 1), B |-> Turn(3, -1, 1)]

QuarterTurns(move) ==
    LET clockwise == MoveDefinitions[move[1]].clockwise
    IN  CASE move[2] = "2" -> 2 * clockwise
          [] move[2] = "'" -> -clockwise
          [] OTHER -> clockwise

\* rotateVectorPositiveQuarter, rotateVector and rotateBasis.
Quarter(v, axis) ==
    CASE axis = 1 -> <<v[1], -v[3], v[2]>>
      [] axis = 2 -> <<v[3], v[2], -v[1]>>
      [] axis = 3 -> <<-v[2], v[1], v[3]>>
Rotated(v, axis, turns) ==
    LET after[n \in 0..3] == IF n = 0 THEN v ELSE Quarter(after[n - 1], axis)
    IN  after[turns % 4]
RotatedBasis(basis, axis, turns) == [i \in 1..3 |-> Rotated(basis[i], axis, turns)]

\* rotateCubies, of this one.
RotateCubie(q, move) ==
    LET axis == MoveDefinitions[move[1]].axis
    IN  IF q.position[axis] # MoveDefinitions[move[1]].layer THEN q
        ELSE [q EXCEPT !.position = Rotated(@, axis, QuarterTurns(move)),
                       !.basis = RotatedBasis(@, axis, QuarterTurns(move))]

Normal == [U |-> <<0, 1, 0>>, R |-> <<1, 0, 0>>, F |-> <<0, 0, 1>>,
           D |-> <<0, -1, 0>>, L |-> <<-1, 0, 0>>, B |-> <<0, 0, -1>>]
FaceFromNormal(n) == CHOOSE f \in Faces : Normal[f] = n

Dot(v, w) == v[1] * w[1] + v[2] * w[2] + v[3] * w[3]

\* createSolvedCubies and stickersForPosition.
Positions == ((-1..1) \X (-1..1) \X (-1..1)) \ {<<0, 0, 0>>}
Stickers(position) == {f \in Faces : Dot(position, Normal[f]) = 1}
IdentityBasis == <<<<1, 0, 0>>, <<0, 1, 0>>, <<0, 0, 1>>>>

ApplyBasis(basis, v) ==
    [i \in 1..3 |-> basis[1][i] * v[1] + basis[2][i] * v[2] + basis[3][i] * v[3]]

FaceletIndex(face, p) ==
    CASE face = "U" -> (p[3] + 1) * 3 + p[1] + 1
      [] face = "D" -> (1 - p[3]) * 3 + p[1] + 1
      [] face = "F" -> (1 - p[2]) * 3 + p[1] + 1
      [] face = "B" -> (1 - p[2]) * 3 + 1 - p[1]
      [] face = "R" -> (1 - p[2]) * 3 + 1 - p[3]
      [] face = "L" -> (1 - p[2]) * 3 + p[3] + 1

\* faceletsForCubies, of this one: the facelets it fills and with what.
Facelets(q) ==
    {LET face == FaceFromNormal(ApplyBasis(q.basis, Normal[f]))
     IN  [face |-> face, index |-> FaceletIndex(face, q.position), sticker |-> f] :
        f \in Stickers(q.home)}

-----------------------------------------------------------------------------
\* A vector after a quarter turn about n, clockwise for who looks against n:
\* its component along n stays, the rest is crossed with n.
Clockwise(v, n) ==
    LET along == Dot(v, n)
    IN  <<along * n[1] + v[2] * n[3] - v[3] * n[2],
          along * n[2] + v[3] * n[1] - v[1] * n[3],
          along * n[3] + v[1] * n[2] - v[2] * n[1]>>

\* Where a face's turn takes a sticker, by the notation.
Carried(place, move) ==
    LET n == Normal[move[1]]
        Once(p) == [at |-> Clockwise(p.at, n), normal |-> Clockwise(p.normal, n)]
    IN  IF Dot(place.at, n) # 1 THEN place
        ELSE CASE move[2] = "" -> Once(place)
               [] move[2] = "2" -> Once(Once(place))
               [] OTHER -> Once(Once(Once(place)))

TurnInit ==
    /\ cubie \in {[home |-> p, position |-> p, basis |-> IdentityBasis] : p \in Positions}
    /\ places = [f \in Stickers(cubie.home) |-> [at |-> cubie.home, normal |-> Normal[f]]]

TurnNext ==
    \E move \in Moves :
        /\ cubie' = RotateCubie(cubie, move)
        /\ places' = [f \in DOMAIN places |-> Carried(places[f], move)]

-----------------------------------------------------------------------------
(* Properties.                                                              *)

\* Whatever moves came before, the facelets a cubie reports are those where its
\* stickers are on a real cube, in the order that faceletIndex gives a face, and no
\* two places of a face have the same index: hence every facelet of the cube is
\* filled once, in each state that a client reads.
FaceletsReal ==
    /\ Facelets(cubie) =
         {[face |-> FaceFromNormal(places[f].normal),
           index |-> FaceletIndex(FaceFromNormal(places[f].normal), places[f].at),
           sticker |-> f] : f \in DOMAIN places}
    /\ \A f \in DOMAIN places :
         LET face == FaceFromNormal(places[f].normal)
         IN  \A p \in Positions :
                face \in Stickers(p) /\ p # places[f].at
                    => FaceletIndex(face, p) # FaceletIndex(face, places[f].at)
=============================================================================
