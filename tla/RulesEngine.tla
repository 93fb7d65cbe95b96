---------------------------- MODULE RulesEngine ----------------------------
(***************************************************************************)
(* The rules of one game: internal/game (board.go, rules.go, state.go).    *)
(* A GameState is single-threaded; its callers serialise on rec.Lock.      *)
(*                                                                         *)
(* A position is an axial pair and player i has colour i + 1.  The array   *)
(* of Board is given by its inverse: stones[c] are the cells of colour c,  *)
(* what is in no stones[c] is empty, what is not in Cells is off board.    *)
(* ApplyMove uses `now' only for the time elapsed since TurnStartedAt,     *)
(* so a move's input is its elapsed time.                                  *)
(***************************************************************************)
EXTENDS Integers, FiniteSets, FiniteSetsExt

CONSTANTS Side,             \* Config.BoardSide
          NumPlayers,       \* len(Players)
          GemsPerPlayer,
          CapturePairsWin, Align4ToWin, Align5ToWin,   \* 0 disables one
          InitialTimeMs,    \* 0 disables the clock
          IncrementMs,
          Spots,            \* bound: the positions that are tried
          Elapses           \* bound: the thinking times, in ms

ASSUME SizeAssumption ==
  /\ Side \in Nat \ {0} /\ NumPlayers \in 2 .. 6 /\ GemsPerPlayer \in Nat
ASSUME ConfigAssumption ==
  /\ CapturePairsWin \in Nat /\ Align4ToWin \in Nat /\ Align5ToWin \in Nat
  /\ InitialTimeMs \in Nat /\ IncrementMs \in Nat
ASSUME InputAssumption == Spots \subseteq Int \X Int /\ Elapses \subseteq Int

VARIABLES stones,                         \* Board
          gems, pairs, remaining,         \* the fields of Players
          turn, started,                  \* started: ~TurnStartedAt.IsZero()
          winner, kind

vars == <<stones, gems, pairs, remaining, turn, started, winner, kind>>

Players == 0 .. (NumPlayers - 1)
Color(i) == i + 1
Colors  == {Color(i) : i \in Players}
NoOne   == -1

LineKinds == {"alignment6", "alignment5", "alignment4", "capture"}
Kinds == LineKinds \cup {"none", "timeout", "resign", "draw"}

\* Board.In
Radius == (1 - Side) .. (Side - 1)
Cells  == {p \in Radius \X Radius : p[1] + p[2] \in Radius}

\* The three line axes.
Directions == {<<1, 0>>, <<0, 1>>, <<1, -1>>}
Shift(p, d, k) == <<p[1] + k * d[1], p[2] + k * d[2]>>

TypeOK ==
  /\ stones \in [Colors -> SUBSET Cells]
  /\ \A c, e \in Colors : c # e => stones[c] \cap stones[e] = {}
  /\ gems \in [Players -> 0 .. GemsPerPlayer]
  /\ pairs \in [Players -> Nat]
  /\ remaining \in [Players -> Nat]
  /\ turn \in Players /\ started \in BOOLEAN
  /\ winner \in Players \cup {NoOne} /\ kind \in Kinds

\* NewGame; StartClock is a step of its own.
Init ==
  /\ stones = [c \in Colors |-> {}]
  /\ gems = [i \in Players |-> GemsPerPlayer]
  /\ pairs = [i \in Players |-> 0]
  /\ remaining = [i \in Players |-> InitialTimeMs]
  /\ turn = 0 /\ started = FALSE
  /\ winner = NoOne /\ kind = "none"

IsOver == kind # "none"
ClockEnabled == InitialTimeMs > 0

\* Called once, before the first move, when the game starts and when it is
\* loaded without moves; never before a replay.
StartClock ==
  /\ ClockEnabled /\ ~started /\ ~IsOver
  /\ \A i \in Players : gems[i] = GemsPerPlayer
  /\ started' = TRUE
  /\ UNCHANGED <<stones, gems, pairs, remaining, turn, winner, kind>>

-----------------------------------------------------------------------------
(* rules.go                                                                *)

Occupied(b) == UNION {b[c] : c \in Colors}
Pair(c) == {Shift(c[1], c[2], 1), Shift(c[1], c[2], 2)}

\* [by][v][v][by] starting at c[1] in direction c[2].
TryCapture(b, c, by) ==
  /\ {c[1], Shift(c[1], c[2], 3)} \subseteq b[by]
  /\ \E v \in Colors \ {by} : Pair(c) \subseteq b[v]

\* Mutant of DetectCaptures: an empty middle counts as a victim.
DetectCapturesOfAir(b, from, by) ==
  {c \in UNION {{from, Shift(from, d, -3)} \X {d} : d \in Directions} :
     \/ TryCapture(b, c, by)
     \/ /\ {c[1], Shift(c[1], c[2], 3)} \subseteq b[by]
        /\ Pair(c) \cap Occupied(b) = {}}

\* The new stone is one flanker or the other.
DetectCaptures(b, from, by) ==
  {c \in UNION {{from, Shift(from, d, -3)} \X {d} : d \in Directions} :
     TryCapture(b, c, by)}

\* forEachMaximalRun looks at the stones S of one colour.  A run is counted
\* at its origin, and is maximal when neither end can be extended.
HasRun(S, minLen) ==
  \E p \in S, d \in Directions : \A k \in 1 .. minLen - 1 : Shift(p, d, k) \in S

\* Mutant of CountMaximalRuns: longer runs count as well.
CountRuns(S, length) ==
  Cardinality({r \in S \X Directions :
                 /\ Shift(r[1], r[2], -1) \notin S
                 /\ \A k \in 1 .. length - 1 : Shift(r[1], r[2], k) \in S})

CountMaximalRuns(S, length) ==
  Cardinality({r \in S \X Directions :
                 /\ Shift(r[1], r[2], -1) \notin S
                 /\ \A k \in 1 .. length - 1 : Shift(r[1], r[2], k) \in S
                 /\ Shift(r[1], r[2], length) \notin S})

-----------------------------------------------------------------------------
(* state.go                                                                *)

Reached(n, threshold) == threshold > 0 /\ n >= threshold

\* checkWin, for the player with the stones S and n captured pairs.
CheckWin(S, n) ==
  IF HasRun(S, 6) THEN "alignment6"
  ELSE IF Reached(CountMaximalRuns(S, 5), Align5ToWin) THEN "alignment5"
  ELSE IF Reached(CountMaximalRuns(S, 4), Align4ToWin) THEN "alignment4"
  ELSE IF Reached(n, CapturePairsWin) THEN "capture"
  ELSE "none"

\* The time a move costs: none before the clock runs, none for a clock skew.
Charge(elapsed) == IF ClockEnabled /\ started /\ elapsed > 0 THEN elapsed ELSE 0
Increment == IF ClockEnabled /\ started THEN IncrementMs ELSE 0

\* Mutant of Legal: an exhausted clock is not refused.
LegalLate(pos, elapsed) ==
  ~IsOver /\ pos \in Cells \ Occupied(stones) /\ gems[turn] > 0

\* No error of ApplyMove applies.  (ErrWrongTurn is left out: the mover is
\* taken to be the player on turn.)
Legal(pos, elapsed) ==
  /\ ~IsOver /\ pos \in Cells \ Occupied(stones) /\ gems[turn] > 0
  /\ Charge(elapsed) <= remaining[turn]

\* The stones once by has placed one at pos.
Placed(pos, by) == [stones EXCEPT ![by] = @ \cup {pos}]

ApplyMove(pos, elapsed) ==
  LET by       == Color(turn)
      captures == DetectCaptures(Placed(pos, by), pos, by)
      taken    == UNION {Pair(c) : c \in captures}
  IN  /\ Legal(pos, elapsed)
      /\ stones' = [c \in Colors |-> Placed(pos, by)[c] \ taken]
      /\ gems' = [gems EXCEPT ![turn] = @ - 1]
      /\ pairs' = [pairs EXCEPT ![turn] = @ + Cardinality(captures)]
      /\ remaining' = [remaining EXCEPT ![turn] =
                         @ - Charge(elapsed) + Increment]
      /\ kind' = CheckWin(stones'[by], pairs'[turn])
      /\ IF kind' = "none"
           THEN /\ turn' = (turn + 1) % NumPlayers
                /\ started' = ClockEnabled /\ UNCHANGED winner
           ELSE winner' = turn /\ UNCHANGED <<turn, started>>

\* Two players leave a survivor, more leave none.
Survivor(loser) == IF NumPlayers = 2 THEN 1 - loser ELSE NoOne

\* handleFlag and handleDisconnectTimeout.
Forfeit(loser) ==
  /\ ~IsOver
  /\ kind' = "timeout" /\ winner' = Survivor(loser)
  /\ remaining' = IF NumPlayers = 2 THEN remaining
                                    ELSE [remaining EXCEPT ![loser] = 0]
  /\ UNCHANGED <<stones, gems, pairs, turn, started>>

Resign(loser) ==
  /\ ~IsOver
  /\ kind' = "resign" /\ winner' = Survivor(loser)
  /\ UNCHANGED <<stones, gems, pairs, remaining, turn, started>>

\* AcceptDraw, the caller, allows it for two players only.
AgreeDraw ==
  /\ NumPlayers = 2 /\ ~IsOver
  /\ kind' = "draw"
  /\ UNCHANGED <<stones, gems, pairs, remaining, turn, started, winner>>

Next ==
  \/ StartClock \/ AgreeDraw
  \/ \E pos \in Spots, elapsed \in Elapses : ApplyMove(pos, elapsed)
  \/ \E loser \in Players : Forfeit(loser) \/ Resign(loser)

Spec == Init /\ [][Next]_vars

-----------------------------------------------------------------------------
(* Reference definitions: straight lines as sets of cells, without an      *)
(* origin or a direction.                                                  *)

Segment(p, d, n) == {Shift(p, d, k) : k \in 0 .. n - 1}
LongSegments ==
  {S \in {Segment(p, d, n) : p \in Cells, d \in Directions, n \in 4 .. 2 * Side - 1} :
     S \subseteq Cells}

\* Four cells in a line: the two at the ends and the two between them.
Quad(p, d) == [ends |-> {p, Shift(p, d, 3)}, mid |-> Pair(<<p, d>>)]
Quads == {Q \in {Quad(p, d) : p \in Cells, d \in Directions} : Q.ends \subseteq Cells}

\* The alignments of colour c: its long segments that are part of no longer.
Alignments(c) ==
  LET own == {S \in LongSegments : S \subseteq stones[c]}
  IN  {S \in own : ~\E T \in own : S \subseteq T /\ S # T}

Judgement(i) ==
  LET lines == Alignments(Color(i))
      many(n, threshold) ==
        threshold > 0 /\ Cardinality({S \in lines : Cardinality(S) = n}) >= threshold
  IN  IF \E S \in lines : Cardinality(S) >= 6 THEN "alignment6"
      ELSE IF many(5, Align5ToWin) THEN "alignment5"
      ELSE IF many(4, Align4ToWin) THEN "alignment4"
      ELSE IF CapturePairsWin > 0 /\ pairs[i] >= CapturePairsWin THEN "capture"
      ELSE "none"

Total(f) == MapThenSumSet(LAMBDA i : f[i], Players)

\* Who placed the last stone.
Mover == IF kind \in LineKinds THEN turn ELSE (turn - 1) % NumPlayers

-----------------------------------------------------------------------------
\* Every gem that has left a stock lies on the board or was captured, once:
\* captures along several axes at a time never take a stone twice, nor one
\* that is not there (DetectCaptures, ApplyMove).
StonesAccounted ==
  Total([i \in Players |-> GemsPerPlayer - gems[i]])
    = Cardinality(Occupied(stones)) + 2 * Total(pairs)

\* README.md:27-28, the position decides at once, and for the player who
\* moved: the game goes on exactly if the last stone completed nothing, and
\* ends with the best thing it completed (checkWin, forEachMaximalRun).
LastMoveIsJudged ==
  Judgement(Mover) = IF kind \in LineKinds THEN kind ELSE "none"

\* README.md:27, what a move removes: every pair of one foreign colour that
\* is closed in by the new stone at one end and an own one at the other, and
\* nothing else; in particular never a stone of the mover's.
CapturesAreFlanked ==
  [][\A c \in Colors : \A p \in stones'[c] \ stones[c] :
       LET closed == {Q \in Quads :
                        /\ p \in Q.ends /\ Q.ends \ {p} \subseteq stones[c]
                        /\ \E v \in Colors \ {c} : Q.mid \subseteq stones[v]}
       IN  Occupied(stones) \ Occupied(stones') = UNION {Q.mid : Q \in closed}]_vars
=============================================================================
