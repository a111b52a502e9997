----------------------------- MODULE TicTacToe ------------------------------
(***************************************************************************)
(* The tic-tac-toe binding (bindings/samples/tic-tac-toe.c): boards shared *)
(* by the sessions that joined them, each kept as the context of the       *)
(* session, the game, the computer's moves, and the requests that wait for *)
(* a change.  A verb is one step: the binding has no lock, and the model   *)
(* says nothing of two verbs run at the same time by two threads.          *)
(***************************************************************************)
EXTENDS Integers, Sequences, FiniteSets, SequencesExt

CONSTANTS
    Players,        \* the sessions that play
    BoardIds,       \* the ids that rand gives to the boards
    NoBoard,        \* no board, or an id that is not found
    Waits,          \* requests that may wait
    Indexes,        \* numbers given to move: -1 when it is missing
    Levels,         \* numbers given to level
    Rands,          \* values of rand() % 9
    MaxMoves        \* bound on the moves of all the games

ASSUME BoardsAssumption ==
    /\ IsFiniteSet(Players) /\ NoBoard \notin BoardIds
    /\ Cardinality(BoardIds) > Cardinality(Players)
    /\ MaxMoves \in Nat /\ Rands \subseteq 0..8 /\ Rands # {}

VARIABLES
    all_boards,     \* the live boards, by id
    context,        \* the board of each session, or NoBoard
    requests        \* the state of the requests that wait

ticTacToeVars == <<all_boards, context, requests>>

Cells == 0..8
Blank == [i \in Cells |-> "blank"]
Freed == [use_count |-> 0, level |-> 0, history |-> <<>>, board |-> Blank, waiters |-> {}]

TicTacToeInit ==
    /\ all_boards = [b \in BoardIds |-> Freed]
    /\ context = [s \in Players |-> NoBoard]
    /\ requests = [w \in Waits |-> "none"]

-----------------------------------------------------------------------------
(* The game.                                                               *)

Lines == {{0, 4, 8}, {2, 4, 6}, {0, 1, 2}, {3, 4, 5}, {6, 7, 8}, {0, 3, 6}, {1, 4, 7}, {2, 5, 8}}

(* winner: who has a line, or "blank".                                     *)
winner(b) ==
    LET won == {c \in {b[i] : i \in Cells} \ {"blank"} : \E l \in Lines : \A i \in l : b[i] = c}
    IN  IF won = {} THEN "blank" ELSE CHOOSE c \in won : TRUE

color(move) == IF move % 2 = 0 THEN "X" ELSE "0"

(* add_move.                                                               *)
Moved(B, index) ==
    [B EXCEPT !.board[index] = color(Len(B.history)), !.history = Append(@, index)]

(* get_random_move: from any place, the next that is free.                 *)
get_random_move(b) ==
    {(r + CHOOSE k \in Cells : b[(r + k) % 9] = "blank" /\ \A j \in 0..k - 1 : b[(r + j) % 9] # "blank") % 9 : r \in Rands}

(* The other player, for score_position: the sum of the letters X and O    *)
(* less the one given, where the second player has a zero.                 *)
Marks == {"X", "O", "0", "w"}
Opponent(c) == CASE c = "X" -> "O" [] c = "O" -> "X" [] c = "0" -> "w" [] c = "w" -> "0"

(* score_position, of a board, who played and a depth.                     *)
Positions == [Cells -> Marks \cup {"blank"}] \X Marks \X (1..9)
score_position[p \in Positions] ==
    LET b == p[1]
        c == p[2]
        depth == p[3]
        o == Opponent(c)
        scores == {score_position[<<[b EXCEPT ![i] = o], o, depth - 1>>] : i \in {k \in Cells : b[k] = "blank"}}
    IN  IF winner(b) = c THEN 1
        ELSE IF depth = 1 THEN 0
        ELSE IF \E t \in scores : t > 0 THEN -1
        ELSE IF 0 \in scores THEN 0 ELSE 1

(* get_move: a move that wins, or one of those that do not lose, or any.   *)
get_move(B) ==
    LET moves == Len(B.history)
        depth == IF moves + B.level - 1 > 9 THEN 9 - moves ELSE B.level - 1
        c == color(moves)
        score == [i \in {k \in Cells : B.board[k] = "blank"} |->
                    score_position[<<[B.board EXCEPT ![i] = c], c, depth>>]]
        wins == {i \in DOMAIN score : score[i] > 0}
        marked == [i \in Cells |-> IF i \in DOMAIN score /\ score[i] < 0 THEN "+" ELSE B.board[i]]
    IN  IF depth = 0 THEN get_random_move(B.board)
        ELSE IF wins # {} THEN {CHOOSE i \in wins : \A k \in wins : i <= k}
        ELSE IF \E i \in DOMAIN score : score[i] = 0 THEN get_random_move(marked)
        ELSE get_random_move(B.board)

-----------------------------------------------------------------------------
(* The boards.                                                             *)

search_board(id) == id \in BoardIds /\ all_boards[id].use_count > 0

(* get_new_board, and the ids that rand may give.                          *)
get_new_board == [use_count |-> 1, level |-> 1, history |-> <<>>, board |-> Blank, waiters |-> {}]
FreeIds == {b \in BoardIds : ~search_board(b)}

(* release_board: its waiters are freed with it, without a reply.          *)
release_board(boards, b) ==
    IF b = NoBoard THEN boards
    ELSE IF boards[b].use_count = 1 THEN [boards EXCEPT ![b] = Freed]
    ELSE [boards EXCEPT ![b].use_count = @ - 1]

(* board_of_req: the board of s is b, made for s if it had none.           *)
board_of_req(s, b) == b = context[s] \/ (context[s] = NoBoard /\ b \in FreeIds)
BoardsWith(b) == IF search_board(b) THEN all_boards ELSE [all_boards EXCEPT ![b] = get_new_board]

(* changed, after the board b is made B: its waiters are replied.          *)
changed(s, b, boards, B) ==
    /\ all_boards' = [boards EXCEPT ![b] = [B EXCEPT !.waiters = {}]]
    /\ requests' = [w \in Waits |-> IF w \in B.waiters THEN "replied" ELSE requests[w]]
    /\ context' = [context EXCEPT ![s] = b]

(* A verb that fails, or only tells.                                       *)
Untouched(s, b, boards) ==
    /\ all_boards' = boards
    /\ context' = [context EXCEPT ![s] = b]
    /\ UNCHANGED requests

MovesMade == FoldSet(LAMBDA b, n : n + Len(all_boards[b].history), 0, BoardIds)

-----------------------------------------------------------------------------
(* The verbs, for a session s whose board is b among boards.               *)

new(s, b, boards) ==
    changed(s, b, boards, [boards[b] EXCEPT !.board = Blank, !.history = <<>>])

MutMayMove(B, i) == B.board[i] = "blank"

(* What move checks once its index is good.                                *)
MayMove(B, i) == winner(B.board) = "blank" /\ B.board[i] = "blank"

move(s, b, boards, i) ==
    /\ MovesMade < MaxMoves
    /\ IF i \in Cells /\ MayMove(boards[b], i)
       THEN changed(s, b, boards, Moved(boards[b], i))
       ELSE Untouched(s, b, boards)

level(s, b, boards, l) ==
       IF l \in 1..10
       THEN changed(s, b, boards, [boards[b] EXCEPT !.level = l])
       ELSE Untouched(s, b, boards)

Undone(B) == [B EXCEPT !.board[Last(B.history)] = "blank", !.history = Front(@)]

undo(s, b, boards) ==
       IF boards[b].history # <<>>
       THEN changed(s, b, boards, Undone(boards[b]))
       ELSE Untouched(s, b, boards)

play(s, b, boards) ==
    LET B == boards[b]
    IN  /\ MovesMade < MaxMoves
        /\ IF winner(B.board) # "blank" \/ Len(B.history) = 9
           THEN Untouched(s, b, boards)
           ELSE \E i \in get_move(B) : changed(s, b, boards, Moved(B, i))

(* The verb board, describe.                                               *)
board(s, b, boards) == Untouched(s, b, boards)

wait(s, b, boards, w) ==
    /\ requests[w] = "none"
    /\ requests' = [requests EXCEPT ![w] = "waits"]
    /\ all_boards' = [boards EXCEPT ![b].waiters = @ \cup {w}]
    /\ context' = [context EXCEPT ![s] = b]

Verb(s, b, boards) ==
    \/ new(s, b, boards)
    \/ \E i \in Indexes : move(s, b, boards, i)
    \/ \E l \in Levels : level(s, b, boards, l)
    \/ undo(s, b, boards)
    \/ play(s, b, boards)
    \/ board(s, b, boards)
    \/ \E w \in Waits : wait(s, b, boards, w)

VerbCalled(s) == \E b \in BoardIds : board_of_req(s, b) /\ Verb(s, b, BoardsWith(b))

MutJoined(boards, old, id) == [boards EXCEPT ![id].use_count = @ + 1]

(* join of a board found: one more user, unless it is the one left.        *)
Joined(boards, old, id) ==
    IF id = old THEN boards ELSE release_board([boards EXCEPT ![id].use_count = @ + 1], old)

(* join, of a session that is checked.  The id of a call without boardid,  *)
(* or of no board, is refused.                                             *)
join(s, id) ==
    /\ context[s] # NoBoard
    /\ IF search_board(id)
       THEN /\ all_boards' = Joined(all_boards, context[s], id)
            /\ context' = [context EXCEPT ![s] = id]
       ELSE UNCHANGED <<all_boards, context>>
    /\ UNCHANGED requests

(* join of the board "none": a new one.                                    *)
join_none(s, id) ==
    /\ context[s] # NoBoard /\ id \in FreeIds
    /\ all_boards' = release_board([all_boards EXCEPT ![id] = get_new_board], context[s])
    /\ context' = [context EXCEPT ![s] = id]
    /\ UNCHANGED requests

(* The session is closed: its context is released.                         *)
SessionClosed(s) ==
    /\ context[s] # NoBoard
    /\ all_boards' = release_board(all_boards, context[s])
    /\ context' = [context EXCEPT ![s] = NoBoard]
    /\ UNCHANGED requests

TicTacToeNext ==
    \E s \in Players :
        \/ VerbCalled(s)
        \/ \E id \in BoardIds \cup {NoBoard} : join(s, id) \/ join_none(s, id)
        \/ SessionClosed(s)

TicTacToeSpec == TicTacToeInit /\ [][TicTacToeNext]_ticTacToeVars

-----------------------------------------------------------------------------
(* Properties.                                                             *)

Boards ==
    [use_count : Nat, level : 0..10, history : Seq(Cells), board : [Cells -> {"blank", "X", "0"}],
     waiters : SUBSET Waits]

BoardsTypeOK ==
    /\ all_boards \in [BoardIds -> Boards]
    /\ context \in [Players -> BoardIds \cup {NoBoard}]
    /\ requests \in [Waits -> {"none", "waits", "replied"}]

(* The count of a board is the number of the sessions whose context it is: *)
(* joining one's own board, an other's or a new one, closing a session,    *)
(* never free a board in use nor keep one that is not.  The requests that  *)
(* wait on a board are not replied.                                        *)
BoardsAreCounted ==
    /\ BoardsTypeOK
    /\ \A b \in BoardIds : all_boards[b].use_count = Cardinality({s \in Players : context[s] = b})
    /\ \A b \in BoardIds : \A w \in all_boards[b].waiters :
          requests[w] = "waits" /\ \A c \in BoardIds \ {b} : w \notin all_boards[c].waiters

(* The cells after the n first moves of a history.                         *)
After(history, n) ==
    [i \in Cells |->
        LET ms == {m \in 1..n : history[m] = i}
        IN  IF ms = {} THEN "blank" ELSE color((CHOOSE m \in ms : \A k \in ms : k <= m) - 1)]

(* The board is what its history made, move by move from an empty one, and *)
(* the game stopped at the first line: undo, new and the moves of the      *)
(* computer included.                                                      *)
BoardIsItsHistory ==
    \A b \in BoardIds :
        LET B == all_boards[b]
        IN  /\ B.board = After(B.history, Len(B.history))
            /\ \A n \in 1..Len(B.history) :
                  After(B.history, n - 1)[B.history[n]] = "blank" /\ winner(After(B.history, n - 1)) = "blank"
=============================================================================
