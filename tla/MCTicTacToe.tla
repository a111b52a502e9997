---------------------------- MODULE MCTicTacToe -----------------------------
(* An instance of TicTacToe: enough places to win a game.                  *)
EXTENDS TicTacToe, TLC

MCIndexes == {-1, 0, 1, 2}
Symmetry == Permutations(Players) \cup Permutations(BoardIds)
=============================================================================
