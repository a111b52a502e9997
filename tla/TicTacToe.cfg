SPECIFICATION TicTacToeSpec
CONSTANTS
    Players = {s1, s2}
    BoardIds = {b1, b2, b3}
    NoBoard = NoBoard
    Waits = {w1}
    Indexes <- MCIndexes
    Levels = {0, 3}
    Rands = {3}
    MaxMoves = 6
INVARIANTS
    BoardsAreCounted
    BoardIsItsHistory
SYMMETRY Symmetry
