-------------------------------- MODULE Game --------------------------------
(***************************************************************************)
(* networks/parta, over TCP: a tic-tac-toe server with one thread per      *)
(* player (handle_game), which share the board under turn_mutex and pass   *)
(* the turn with a condition variable, and ask after a win whether to play *)
(* again.                                                                  *)
(*                                                                         *)
(* What runs under turn_mutex is one step up to the next recv(), but       *)
(* initialize_board() and the end of a drawn game write the shared         *)
(* variables without it, so a move and a reset are two steps each.         *)
(***************************************************************************)
EXTENDS Integers, FiniteSets

Players == {1, 2}
Nobody  == 0
Draw    == 0
Cells   == 0..8
Blank   == 0         \* a cell holds 0, or the player whose mark it is

VARIABLES
  board, current_player, move_count, game_over,
  turn_mutex,        \* the thread that holds it
  pc,                \* per thread: where it is
  yes,               \* per thread: player_response in ask_play_again()
  closed,            \* the connections the server has closed
  left,              \* the players whose client has ended
  said,              \* history: the verdicts announced in this game
  late               \* history: the board was reset when a move had been made in this game

game   == <<board, current_player, move_count, game_over>>
conns  == <<closed, left>>
record == <<said, late>>
vars   == <<game, turn_mutex, pc, yes, conns, record>>

Points == {"loop", "lock", "wait", "recv", "count", "after", "ask", "ask1", "ask2",
           "reset1", "reset2", "close", "end"}

TypeOK ==
  /\ board \in [Cells -> Players \cup {Blank}]
  /\ current_player \in Players /\ move_count \in 0..10 /\ game_over \in BOOLEAN
  /\ turn_mutex \in Players \cup {Nobody}
  /\ pc \in [Players -> Points] /\ yes \in [Players -> BOOLEAN]
  /\ closed \subseteq Players /\ left \subseteq Players
  /\ said \subseteq Players \cup {Draw} /\ late \in BOOLEAN

\* main(): both players are connected and the board is initialized.
Init ==
  /\ board = [c \in Cells |-> Blank] /\ current_player = 1
  /\ move_count = 0 /\ game_over = FALSE
  /\ turn_mutex = Nobody
  /\ pc = [t \in Players |-> "loop"] /\ yes = [t \in Players |-> FALSE]
  /\ closed = {} /\ left = {}
  /\ said = {} /\ late = FALSE

-----------------------------------------------------------------------------

Opponent(p) == 3 - p

Goto(t, at) == pc' = [pc EXCEPT ![t] = at]

\* pthread_mutex_unlock(): releases the mutex, whoever holds it.
Unlock == turn_mutex' = Nobody

\* pthread_cond_broadcast() by thread t, which goes on at `at'.
Broadcast(t, at) ==
  pc' = [u \in Players |-> IF u = t THEN at ELSE IF pc[u] = "wait" THEN "lock" ELSE pc[u]]

is_valid_move(m) == m \in Cells /\ board[m] = Blank

Lines == {{0, 1, 2}, {3, 4, 5}, {6, 7, 8}, {0, 3, 6}, {1, 4, 7}, {2, 5, 8},
          {0, 4, 8}, {2, 4, 6}}

\* The player whose turn it is, when there is a complete line of either mark.
check_winner ==
  IF \E l \in Lines : \E p \in Players : \A c \in l : board[c] = p
  THEN current_player ELSE 0

-----------------------------------------------------------------------------
(* handle_game(): the loop that plays a game.                              *)

\* The loop's condition is read without the mutex.
Loop(t) ==
  /\ pc[t] = "loop"
  /\ Goto(t, IF move_count < 9 THEN "lock" ELSE "after")
  /\ UNCHANGED <<game, turn_mutex, yes, conns, record>>

\* Mutant: after waiting, only the turn is looked at.
LockIgnoresEnd(t) ==
  /\ pc[t] = "lock" /\ turn_mutex = Nobody
  /\ IF current_player # t /\ ~game_over
     THEN Goto(t, "wait") /\ UNCHANGED turn_mutex
     ELSE Goto(t, "recv") /\ turn_mutex' = t
  /\ UNCHANGED <<game, yes, conns, record>>

\* Take the mutex, on entry or when pthread_cond_wait() returns: wait on, leave
\* a game that is over, or ask the player for a move, with the mutex held.
Lock(t) ==
  /\ pc[t] = "lock" /\ turn_mutex = Nobody
  /\ IF game_over
     THEN Goto(t, "after") /\ UNCHANGED turn_mutex
     ELSE IF current_player # t
     THEN Goto(t, "wait") /\ UNCHANGED turn_mutex
     ELSE Goto(t, "recv") /\ turn_mutex' = t
  /\ UNCHANGED <<game, yes, conns, record>>

\* recv() fails: the thread ends, and with it the player's connection.
Disconnected(t) ==
  /\ pc[t] = "recv" /\ t \in left \cup closed
  /\ closed' = closed \cup {t}
  /\ Unlock /\ Goto(t, "end")
  /\ UNCHANGED <<game, yes, left, record>>

\* Not a digit from 0 to 8, or a cell that is taken.
Invalid(t) ==
  /\ pc[t] = "recv" /\ t \notin left
  /\ Unlock /\ Goto(t, "loop")
  /\ UNCHANGED <<game, yes, conns, record>>

\* A valid move.  The mark is that of current_player.
Place(t, m) ==
  /\ pc[t] = "recv" /\ t \notin left
  /\ is_valid_move(m)
  /\ board' = [board EXCEPT ![m] = current_player]
  /\ Goto(t, "count")
  /\ UNCHANGED <<current_player, move_count, game_over, turn_mutex, yes, conns, record>>

\* Mutant: the other thread is not woken.
WinSilent(t) ==
  /\ said' = said \cup {check_winner}
  /\ game_over' = TRUE
  /\ Goto(t, "after")
  /\ UNCHANGED <<current_player, late>>

Win(t) ==
  /\ said' = said \cup {check_winner}
  /\ game_over' = TRUE
  /\ Broadcast(t, "after")
  /\ UNCHANGED <<current_player, late>>

\* Mutant: the turn stays where it is.
KeepTurn(t) == Broadcast(t, "loop") /\ UNCHANGED <<current_player, game_over, record>>

SwitchTurn(t) ==
  /\ current_player' = Opponent(current_player)
  /\ Broadcast(t, "loop")
  /\ UNCHANGED <<game_over, record>>

\* Count the move, and look for a winner.
Count(t) ==
  /\ pc[t] = "count"
  /\ move_count' = move_count + 1
  /\ IF check_winner # 0 THEN Win(t) ELSE SwitchTurn(t)
  /\ Unlock
  /\ UNCHANGED <<board, yes, conns>>

\* After the loop: nine moves are a draw.  The mutex, which this thread does not
\* hold, is unlocked all the same.
After(t) ==
  /\ pc[t] = "after"
  /\ IF move_count = 9
     THEN /\ said' = said \cup {Draw}
          /\ game_over' = TRUE
          /\ Broadcast(t, "close") /\ Unlock
     ELSE Goto(t, "ask") /\ UNCHANGED <<said, game_over, turn_mutex>>
  /\ UNCHANGED <<board, current_player, move_count, yes, conns, late>>

-----------------------------------------------------------------------------
(* ask_play_again().                                                       *)

\* handle_client_disconnection(): both connections are closed.
HangUp(t) == Unlock /\ closed' = Players /\ Goto(t, "end")

\* The first messages: send() fails on a connection the server has closed.
Ask(t) ==
  /\ pc[t] = "ask" /\ turn_mutex = Nobody
  /\ IF closed # {}
     THEN HangUp(t)
     ELSE turn_mutex' = t /\ Goto(t, "ask1") /\ UNCHANGED closed
  /\ UNCHANGED <<game, yes, left, record>>

\* The thread's own player answers; one who says no ends his client.
Answer1(t) ==
  /\ pc[t] = "ask1"
  /\ \/ /\ t \in left \cup closed
        /\ HangUp(t)
        /\ UNCHANGED <<yes, left>>
     \/ /\ t \notin left
        /\ \E r \in BOOLEAN :
             /\ left' = IF r THEN left ELSE left \cup {t}
             /\ IF Opponent(t) \in closed
                THEN HangUp(t) /\ UNCHANGED yes
                ELSE /\ yes' = [yes EXCEPT ![t] = r]
                     /\ Goto(t, "ask2") /\ UNCHANGED <<turn_mutex, closed>>
  /\ UNCHANGED <<game, record>>

\* The other player answers.
Answer2(t) ==
  /\ pc[t] = "ask2"
  /\ \/ /\ Opponent(t) \in left \cup closed
        /\ HangUp(t)
        /\ UNCHANGED left
     \/ /\ Opponent(t) \notin left
        /\ \E r \in BOOLEAN :
             /\ left' = IF r THEN left ELSE left \cup {Opponent(t)}
             /\ Goto(t, IF yes[t] /\ r THEN "reset1" ELSE "close")
        /\ Unlock /\ UNCHANGED closed
  /\ yes' = [yes EXCEPT ![t] = FALSE]
  /\ UNCHANGED <<game, record>>

\* A move has been made in the game that is on.
Started == said = {} /\ (move_count # 0 \/ \E c \in Cells : board[c] # Blank)

\* initialize_board(), without the mutex and by both threads: the cells, ...
Reset1(t) ==
  /\ pc[t] = "reset1"
  /\ board' = [c \in Cells |-> Blank]
  /\ late' = (late \/ Started)
  /\ Goto(t, "reset2")
  /\ UNCHANGED <<current_player, move_count, game_over, turn_mutex, yes, conns, said>>

\* ... and then the counters.  The first thread to do so begins the new game.
Reset2(t) ==
  /\ pc[t] = "reset2"
  /\ move_count' = 0 /\ current_player' = 1 /\ game_over' = FALSE
  /\ said' = {}
  /\ late' = (said = {} /\ (late \/ Started))
  /\ Goto(t, "loop")
  /\ UNCHANGED <<board, turn_mutex, yes, conns>>

\* The end of the thread.
Close(t) ==
  /\ pc[t] = "close"
  /\ closed' = Players
  /\ Goto(t, "end")
  /\ UNCHANGED <<game, turn_mutex, yes, left, record>>

\* A player's client ends, by itself or because its connection is closed.
Leave(p) ==
  /\ p \notin left
  /\ left' = left \cup {p}
  /\ UNCHANGED <<game, turn_mutex, pc, yes, closed, record>>

-----------------------------------------------------------------------------

Receive(t) == Disconnected(t) \/ Invalid(t) \/ \E m \in Cells : Place(t, m)

Thread(t) ==
  \/ Loop(t) \/ Lock(t) \/ Receive(t) \/ Count(t) \/ After(t)
  \/ Ask(t) \/ Answer1(t) \/ Answer2(t) \/ Reset1(t) \/ Reset2(t) \/ Close(t)

Next == \E t \in Players : Thread(t) \/ Leave(t)

Spec == Init /\ [][Next]_vars

\* Threads run, players answer, and in the end with a valid move.
FairSpec ==
  /\ Spec
  /\ \A t \in Players : WF_vars(Thread(t)) /\ SF_vars(\E m \in Cells : Place(t, m))

-----------------------------------------------------------------------------
(* Properties.                                                             *)

Marks(p) == {c \in Cells : board[c] = p}

\* The players move in turn, whatever the interleaving of their threads: the
\* marks on the board are those of as many moves as were counted, half of them
\* each player's, a player is asked for a move only when it is his turn, and the
\* threads never wait for one another, each for the other's move.  This holds in the
\* first game, and in a replay unless the second thread's reset comes after the first
\* move: then a move may be lost or a turn repeated, and the turn changes without
\* waking the thread whose turn it has become.
MovesAlternate ==
  ~late =>
    /\ \E t \in Players : pc[t] # "wait"
    /\ \A t \in Players : pc[t] = "recv" => current_player = t
    /\ (\A t \in Players : pc[t] \notin {"count", "reset2"}) =>
         /\ Cardinality(Marks(1) \cup Marks(2)) = move_count
         /\ Cardinality(Marks(1)) - Cardinality(Marks(2)) \in {0, 1}

\* Once a verdict has been announced nobody moves any more in that game.  With a late
\* reset the ninth counted move may leave a free cell, for the thread that is already
\* asking for another.
NoMoveAfterVerdict ==
  [][\A t \in Players : said # {} /\ ~late /\ pc'[t] = "count" => pc[t] = "count"]_vars

\* When the players stay until they are told that the game is over, and do not
\* both agree to another one, the server ends: no thread waits for ever.
ServerEnds ==
  ([](\A p \in Players : p \in left => said # {}) /\ [](\A t \in Players : pc[t] # "reset1"))
    => <>(\A t \in Players : pc[t] = "end")

-----------------------------------------------------------------------------
(* What the server says of itself, and does not keep.                      *)

\* "Notify both players if the game is a draw" (line 308): a draw is announced of a
\* game that nobody has won.  A win with the ninth move is announced as both.
DrawHasNoWinner == Draw \in said => said = {Draw}

\* "Reset the board and start a new game" (line 326): a move that has been made stays
\* on the board until the game has its verdict.  The second thread's reset takes it
\* away.
MovesKept ==
  [][\A c \in Cells : board[c] # Blank /\ board'[c] = Blank => said # {}]_vars

=============================================================================
