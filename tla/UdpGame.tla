------------------------------ MODULE UdpGame -------------------------------
(***************************************************************************)
(* networks/parta, over UDP: the tic-tac-toe server whose two threads read *)
(* from one socket, and its clients.                                       *)
(*                                                                         *)
(* A datagram goes to whichever thread calls recvfrom() next.  What runs   *)
(* under turn_mutex is one step from recvfrom() to the move and one from   *)
(* there to the unlock, since the other thread reads move_count, and after *)
(* a draw writes game_over, without the mutex.  A client answers the       *)
(* prompts one after the other; other messages it only prints.  Datagrams  *)
(* are neither lost nor duplicated: neither program has a way to go on     *)
(* after that.                                                             *)
(***************************************************************************)
EXTENDS Integers, Sequences, FiniteSets

Players    == {1, 2}
Nobody     == 0
BOARD_SIZE == 9
Cells      == 0..BOARD_SIZE - 1
Blank      == 0

\* What a player may type: a cell's digit, or one of these.
Yes   == 9
No    == 10
Empty == 11      \* nothing: a datagram of no bytes, which recvfrom() reports as 0
Other == 12
Texts == Cells \cup {Yes, No, Empty, Other}

VARIABLES
  board, current_player, move_count, game_over,
  turn_mutex,        \* the thread that holds it
  pc,                \* per thread: where it is
  addr,              \* per thread: the player that player_addr names
  yes,               \* per thread: player_response in ask_play_again()
  closed,            \* server_fd is closed
  queue,             \* datagrams that have come in: from, text
  prompts,           \* per client: prompts that have come in
  left               \* clients that have ended

game == <<board, current_player, move_count, game_over>>
net  == <<queue, prompts, left>>
vars == <<game, turn_mutex, pc, addr, yes, closed, net>>

TypeOK ==
  /\ board \in [Cells -> Players \cup {Blank}] /\ current_player \in Players
  /\ move_count \in 0..BOARD_SIZE /\ game_over \in BOOLEAN
  /\ turn_mutex \in Players \cup {Nobody}
  /\ pc \in [Players -> {"loop", "lock", "wait", "recv", "judge", "after", "ask1", "ask2", "close",
                         "end"}]
  /\ addr \in [Players -> Players] /\ yes \in [Players -> BOOLEAN] /\ closed \in BOOLEAN
  /\ queue \in Seq([from : Players, text : Texts])
  /\ prompts \in [Players -> Seq({"move", "again"})] /\ left \subseteq Players

initialize_board ==
  /\ board = [c \in Cells |-> Blank] /\ current_player = 1
  /\ move_count = 0 /\ game_over = FALSE

\* main(): both players have sent their first datagram, and the threads have been created.
Init ==
  /\ initialize_board /\ turn_mutex = Nobody
  /\ pc = [t \in Players |-> "loop"] /\ addr = [t \in Players |-> t]
  /\ yes = [t \in Players |-> FALSE] /\ closed = FALSE
  /\ queue = <<>> /\ prompts = [p \in Players |-> <<>>] /\ left = {}

Opponent(p) == 3 - p

Goto(t, at) == pc' = [pc EXCEPT ![t] = at]

\* pthread_cond_broadcast() by thread t, which goes on at `at'.
Broadcast(t, at) ==
  pc' = [u \in Players |-> IF u = t THEN at ELSE IF pc[u] = "wait" THEN "lock" ELSE pc[u]]

\* sendto() of a prompt; on a closed socket it fails, which nobody looks at.
Prompt(p, what) ==
  prompts' = IF closed \/ p \in left THEN prompts ELSE [prompts EXCEPT ![p] = Append(@, what)]

\* recvfrom(): a datagram, or an error when the socket was closed before the call.  A
\* call that waits already is not ended by close(), so after it both may happen.
Incoming    == {queue[k] : k \in DOMAIN queue \cap {1}}
recvfrom(d) == d \in Incoming /\ queue' = Tail(queue)
recvfails   == closed /\ UNCHANGED queue

is_valid_move(m) == m \in Cells /\ board[m] = Blank

Lines == {{0, 1, 2}, {3, 4, 5}, {6, 7, 8}, {0, 3, 6}, {1, 4, 7}, {2, 5, 8}, {0, 4, 8}, {2, 4, 6}}

check_winner ==
  IF \E l \in Lines : \E p \in Players : \A c \in l : board[c] = p THEN current_player ELSE 0
-----------------------------------------------------------------------------
(* handle_game()                                                           *)

Loop(t) ==
  /\ pc[t] = "loop"
  /\ Goto(t, IF move_count < BOARD_SIZE THEN "lock" ELSE "after")
  /\ UNCHANGED <<game, turn_mutex, addr, yes, closed, net>>

\* The mutex is taken, on entry or when pthread_cond_wait() returns: wait on, leave a
\* game that is over, or ask the player for a move, with the mutex held.
Lock(t) ==
  /\ pc[t] = "lock" /\ turn_mutex = Nobody
  /\ IF game_over
     THEN Goto(t, "after") /\ UNCHANGED <<turn_mutex, prompts>>
     ELSE IF current_player # t
     THEN Goto(t, "wait") /\ UNCHANGED <<turn_mutex, prompts>>
     ELSE Goto(t, "recv") /\ turn_mutex' = t /\ Prompt(addr[t], "move")
  /\ UNCHANGED <<game, addr, yes, closed, queue, left>>

\* recvfrom() fails, or finds an empty datagram: the thread closes the socket and ends.
Disconnected(t) ==
  /\ pc[t] = "recv"
  /\ \/ recvfails /\ UNCHANGED addr
     \/ \E d \in Incoming :
          recvfrom(d) /\ d.text = Empty /\ addr' = [addr EXCEPT ![t] = d.from]
  /\ closed' = TRUE
  /\ turn_mutex' = Nobody /\ Goto(t, "end")
  /\ UNCHANGED <<game, yes, prompts, left>>

\* Not a digit from 0 to 8, or a cell that is taken.
Invalid(t) ==
  /\ pc[t] = "recv"
  /\ \E d \in Incoming :
       recvfrom(d) /\ d.text # Empty /\ ~is_valid_move(d.text) /\ addr' = [addr EXCEPT ![t] = d.from]
  /\ turn_mutex' = Nobody /\ Goto(t, "loop")
  /\ UNCHANGED <<game, yes, closed, prompts, left>>

\* A valid move, by whoever has sent it.
Place(t) ==
  /\ pc[t] = "recv"
  /\ \E d \in Incoming :
       /\ recvfrom(d) /\ is_valid_move(d.text) /\ addr' = [addr EXCEPT ![t] = d.from]
       /\ board' = [board EXCEPT ![d.text] = current_player]
  /\ move_count' = move_count + 1
  /\ Goto(t, "judge")
  /\ UNCHANGED <<current_player, game_over, turn_mutex, yes, closed, prompts, left>>

\* Mutant: the turn stays where it is.
SwitchTurn_not(t) == Broadcast(t, "loop") /\ UNCHANGED <<current_player, game_over>>

SwitchTurn(t) ==
  /\ current_player' = Opponent(current_player)
  /\ Broadcast(t, "loop")
  /\ UNCHANGED game_over

Win(t) == game_over' = TRUE /\ Broadcast(t, "after") /\ UNCHANGED current_player

Judge(t) ==
  /\ pc[t] = "judge"
  /\ IF check_winner # 0 THEN Win(t) ELSE SwitchTurn(t)
  /\ turn_mutex' = Nobody
  /\ UNCHANGED <<board, move_count, addr, yes, closed, net>>

\* After the loop: nine moves are a draw; else the players are asked.
After(t) ==
  /\ pc[t] = "after"
  /\ IF move_count = BOARD_SIZE
     THEN game_over' = TRUE /\ Broadcast(t, "close") /\ UNCHANGED prompts
     ELSE Goto(t, "ask1") /\ Prompt(addr[t], "again") /\ UNCHANGED game_over
  /\ UNCHANGED <<board, current_player, move_count, turn_mutex, addr, yes, closed, queue, left>>

\* ask_play_again(): the answers of the thread's player and of the other one, or of
\* whom the datagrams are from.  A buffer that recvfrom() left empty is a no.
Ask1(t) ==
  /\ pc[t] = "ask1"
  /\ \/ \E d \in Incoming : recvfrom(d) /\ yes' = [yes EXCEPT ![t] = d.text = Yes]
     \/ recvfails /\ yes' = [yes EXCEPT ![t] = FALSE]
  /\ Prompt(Opponent(t), "again")
  /\ Goto(t, "ask2")
  /\ UNCHANGED <<game, turn_mutex, addr, closed, left>>

\* When both agree the thread goes back to its loop; nothing is reset.
Ask2(t) ==
  /\ pc[t] = "ask2"
  /\ \/ \E d \in Incoming :
          recvfrom(d) /\ Goto(t, IF yes[t] /\ d.text = Yes THEN "loop" ELSE "close")
     \/ recvfails /\ Goto(t, "close")
  /\ yes' = [yes EXCEPT ![t] = FALSE]
  /\ UNCHANGED <<game, turn_mutex, addr, closed, prompts, left>>

\* The first thread that ends closes the socket of both.
Close(t) ==
  /\ pc[t] = "close"
  /\ closed' = TRUE /\ Goto(t, "end")
  /\ UNCHANGED <<game, turn_mutex, addr, yes, net>>

-----------------------------------------------------------------------------
(* The clients.  Of the texts a prompt's answer treats alike, one is sent. *)

\* The answer to "Your move".
ClientMove(p, text) ==
  /\ p \notin left /\ prompts[p] # <<>> /\ Head(prompts[p]) = "move"
  /\ queue' = Append(queue, [from |-> p, text |-> text])
  /\ prompts' = [prompts EXCEPT ![p] = Tail(@)]
  /\ UNCHANGED <<game, turn_mutex, pc, addr, yes, closed, left>>

\* The answer to "Do you want to play again?"; a no is the client's last datagram.
ClientAgain(p, text) ==
  /\ p \notin left /\ prompts[p] # <<>> /\ Head(prompts[p]) = "again"
  /\ queue' = Append(queue, [from |-> p, text |-> text])
  /\ prompts' = [prompts EXCEPT ![p] = IF text = No THEN <<>> ELSE Tail(@)]
  /\ left' = IF text = No THEN left \cup {p} ELSE left
  /\ UNCHANGED <<game, turn_mutex, pc, addr, yes, closed>>

-----------------------------------------------------------------------------
Next ==
  \E t \in Players :
    \/ Loop(t) \/ Lock(t) \/ Disconnected(t) \/ Invalid(t) \/ Place(t) \/ Judge(t) \/ After(t)
    \/ Ask1(t) \/ Ask2(t) \/ Close(t)
    \/ \E text \in Cells \cup {Empty, Other} : ClientMove(t, text)
    \/ \E text \in {Yes, No, Empty, Other} : ClientAgain(t, text)

Spec == Init /\ [][Next]_vars

-----------------------------------------------------------------------------
(* Properties.                                                             *)

Marks(p) == {c \in Cells : board[c] = p}

\* Although both threads read from one socket, a thread that waits for a move gets the
\* datagram of its own player, so player_addr goes on naming him, and no answer to another
\* question; and the players move in turn.  No stale datagram, prompt or wakeup gets in between.
FairPlay ==
  /\ \A t \in Players :
       /\ addr[t] = t
       /\ pc[t] = "recv" => /\ current_player = t /\ pc[Opponent(t)] \notin {"ask1", "ask2"}
                            /\ \A k \in DOMAIN queue : queue[k].from = t
  /\ Cardinality(Marks(1) \cup Marks(2)) = move_count
  /\ Cardinality(Marks(1)) - Cardinality(Marks(2)) \in {0, 1}
=============================================================================
