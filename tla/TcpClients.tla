------------------------------ MODULE TcpClients ------------------------------
(***************************************************************************)
(* External: clients of the servers of io/io-models and their connections, *)
(* as Linux TCP shows them to a server that only reads and writes.  Data   *)
(* counts in reads: what one read of MAXLINE bytes can take is 1.          *)
(*                                                                         *)
(* A client that closes sends a FIN, or a RST if it has not read all that  *)
(* it was sent; data that reaches it after that is answered by a RST.  A   *)
(* RST does not take away what the server has still to read.  It leaves an *)
(* error, which the next read without data or the next write reports and   *)
(* clears: reset, or pipe if a FIN had come before.  A write that finds    *)
(* the connection reset and any other error than reset raises SIGPIPE.     *)
(***************************************************************************)
EXTENDS Naturals, Sequences

CONSTANTS
  Client,
  MaxIn,        \* how much each client sends ahead
  Quiet,        \* clients that connect and do nothing more
  Window        \* how many answers the buffers of a connection hold

VARIABLES
  conn,         \* the connection of each client
  backlog       \* the clients that wait for accept, oldest first

peers == <<conn, backlog>>

\* up: the client's side.  in: what the server can read.  hand: it has read and
\* not yet written back.  out: answers the client has not read.  bounce: a RST
\* is on its way.  left: what was unanswered when the client went.
Connection == [up : {"no", "yes", "gone"}, in : Nat, hand : BOOLEAN,
               out : 0 .. Window, fin : BOOLEAN, rst : BOOLEAN,
               err : {"no", "reset", "pipe"}, bounce : BOOLEAN, left : Nat]

Blank(u) == [up |-> u, in |-> 0, hand |-> FALSE, out |-> 0, fin |-> FALSE,
             rst |-> FALSE, err |-> "no", bounce |-> FALSE, left |-> 0]

PeersInit ==
  /\ conn = [c \in Client |-> Blank("no")]
  /\ backlog = <<>>

Connect(c) ==
  /\ conn[c].up = "no"
  /\ conn' = [conn EXCEPT ![c].up = "yes"]
  /\ backlog' = Append(backlog, c)

Send(c) ==
  /\ conn[c].up = "yes" /\ conn[c].in < MaxIn[c]
  /\ conn' = [conn EXCEPT ![c].in = @ + 1]
  /\ UNCHANGED backlog

Receive(c) ==
  /\ conn[c].up = "yes" /\ conn[c].out > 0
  /\ conn' = [conn EXCEPT ![c].out = @ - 1]
  /\ UNCHANGED backlog

Unanswered(k) == k.in + (IF k.hand THEN 1 ELSE 0)

Gone(k) == [k EXCEPT !.up = "gone", !.out = 0, !.left = Unanswered(k)]

Reset(k) == [k EXCEPT !.rst = TRUE, !.bounce = FALSE,
                      !.err = IF k.fin THEN "pipe" ELSE "reset"]

\* close; with data unread, or SO_LINGER of 0, it resets the connection.
Leave(c) ==
  /\ conn[c].up = "yes" /\ c \notin Quiet
  /\ \/ /\ conn[c].out = 0
        /\ conn' = [conn EXCEPT ![c] = [Gone(@) EXCEPT !.fin = TRUE]]
     \/ conn' = [conn EXCEPT ![c] = Reset(Gone(@))]
  /\ UNCHANGED backlog

Bounce(c) ==
  /\ conn[c].bounce
  /\ conn' = [conn EXCEPT ![c] = Reset(@)]
  /\ UNCHANGED backlog

Peers(c) == Connect(c) \/ Send(c) \/ Receive(c) \/ Leave(c) \/ Bounce(c)

-----------------------------------------------------------------------------
(* What the server's calls do *)

Readable(c) == conn[c].in > 0 \/ conn[c].fin \/ conn[c].rst

\* read: data, the end (0, when the client has gone) or an error (-1).
ReadGives(c) == CASE conn[c].in > 0                        -> "data"
                  [] conn[c].in = 0 /\ conn[c].fin         -> "end"
                  [] conn[c].in = 0 /\ ~conn[c].fin        ->
                       IF conn[c].err # "no" THEN "error" ELSE "end"

Taken(k) == [k EXCEPT !.in = @ - 1, !.hand = TRUE]

\* After the end the server closes the connection.
AfterRead(c) ==
  [conn EXCEPT ![c] = CASE ReadGives(c) = "data"  -> Taken(@)
                        [] ReadGives(c) = "error" -> [@ EXCEPT !.err = "no"]
                        [] ReadGives(c) = "end"   -> Blank("gone")]

\* write of what was read: is it killed, and can it return?
WriteKills(c) == conn[c].rst /\ conn[c].err # "reset"
WriteReturns(c) == conn[c].rst \/ conn[c].up = "gone" \/ conn[c].out < Window

AfterWrite(c) ==
  [conn EXCEPT ![c] =
     LET k == [@ EXCEPT !.hand = FALSE] IN
     CASE k.rst                       -> [k EXCEPT !.err = "no"]
       [] ~k.rst /\ k.up = "gone"     -> [k EXCEPT !.bounce = TRUE]
       [] ~k.rst /\ k.up = "yes"      -> [k EXCEPT !.out = @ + 1]]
===============================================================================
