----------------------------- MODULE FifoPrograms -----------------------------
(***************************************************************************)
(* The programs that use globalfifo, at work on one fifo: io-models/       *)
(* epoll.c (edge-triggered, a fifo and a pipe), io-models/event-exam.c     *)
(* (libevent, level-triggered, a fifo and stdin), io-models/sigio.c and    *)
(* ch9/globalfifo_test.c (SIGIO; the same code), ch8/globalfifo_poll.c     *)
(* (select), ch8/globalfifo_epoll.c (one epoll_wait); and beside them      *)
(* writers and readers such as echo and cat.                               *)
(*                                                                         *)
(* The side channel of a process is its pipe or stdin, fed from outside.   *)
(* A pipe or a terminal puts itself on the ready list when it is written   *)
(* or closed, not when it is read.                                         *)
(***************************************************************************)
EXTENDS FifoAsync, FiniteSets

CONSTANTS
  Casts,        \* sets of programs that run together: functions from Proc
  MaxWrite,     \* the most a writer writes at once
  Chunk         \* what one read of epoll.c takes (100 bytes)

Loops == {"epoll", "event"}

Programs == Loops \union {"poll", "epoll15", "sigio", "writer", "reader"}

ASSUME ProgramsAssumption ==
  /\ GLOBALFIFO_SIZE \in Nat \ {0}
  /\ MaxWrite \in Nat \ {0} /\ Chunk \in Nat \ {0}
  /\ Casts \subseteq [Proc -> Programs]

VARIABLES
  prog,         \* the program of each process
  pc,           \* where it is
  todo,         \* events it has got and not yet dealt with
  side, closed, \* what is in its side channel, and whether that was closed
  handler,      \* the processes that handle SIGIO
  robbed        \* others emptied the fifo since the event for it

local == <<prog, pc, todo, side, closed, handler, robbed>>
vars == <<fifo, async, local>>

Label == {"open", "add", "addside", "wait", "handle", "clear", "select",
          "signal", "setown", "fasync", "sleep", "use", "exited", "killed"}

\* Types.  Events are at hand exactly while they are dealt with.
TypeOK ==
  /\ FifoType /\ AsyncType
  /\ prog \in Casts
  /\ pc \in [Proc -> Label]
  /\ todo \in [Proc -> SUBSET {"fifo", "side"}]
  /\ \A p \in Proc : (pc[p] = "handle") = (todo[p] # {})
  /\ side \in [Proc -> 0 .. 2] /\ closed \subseteq Proc
  /\ handler \subseteq Proc /\ robbed \subseteq Proc

Init ==
  /\ FifoInit /\ AsyncInit
  /\ prog \in Casts
  /\ pc = [p \in Proc |-> IF prog[p] \in {"writer", "reader"} THEN "use" ELSE "open"]
  /\ todo = [p \in Proc |-> {}] /\ side = [p \in Proc |-> 0] /\ closed = {}
  /\ handler = {} /\ robbed = {}

Goto(p, l) == pc' = [pc EXCEPT ![p] = l]

\* The process can go on from l: it does not sleep in the driver.
At(p, l) == pc[p] = l /\ asleep[p] = "none"

\* Processes other than p that were told of data which is gone now.
Robs(p) == robbed' = IF len' = 0 /\ len # 0
                     THEN robbed \union {q \in Proc \ {p} : "fifo" \in todo[q]}
                     ELSE robbed

-----------------------------------------------------------------------------
(* Start *)

FirstLabel(p) == CASE prog[p] = "epoll" -> "add"
                   [] prog[p] = "event" -> "addside"
                   [] prog[p] \in {"poll", "epoll15"} -> "clear"
                   [] prog[p] = "sigio" -> "signal"

OpenFifo(p) ==
  /\ At(p, "open")
  /\ Goto(p, FirstLabel(p))
  /\ UNCHANGED <<fifo, async, prog, todo, side, closed, handler, robbed>>

\* globalfifo_poll.c and globalfifo_epoll.c begin with a FIFO_CLEAR.  After it
\* globalfifo_poll.c only prints what select returns, which Mask, never empty,
\* makes return at once: its loop changes nothing and is not an action.
ClearFifo(p) ==
  /\ At(p, "clear")
  /\ Clear /\ Robs(p)
  /\ Goto(p, IF prog[p] = "poll" THEN "select" ELSE "add")
  /\ UNCHANGED <<async, prog, todo, side, closed, handler>>

AddFifo(p) ==
  /\ At(p, "add")
  /\ Add(p)
  /\ Goto(p, IF prog[p] = "epoll" THEN "addside" ELSE "wait")
  /\ UNCHANGED <<async, prog, todo, side, closed, handler, robbed>>

SideReady(p) == side[p] > 0 \/ p \in closed

AddSide(p) ==
  /\ At(p, "addside")
  /\ watch' = [watch EXCEPT ![p] = @ \union {"side"}]
  /\ ready' = [ready EXCEPT ![p] = @ \union {t \in {"side"} : SideReady(p)}]
  /\ Goto(p, IF prog[p] = "event" THEN "add" ELSE "wait")
  /\ UNCHANGED <<len, asleep, async, prog, todo, side, closed, handler, robbed>>

-----------------------------------------------------------------------------
(* epoll_wait *)

\* Mutation of Available: epoll_wait reports the ready list as it stands.
Available_Stale(p) == ready[p]

Available(p) == {t \in ready[p] : IF t = "fifo" THEN "in" \in Mask ELSE SideReady(p)}

\* What an epoll keeps on its ready list when it reports.
Kept(p) == IF prog[p] = "epoll" THEN {} ELSE Available(p)

\* It looks again at what is on the ready list, and may find nothing.
Wait(p) == LET events == Available(p) IN
  /\ At(p, "wait") /\ prog[p] \in Loops /\ ready[p] # {}
  /\ ready' = [ready EXCEPT ![p] = Kept(p)]
  /\ todo' = [todo EXCEPT ![p] = events]
  /\ Goto(p, IF events = {} THEN "wait" ELSE "handle")
  /\ robbed' = robbed \ {p}
  /\ UNCHANGED <<len, asleep, watch, async, prog, side, closed, handler>>

\* globalfifo_epoll.c waits once, for 15 seconds, reports and exits.
WaitOnce(p) ==
  /\ At(p, "wait") /\ prog[p] = "epoll15"
  /\ Goto(p, "exited")
  /\ watch' = [watch EXCEPT ![p] = {}] /\ ready' = [ready EXCEPT ![p] = {}]
  /\ UNCHANGED <<len, asleep, async, prog, todo, side, closed, handler, robbed>>

-----------------------------------------------------------------------------
(* epoll.c and event-exam.c deal with their events *)

\* What one read takes; that of event-exam.c (1024 bytes) a whole write.
Amount(p) == IF prog[p] = "epoll" THEN Chunk ELSE MaxWrite

Done(p, t) ==
  /\ todo' = [todo EXCEPT ![p] = @ \ {t}]
  /\ Goto(p, IF todo[p] = {t} THEN "wait" ELSE "handle")

\* The fifo was opened without O_NONBLOCK: the read can sleep.
ReadFifo(p) ==
  /\ At(p, "handle") /\ "fifo" \in todo[p]
  /\ Read(p, Amount(p)) /\ Robs(p)
  /\ IF len # 0 THEN Done(p, "fifo") ELSE UNCHANGED <<todo, pc>>
  /\ UNCHANGED <<async, prog, side, closed, handler>>

\* At the end of stdin the callback of event-exam.c exits.
ReadSide(p) ==
  /\ At(p, "handle") /\ "side" \in todo[p]
  /\ IF side[p] = 0 /\ prog[p] = "event"
     THEN /\ Goto(p, "exited") /\ todo' = [todo EXCEPT ![p] = {}]
          /\ watch' = [watch EXCEPT ![p] = {}] /\ ready' = [ready EXCEPT ![p] = {}]
     ELSE Done(p, "side") /\ UNCHANGED <<watch, ready>>
  /\ side' = [side EXCEPT ![p] = @ - Cut(Amount(p), @)]
  /\ UNCHANGED <<len, asleep, async, prog, closed, handler, robbed>>

-----------------------------------------------------------------------------
(* sigio.c *)

\* Mutation of Signal: FASYNC is set without a handler.
Signal_Missing(p) ==
  /\ At(p, "signal")
  /\ Goto(p, "setown")
  /\ UNCHANGED <<fifo, async, prog, todo, side, closed, handler, robbed>>

Signal(p) ==
  /\ At(p, "signal")
  /\ handler' = handler \union {p}
  /\ Goto(p, "setown")
  /\ UNCHANGED <<fifo, async, prog, todo, side, closed, robbed>>

SetOwner(p) ==
  /\ At(p, "setown")
  /\ SetOwn(p)
  /\ Goto(p, "fasync")
  /\ UNCHANGED <<fifo, prog, todo, side, closed, handler, robbed>>

SetFasync(p) ==
  /\ At(p, "fasync")
  /\ Fasync(p, TRUE)
  /\ Goto(p, "sleep")
  /\ UNCHANGED <<fifo, prog, todo, side, closed, handler, robbed>>

\* SIGIO without a handler kills.
Sigio(p) ==
  /\ p \in pending
  /\ pending' = pending \ {p}
  /\ IF p \in handler THEN UNCHANGED pc ELSE Goto(p, "killed")
  /\ UNCHANGED <<fifo, driver, async_queue, owner, prog, todo, side, closed,
                 handler, robbed>>

-----------------------------------------------------------------------------
(* Other users *)

WriterWrites(p) == \E n \in 1 .. MaxWrite :
  /\ At(p, "use") /\ prog[p] = "writer"
  /\ WriteSignals(p, n)
  /\ UNCHANGED local

ReaderReads(p) == \E n \in 1 .. MaxWrite :
  /\ At(p, "use") /\ prog[p] = "reader"
  /\ Read(p, n) /\ Robs(p)
  /\ UNCHANGED <<async, prog, pc, todo, side, closed, handler>>

\* The side channel is fed or closed.
SideWrite(p) ==
  /\ prog[p] \in Loops /\ p \notin closed
  /\ \/ side[p] < 2 /\ side' = [side EXCEPT ![p] = @ + 1] /\ UNCHANGED closed
     \/ closed' = closed \union {p} /\ UNCHANGED side
  /\ ready' = [ready EXCEPT ![p] = @ \union {t \in {"side"} : t \in watch[p]}]
  /\ UNCHANGED <<len, asleep, watch, async, prog, pc, todo, handler, robbed>>

-----------------------------------------------------------------------------

Program(p) ==
  \/ OpenFifo(p) \/ ClearFifo(p) \/ AddFifo(p) \/ AddSide(p)
  \/ Wait(p) \/ ReadFifo(p) \/ ReadSide(p)
  \/ Signal(p) \/ SetOwner(p) \/ SetFasync(p) \/ Sigio(p)

Next == \E p \in Proc :
  \/ Program(p) \/ WaitOnce(p)
  \/ WriterWrites(p) \/ ReaderReads(p) \/ SideWrite(p)

Spec == Init /\ [][Next]_vars

\* The programs run.  Nothing is assumed of the other users, or of timeouts.
FairSpec == Spec /\ \A p \in Proc : WF_vars(Program(p))

-----------------------------------------------------------------------------
(* Properties *)

\* A program that watches the fifo and is back in epoll_wait has the fifo on
\* its ready list as long as there is data, edge-triggered or not, whoever wrote
\* it and however much of it earlier reads left: the report that there was no
\* data within the timeout is true.  (epoll.c is told of what its own read of
\* 100 bytes leaves because that read wakes w_wait, which poll also names.)
NothingForgotten == \A p \in Proc :
  pc[p] = "wait" /\ "fifo" \in watch[p] /\ len # 0 => "fifo" \in ready[p]

\* Types, and NothingForgotten.
Inv == TypeOK /\ NothingForgotten

\* epoll.c and event-exam.c, which read the fifo without O_NONBLOCK, sleep in
\* that read only if others emptied the fifo between the event and the read.
SleepsOnlyIfRobbed == \A p \in Proc :
  prog[p] \in Loops /\ asleep[p] # "none" => p \in robbed /\ len = 0

\* With FASYNC set by sigio.c every write that stores data is followed by a
\* signal, which does not kill the program.
EveryWriteSignals ==
  [][\A p \in Proc :
       /\ driver = "ch9" /\ pc[p] = "sleep" /\ len' > len => p \in pending'
       /\ pc'[p] # "killed"]_vars

\* Data in the fifo comes to be read: a program in epoll_wait gets the event,
\* unless others take the data first, or it exits.
DataIsAnnounced == \A p \in Proc :
  pc[p] = "wait" /\ prog[p] \in Loops /\ len # 0
    ~> "fifo" \in todo[p] \/ len = 0 \/ pc[p] = "exited"
===============================================================================
