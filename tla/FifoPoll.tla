------------------------------- MODULE FifoPoll -------------------------------
(***************************************************************************)
(* driver/globalfifo/ch8/globalfifo.c as the programs that use it see it:  *)
(* a call acts at once, or sleeps.  (Its read and write are the code of    *)
(* ch12, of which GlobalfifoProofs!Refinement shows that they act at once; *)
(* the list race of remove_wait_queue is absent here, as on one CPU.)      *)
(* Of the bytes only the number matters.                                   *)
(*                                                                         *)
(* External: epoll (Linux 4.0).  An epoll that watches the fifo has an     *)
(* entry on every queue that poll names, and any wake-up of such a queue   *)
(* puts the fifo on the epoll's ready list, for the driver gives no key    *)
(* that says what happened.                                                *)
(***************************************************************************)
EXTENDS Naturals

CONSTANTS
  Proc,         \* the processes
  GLOBALFIFO_SIZE

VARIABLES
  len,          \* current_len
  asleep,       \* the queue, r_wait or w_wait, each process sleeps on
  watch,        \* what each process's epoll watches
  ready         \* its ready list

fifo == <<len, asleep, watch, ready>>

Queue == {"r_wait", "w_wait"}

FifoType ==
  /\ len \in 0 .. GLOBALFIFO_SIZE
  /\ asleep \in [Proc -> Queue \union {"none"}]
  /\ watch \in [Proc -> SUBSET {"fifo", "side"}]
  /\ ready \in [Proc -> SUBSET {"fifo", "side"}]

FifoInit ==
  /\ len = 0
  /\ asleep = [p \in Proc |-> "none"]
  /\ watch = [p \in Proc |-> {}]
  /\ ready = watch

\* Mutation of PollQueues: poll leaves out w_wait.
PollQueues_Readers == {"r_wait"}

\* The queues that poll names ...
PollQueues == {"r_wait", "w_wait"}

\* ... and the events it returns.
Mask == (IF len # 0 THEN {"in"} ELSE {})
          \union (IF len # GLOBALFIFO_SIZE THEN {"out"} ELSE {})

Wake(q) ==
  /\ asleep' = [p \in Proc |-> IF asleep[p] = q THEN "none" ELSE asleep[p]]
  /\ ready' = [p \in Proc |->
       ready[p] \union {t \in {"fifo"} : q \in PollQueues /\ t \in watch[p]}]
  /\ UNCHANGED watch

Sleep(p, q) ==
  /\ asleep' = [asleep EXCEPT ![p] = q]
  /\ UNCHANGED <<len, watch, ready>>

\* Mutation of Cut: count is not limited.
Cut_Whole(count, room) == count

Cut(count, room) == IF count > room THEN room ELSE count

\* globalfifo_read of a file without O_NONBLOCK.
Read(p, count) ==
  \/ /\ len = 0
     /\ Sleep(p, "r_wait")
  \/ /\ len # 0
     /\ len' = len - Cut(count, len)
     /\ Wake("w_wait")

\* globalfifo_write, the same.
Write(p, count) ==
  \/ /\ len = GLOBALFIFO_SIZE
     /\ Sleep(p, "w_wait")
  \/ /\ len # GLOBALFIFO_SIZE
     /\ len' = len + Cut(count, GLOBALFIFO_SIZE - len)
     /\ Wake("r_wait")

\* FIFO_CLEAR wakes nobody.
Clear ==
  /\ len' = 0
  /\ UNCHANGED <<asleep, watch, ready>>

\* epoll_ctl of the fifo: poll is called once, and may find it ready.
Add(p) ==
  /\ watch' = [watch EXCEPT ![p] = @ \union {"fifo"}]
  /\ ready' = [ready EXCEPT ![p] = @ \union {t \in {"fifo"} : "in" \in Mask}]
  /\ UNCHANGED <<len, asleep>>
===============================================================================
