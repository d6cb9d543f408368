------------------------------- MODULE FifoAsync -------------------------------
(***************************************************************************)
(* driver/globalfifo/ch9/globalfifo.c: FifoPoll, and SIGIO for the files   *)
(* with FASYNC.  With the driver of ch8, which has no fasync handler,      *)
(* fcntl sets the flag and calls nothing.                                  *)
(***************************************************************************)
EXTENDS FifoPoll

VARIABLES
  driver,       \* the driver that is loaded
  async_queue,  \* the processes whose file is on it
  owner,        \* those that have made themselves its owner (F_SETOWN)
  pending       \* those with a SIGIO they have not handled

async == <<driver, async_queue, owner, pending>>

AsyncType ==
  /\ driver \in {"ch8", "ch9"}
  /\ async_queue \subseteq Proc /\ owner \subseteq Proc /\ pending \subseteq Proc

AsyncInit ==
  /\ driver \in {"ch8", "ch9"}
  /\ async_queue = {} /\ owner = {} /\ pending = {}

\* globalfifo_fasync
Fasync(p, on) ==
  /\ async_queue' = IF driver = "ch8" THEN async_queue
                    ELSE IF on THEN async_queue \union {p} ELSE async_queue \ {p}
  /\ UNCHANGED <<driver, owner, pending>>

SetOwn(p) ==
  /\ owner' = owner \union {p}
  /\ UNCHANGED <<driver, async_queue, pending>>

\* Mutation of WriteSignals: a signal only for the first data.
WriteSignals_First(p, count) ==
  /\ Write(p, count)
  /\ pending' = IF len = 0 THEN pending \union (async_queue \intersect owner) ELSE pending
  /\ UNCHANGED <<driver, async_queue, owner>>

\* globalfifo_write with kill_fasync, which signals the owners.
WriteSignals(p, count) ==
  /\ Write(p, count)
  /\ pending' = IF len' > len THEN pending \union (async_queue \intersect owner)
                              ELSE pending
  /\ UNCHANGED <<driver, async_queue, owner>>
===============================================================================
