------------------------------- MODULE VmemDisk -------------------------------
(***************************************************************************)
(* driver/vmem_disk/vmem_disk.c: disks in memory, their set-up and removal *)
(* and the transfer of bios, through a request queue or without one.       *)
(*                                                                         *)
(* External (Linux 4.0): vmalloc may reuse an address as soon as it is     *)
(* free.  vmem_disk_ops has no owner, so that the module can be unloaded   *)
(* while a disk is open; the open disk keeps its gendisk, and that its     *)
(* queue.  The request function runs under the queue's lock (dev->lock);   *)
(* the elevator merges bios and orders requests.  blk_cleanup_queue lets   *)
(* nothing new in and waits for the requests there are; kobject_put waits  *)
(* for nothing.  register_blkdev returns a major when asked for 0, and 0   *)
(* when asked for a major; unregister_blkdev wants the registered name.    *)
(***************************************************************************)
EXTENDS Integers, SequencesExt

CONSTANTS
  NDEVICES,
  NSECTORS,     \* per disk
  Addr,         \* what vmalloc can return
  NULL,
  Bio,          \* the bios and non-fs requests of a behavior
  io,           \* their disk, first sector, where their segments end (in
                \* sectors from the start of their data), direction
  Junk          \* data nobody wrote

Device == 0 .. NDEVICES - 1
Sector == 0 .. NSECTORS - 1
Ends(b) == io[b].ends
Total(b) == IF Ends(b) = <<>> THEN 0 ELSE Last(Ends(b))

\* The block layer ends a bio that has no data itself.
ASSUME DiskAssumption ==
  /\ NDEVICES \in Nat \ {0} /\ NSECTORS \in Nat \ {0} /\ NULL \notin Addr
  /\ \A b \in Bio :
       /\ io[b].dev \in Device /\ io[b].dir \in {"read", "write", "pc"}
       /\ Ends(b) \in Seq(Nat \ {0}) /\ (io[b].dir # "pc" => Ends(b) # <<>>)
       /\ \A j, k \in DOMAIN Ends(b) : j < k => Ends(b)[j] < Ends(b)[k]
       /\ io[b].sector \in Nat /\ io[b].sector + Total(b) <= NSECTORS

VARIABLES
  mode,         \* request_mode
  param,        \* vmem_disk_major as insmod gave it: 0 or not
  phase, i, step, \* init and exit: the device and the step they are at
  major,        \* the major is registered
  dev,          \* data, queue and gd of each device
  allocated,    \* the addresses in use
  mem,          \* what is stored there
  open,         \* the disks that are open
  pend,         \* the requests (sequences of bios) in each queue
  cur,          \* the bios left of the request that each queue works on
  started,      \* all bios of that request
  at,           \* where each bio is
  moved,        \* how many of its segments were transferred
  buffer,       \* its data, by offset
  harm          \* what went wrong

life == <<phase, i, step, major, dev, allocated>>
traffic == <<pend, cur, started, at, moved, buffer>>
vars == <<mode, param, life, mem, open, traffic, harm>>

Datum == (Bio \X Nat) \union {Junk}
Harm == {"bounds", "buffer", "data", "code", "free"}

\* Types.  A bio being transferred has segments left.
TypeOK ==
  /\ mode \in {"queue", "noqueue"} /\ param \in BOOLEAN
  /\ phase \in {"insmod", "kmalloc", "setup", "live", "exit", "gone", "failed"}
  /\ i \in 0 .. NDEVICES
  /\ step \in {"data", "queue", "gd", "drain"}
  /\ major \in BOOLEAN
  /\ dev \in [Device -> [data : Addr \union {NULL},
                         queue : {"none", "on", "dying", "dead", "put"},
                         gd : {"none", "on", "deleted"}]]
  /\ allocated \subseteq Addr
  /\ mem \in [Addr -> [Sector -> Datum]]
  /\ open \subseteq Device
  /\ pend \in [Device -> SUBSET Seq(Bio)]
  /\ cur \in [Device -> Seq(Bio)] /\ started \in [Device -> Seq(Bio)]
  /\ at \in [Bio -> {"new", "queued", "moving", "ok", "error"}]
  /\ DOMAIN moved = Bio /\ \A b \in Bio : moved[b] \in 0 .. Len(Ends(b))
  /\ DOMAIN buffer = Bio /\ \A b \in Bio : buffer[b] \in [0 .. Total(b) - 1 -> Datum]
  /\ harm \subseteq Harm

Init ==
  /\ mode \in {"queue", "noqueue"} /\ param \in BOOLEAN
  /\ phase = "insmod" /\ i = 0 /\ step = "data" /\ major = FALSE
  /\ dev = [d \in Device |-> [data |-> NULL, queue |-> "none", gd |-> "none"]]
  /\ allocated = {}
  /\ mem = [a \in Addr |-> [s \in Sector |-> Junk]]
  /\ open = {}
  /\ pend = [d \in Device |-> {}]
  /\ cur = [d \in Device |-> <<>>] /\ started = cur
  /\ at = [b \in Bio |-> "new"] /\ moved = [b \in Bio |-> 0]
  /\ buffer = [b \in Bio |-> [j \in 0 .. Total(b) - 1 |->
                 IF io[b].dir = "write" THEN <<b, j>> ELSE Junk]]
  /\ harm = {}

-----------------------------------------------------------------------------
(* vmem_disk_init and setup_device *)

Stay == UNCHANGED <<mode, param, mem, open, traffic>>

\* The test for a major <= 0 takes success with a given major for a failure.
Register(ok) ==
  /\ phase = "insmod"
  /\ major' = ok
  /\ phase' = IF ok /\ ~param THEN "kmalloc" ELSE "failed"
  /\ Stay /\ UNCHANGED <<i, step, dev, allocated, harm>>

\* unregister_blkdev is given the name "sbd" and does nothing.
Kmalloc(ok) ==
  /\ phase = "kmalloc"
  /\ phase' = IF ok THEN "setup" ELSE "failed"
  /\ Stay /\ UNCHANGED <<i, step, major, dev, allocated, harm>>

\* Mutation of NextDevice: one device too many.
NextDevice_OffByOne == /\ i' = i + 1 /\ step' = "data"
                       /\ phase' = IF i < NDEVICES THEN "setup" ELSE "live"

NextDevice == /\ i' = i + 1 /\ step' = "data"
              /\ phase' = IF i + 1 < NDEVICES THEN "setup" ELSE "live"

At(s) == phase = "setup" /\ step = s

S_Data(a) ==
  /\ At("data")
  /\ a \in Addr \ allocated
  /\ dev' = [dev EXCEPT ![i].data = a]
  /\ allocated' = allocated \union {a}
  /\ step' = "queue"
  /\ mem' = [mem EXCEPT ![a] = [s \in Sector |-> Junk]]
  /\ UNCHANGED <<mode, param, phase, i, major, open, traffic, harm>>

S_NoData ==
  /\ At("data")
  /\ NextDevice
  /\ Stay /\ UNCHANGED <<major, dev, allocated, harm>>

S_Queue ==
  /\ At("queue")
  /\ dev' = [dev EXCEPT ![i].queue = "on"]
  /\ step' = "gd"
  /\ Stay /\ UNCHANGED <<phase, i, major, allocated, harm>>

S_Disk ==
  /\ At("gd")
  /\ dev' = [dev EXCEPT ![i].gd = "on"]
  /\ NextDevice
  /\ Stay /\ UNCHANGED <<major, allocated, harm>>

\* vfree of an address that is not in use is only reported.
Vfree(a) ==
  /\ allocated' = allocated \ {a}
  /\ harm' = harm \union (IF a \in allocated THEN {} ELSE {"free"})

\* out_vfree: the pointer stays.
S_Vfree ==
  /\ At("queue") \/ At("gd")
  /\ Vfree(dev[i].data)
  /\ NextDevice
  /\ Stay /\ UNCHANGED <<major, dev>>

-----------------------------------------------------------------------------
(* vmem_disk_exit *)

Exiting(s) == phase = "exit" /\ step = s

Rmmod ==
  /\ phase = "live"
  /\ phase' = "exit" /\ i' = 0 /\ step' = "gd"
  /\ Stay /\ UNCHANGED <<major, dev, allocated, harm>>

\* del_gendisk, put_disk.
X_Disk ==
  /\ Exiting("gd")
  /\ dev' = [dev EXCEPT ![i].gd = IF @ = "on" THEN "deleted" ELSE @]
  /\ step' = "queue"
  /\ Stay /\ UNCHANGED <<phase, i, major, allocated, harm>>

\* blk_cleanup_queue up to its waiting, or kobject_put.
Dropped == IF mode = "queue" THEN "dying" ELSE "put"

\* Mutation of X_Queue: a queue is dropped only together with its disk.
X_Queue_OfDisk ==
  /\ Exiting("queue")
  /\ dev' = [dev EXCEPT ![i].queue =
               IF @ = "on" /\ dev[i].gd # "none" THEN Dropped ELSE @]
  /\ step' = IF dev'[i].queue = "dying" THEN "drain" ELSE "data"
  /\ Stay /\ UNCHANGED <<phase, i, major, allocated, harm>>

X_Queue ==
  /\ Exiting("queue")
  /\ dev' = [dev EXCEPT ![i].queue = IF @ = "on" THEN Dropped ELSE @]
  /\ step' = IF dev'[i].queue = "dying" THEN "drain" ELSE "data"
  /\ Stay /\ UNCHANGED <<phase, i, major, allocated, harm>>

X_Drain ==
  /\ Exiting("drain")
  /\ pend[i] = {} /\ started[i] = <<>>
  /\ dev' = [dev EXCEPT ![i].queue = "dead"]
  /\ step' = "data"
  /\ Stay /\ UNCHANGED <<phase, i, major, allocated, harm>>

X_Next ==
  /\ step' = "gd"
  /\ i' = i + 1
  /\ phase' = IF i + 1 < NDEVICES THEN "exit" ELSE "gone"
  /\ major' = (major /\ i + 1 < NDEVICES)

X_Data ==
  /\ Exiting("data")
  /\ IF dev[i].data = NULL THEN UNCHANGED <<allocated, harm>>
                           ELSE Vfree(dev[i].data)
  /\ X_Next
  /\ Stay /\ UNCHANGED dev

-----------------------------------------------------------------------------
(* vmem_disk_xfer_bio and vmem_disk_transfer, one segment a step.  (Without  *)
(* a queue two copies of one sector can mix within it: nothing is said then.) *)

\* Every segment is given the length of the first (bio_cur_bytes).
Step(b) == Ends(b)[1]

\* Mutation of Place: the sector is not advanced.
Place_Stuck(b) == io[b].sector

Place(b) == io[b].sector + moved[b] * Step(b)

\* Mutation of Fits: nothing is found to be beyond the end.
Fits_Dropped(b) == TRUE

Fits(b) == Place(b) + Step(b) <= NSECTORS

\* Offset and length, in b's data, of the segment at hand.
Offset(b) == IF moved[b] = 0 THEN 0 ELSE Ends(b)[moved[b]]
Length(b) == Ends(b)[moved[b] + 1] - Offset(b)

Copied(b) == Place(b) .. Place(b) + Step(b) - 1

MemCpy(b, a) ==
  IF io[b].dir = "write"
  THEN /\ mem' = [mem EXCEPT ![a] = [s \in Sector |->
                    IF s \notin Copied(b) THEN @[s]
                    ELSE LET j == s - Place(b) IN
                         IF j < Length(b) THEN buffer[b][Offset(b) + j] ELSE Junk]]
       /\ UNCHANGED buffer
  ELSE /\ buffer' = [buffer EXCEPT ![b] = [o \in DOMAIN @ |->
                       LET j == o - Offset(b) IN
                       IF 0 <= j /\ j < Step(b) /\ j < Length(b)
                       THEN mem[a][Place(b) + j] ELSE @[o]]]
       /\ UNCHANGED mem

\* Beyond the end of the disk nothing is copied, and nobody is told.
Transfer(b) == LET a == dev[io[b].dev].data IN
  /\ moved' = [moved EXCEPT ![b] = IF Fits(b) /\ a \notin allocated THEN @ ELSE @ + 1]
  /\ IF Fits(b) /\ a \in allocated /\ Copied(b) \subseteq Sector
     THEN MemCpy(b, a) ELSE UNCHANGED <<mem, buffer>>
  /\ harm' = harm \union
       {h \in Harm : /\ Fits(b)
                     /\ \/ h = "data" /\ a \notin allocated
                        \/ h = "bounds" /\ ~(Copied(b) \subseteq Sector)
                        \/ h = "buffer" /\ Step(b) > Length(b)}

-----------------------------------------------------------------------------
(* The users of the disks and the block layer *)

Use == UNCHANGED <<mode, param, life>>

Busy(d) == \E b \in Bio : io[b].dev = d /\ at[b] \in {"queued", "moving"}

Open(d) ==
  /\ dev[d].gd = "on" /\ d \notin open
  /\ open' = open \union {d}
  /\ Use /\ UNCHANGED <<mem, traffic, harm>>

\* The last close looks for a release in vmem_disk_ops, which goes with the
\* module ...
Close(d) ==
  /\ d \in open /\ ~Busy(d)
  /\ IF phase = "gone" THEN harm' = harm \union {"code"} /\ UNCHANGED open
                       ELSE open' = open \ {d} /\ UNCHANGED harm
  /\ Use /\ UNCHANGED <<mem, traffic>>

\* ... as does vmem_disk_getgeo.
Getgeo(d) ==
  /\ d \in open /\ phase = "gone"
  /\ harm' = harm \union {"code"}
  /\ Use /\ UNCHANGED <<mem, open, traffic>>

Follows(b, c) == /\ io[b].dir = io[c].dir /\ io[c].dir # "pc"
                 /\ io[c].sector = io[b].sector + Total(b)

\* A bio enters the queue in a request of its own or at the end of another.
Queue(b) == LET d == io[b].dev IN
  /\ started[d] = <<>>
  /\ at' = [at EXCEPT ![b] = "queued"]
  /\ \/ pend' = [pend EXCEPT ![d] = @ \union {<<b>>}]
     \/ \E r \in pend[d] : /\ Follows(Last(r), b)
                           /\ pend' = [pend EXCEPT ![d] = (@ \ {r}) \union {Append(r, b)}]
  /\ UNCHANGED harm

Submit(b) == LET d == io[b].dev IN
  /\ d \in open /\ at[b] = "new"
  /\ CASE mode = "queue" /\ dev[d].queue = "on" -> Queue(b)
       [] mode = "queue" /\ dev[d].queue # "on" ->
            at' = [at EXCEPT ![b] = "error"] /\ UNCHANGED <<pend, harm>>
       [] mode = "noqueue" ->
            /\ io[b].dir # "pc"
            /\ at' = [at EXCEPT ![b] = "moving"]
            /\ harm' = harm \union (IF phase = "gone" THEN {"code"} ELSE {})
            /\ UNCHANGED pend
  /\ Use /\ UNCHANGED <<mem, open, cur, started, moved, buffer>>

NonFs(r) == io[Head(r)].dir = "pc"

\* vmem_disk_request: the next round of the loop.  (That the lock is kept from
\* one round to the next is left out: a bio let in between is one more round.)
Q_Start(d) == \E r \in pend[d] :
  /\ started[d] = <<>> /\ ~NonFs(r)
  /\ pend' = [pend EXCEPT ![d] = @ \ {r}]
  /\ cur' = [cur EXCEPT ![d] = r]
  /\ started' = [started EXCEPT ![d] = r]
  /\ at' = [b \in Bio |-> IF b \in ToSet(r) THEN "moving" ELSE at[b]]
  /\ Use /\ UNCHANGED <<mem, open, moved, buffer, harm>>

\* Mutation of Q_NonFs: the request is started and not ended.
Q_NonFs_Kept(d) == \E r \in pend[d] :
  /\ started[d] = <<>> /\ NonFs(r)
  /\ pend' = [pend EXCEPT ![d] = @ \ {r}]
  /\ Use /\ UNCHANGED <<mem, open, at, cur, started, moved, buffer, harm>>

Q_NonFs(d) == \E r \in pend[d] :
  /\ started[d] = <<>> /\ NonFs(r)
  /\ pend' = [pend EXCEPT ![d] = @ \ {r}]
  /\ at' = [b \in Bio |-> IF b \in ToSet(r) THEN "error" ELSE at[b]]
  /\ Use /\ UNCHANGED <<mem, open, cur, started, moved, buffer, harm>>

Q_Bio(d) == LET b == Head(cur[d]) IN
  /\ cur[d] # <<>>
  /\ Transfer(b)
  /\ cur' = [cur EXCEPT ![d] = IF moved'[b] = Len(Ends(b)) THEN Tail(@) ELSE @]
  /\ Use /\ UNCHANGED <<open, pend, started, at>>

\* __blk_end_request_all
Q_End(d) ==
  /\ started[d] # <<>> /\ cur[d] = <<>>
  /\ at' = [b \in Bio |-> IF b \in ToSet(started[d]) THEN "ok" ELSE at[b]]
  /\ started' = [started EXCEPT ![d] = <<>>]
  /\ Use /\ UNCHANGED <<mem, open, pend, cur, moved, buffer, harm>>

\* vmem_disk_make_request
N_Gone(b) ==
  /\ mode = "noqueue" /\ at[b] = "moving" /\ phase = "gone"
  /\ harm' = harm \union {"code"}
  /\ Use /\ UNCHANGED <<mem, open, traffic>>

N_Bio(b) ==
  /\ mode = "noqueue" /\ at[b] = "moving" /\ phase # "gone"
  /\ moved[b] < Len(Ends(b))
  /\ Transfer(b)
  /\ Use /\ UNCHANGED <<open, pend, cur, started, at>>

N_End(b) ==
  /\ mode = "noqueue" /\ at[b] = "moving" /\ phase # "gone"
  /\ moved[b] = Len(Ends(b))
  /\ at' = [at EXCEPT ![b] = "ok"]
  /\ Use /\ UNCHANGED <<mem, open, pend, cur, started, moved, buffer, harm>>

-----------------------------------------------------------------------------

Halted == harm \intersect {"data", "code"} # {}

Set_Up ==
  \/ \E ok \in BOOLEAN : Register(ok) \/ Kmalloc(ok)
  \/ \E a \in Addr : S_Data(a)
  \/ S_NoData \/ S_Queue \/ S_Disk \/ S_Vfree

Exit == X_Disk \/ X_Queue \/ X_Drain \/ X_Data

Serve(d) == Q_Start(d) \/ Q_NonFs(d) \/ Q_Bio(d) \/ Q_End(d)
Make(b) == N_Gone(b) \/ N_Bio(b) \/ N_End(b)

\* Nothing is said of what happens after freed memory was used.
Next ==
  /\ ~Halted
  /\ \/ Set_Up \/ Rmmod \/ Exit
     \/ \E d \in Device : Open(d) \/ Close(d) \/ Getgeo(d) \/ Serve(d)
     \/ \E b \in Bio : Submit(b) \/ Make(b)

Spec == Init /\ [][Next]_vars

\* The block layer calls the request function while there are requests; code
\* that runs goes on.
FairSpec ==
  /\ Spec
  /\ WF_vars(~Halted /\ Exit)
  /\ \A d \in Device : WF_vars(~Halted /\ Serve(d))
  /\ \A b \in Bio : WF_vars(~Halted /\ Make(b))

-----------------------------------------------------------------------------
(* Properties *)

\* All segments have one length.
Even(b) == \A k \in DOMAIN Ends(b) : Ends(b)[k] = k * Step(b)

\* Devices whose set-up failed after their vmalloc.
HalfMade == {d \in Device : /\ dev[d].data # NULL /\ dev[d].gd = "none"
                            /\ phase = "setup" => d < i}

\* No transfer leaves the disk; none leaves its segment's buffer unless the
\* segments are uneven.  With a queue, data that is in use is freed only after
\* a set-up that failed half-way (whose second vfree may hit the data of the
\* next disk); without one, also by an exit that overtakes a bio.  Code and
\* operations of the unloaded module are used only for a disk that was open
\* when it was unloaded.
HarmOnlyFrom ==
  /\ "bounds" \notin harm
  /\ "buffer" \in harm => \E b \in Bio : moved[b] > 0 /\ ~Even(b)
  /\ "data" \in harm => /\ phase = "exit"
                        /\ mode = "noqueue" \/ HalfMade # {}
  /\ "free" \in harm => HalfMade # {}
  /\ "code" \in harm => phase = "gone" /\ open # {}

\* An unload gives everything back, whichever steps of set-up had failed.
GivenBack == phase = "gone" =>
  /\ allocated = {} /\ ~major
  /\ \A d \in Device : dev[d].queue \in {"none", "dead", "put"}

\* Types, and GivenBack.
Inv == TypeOK /\ GivenBack

InFlight(b) == at[b] = "moving" /\ moved[b] \in 1 .. Len(Ends(b)) - 1 /\ Even(b)

Rest(b) == {io[b].sector + j : j \in moved[b] * Step(b) .. Total(b) - 1}

\* A bio counts as carried out from its first segment on.
StoreOf(d) ==
  IF dev[d].gd = "none" \/ dev[d].data \notin allocated THEN <<>> ELSE
  LET W == {b \in Bio : InFlight(b) /\ io[b].dev = d /\ io[b].dir = "write"} IN
  [s \in Sector |->
     IF \E b \in W : s \in Rest(b)
     THEN LET b == CHOOSE b \in W : s \in Rest(b) IN buffer[b][s - io[b].sector]
     ELSE mem[dev[d].data][s]]

BufferOf(b) ==
  IF io[b].dir = "read" /\ InFlight(b)
  THEN [j \in DOMAIN buffer[b] |-> IF io[b].sector + j \in Rest(b)
                                   THEN mem[dev[io[b].dev].data][io[b].sector + j]
                                   ELSE buffer[b][j]]
  ELSE buffer[b]

Store == INSTANCE SectorDisk WITH
  Disk <- Device,
  store <- [d \in Device |-> StoreOf(d)],
  buffer <- [b \in Bio |-> BufferOf(b)],
  done <- {b \in Bio : moved[b] > 0},
  report <- [b \in Bio |-> IF at[b] \in {"ok", "error"} THEN at[b] ELSE "none"]

\* With a queue the disk keeps the promise of SectorDisk: a bio of even segments
\* moves exactly its sectors, atomically, and is reported once, as what became
\* of it; whatever requests are merged, reordered, or met by an exit.
SectorSpec == Store!Init /\ [][mode = "queue" => Store!Next \/ UNCHANGED Store!vars]_vars

\* Every request that was accepted ends, and so does every exit.
EverythingEnds ==
  /\ \A b \in Bio : at[b] \in {"queued", "moving"} ~> at[b] \in {"ok", "error"} \/ Halted
  /\ phase = "exit" ~> phase = "gone" \/ Halted
===============================================================================
