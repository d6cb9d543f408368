------------------------------ MODULE Globalmem ------------------------------
(***************************************************************************)
(* The globalmem character device: GLOBALMEM_SIZE bytes of memory that     *)
(* tasks read, write, clear and seek in; with a mutex (driver/globalmem/   *)
(* ch7/globalmem.c) or without (ch6/globalmem.c, and each device of        *)
(* multi_globalmem.c, whose handlers are the same).  In ch7 write and      *)
(* MEM_CLEAR take dev->mutex; read unlocks it (line 84) without having     *)
(* locked it.                                                              *)
(*                                                                         *)
(* The bytes are abstracted away: a call that is using dev->mem is at      *)
(* label "use", with the range it uses: count bytes from the low 32 bits   *)
(* of the position.  Tasks that share an open file (after fork, or as      *)
(* threads) share its f_pos, on which a character device has no lock:      *)
(* vfs_read and vfs_write load it before the handler and store it after,   *)
(* and llseek tests it before it adds to it.                               *)
(*                                                                         *)
(* The mutex is external: that of Linux 4.0 without CONFIG_DEBUG_MUTEXES,  *)
(* which the module was built against.  It is a counter, 1 when free, and  *)
(* a list of waiters.  lock decrements it and has the mutex if the result  *)
(* is not negative; unlock increments it and has a waiter to wake if the   *)
(* result is not positive.  Nothing checks that the task that unlocks is   *)
(* the owner.                                                              *)
(***************************************************************************)
EXTENDS Integers, FiniteSets, SequencesExt

CONSTANTS
  Task,         \* the tasks that have the device open
  File,         \* the open files
  FileOf,       \* FileOf[t]: the open file t uses
  Size,         \* GLOBALMEM_SIZE
  Offset,       \* the offsets passed to llseek
  MaxCount,     \* bound: the largest size passed to read or write
  Uint,         \* 2^32: an unsigned int or unsigned long is taken modulo Uint
  MaxReads,     \* bound: the number of unlocks by read
  Far           \* bound: how far from 0 a position can be that is read or
                \* written at (races of llseek with a call add up)

ASSUME MemAssumption ==
  /\ IsFiniteSet(Task) /\ FileOf \in [Task -> File]
  /\ Size \in Nat /\ Uint \in Nat /\ Size < Uint
  /\ Offset \subseteq Int
  /\ MaxCount \in 0..Uint-1 /\ MaxReads \in Nat /\ Far \in Nat

VARIABLES
  with_mutex,   \* the driver is that of ch7
  cnt,          \* dev->mutex.count
  wait_list,    \* dev->mutex.wait_list: the tasks that wait, oldest first
  f_pos,        \* f_pos of each open file
  pc,           \* where each task is
  op,           \* the handler it is in
  pos, count,   \* *ppos and the local count of read and write; pos is the
                \*   offset of llseek(SEEK_CUR)
  failed,       \* copy_to_user or copy_from_user has failed
  woken,        \* a waiter has been woken
  reads         \* history: how often read has unlocked the mutex

mutex == <<with_mutex, cnt, wait_list>>
local == <<op, pos, count, failed>>
vars  == <<mutex, f_pos, pc, local, woken, reads>>

Labels == {"idle", "lock", "slow", "asleep", "use", "unlock", "wake", "pos",
           "add"}
Handlers == {"none", "read", "write", "clear", "seek"}

\* Types and ranges: read and write cut count to the memory.
TypeOK ==
  /\ with_mutex \in BOOLEAN /\ cnt \in Int /\ wait_list \in Seq(Task)
  /\ f_pos \in [File -> Int]
  /\ pc \in [Task -> Labels] /\ op \in [Task -> Handlers]
  /\ pos \in [Task -> Int] /\ count \in [Task -> 0..Size]
  /\ failed \in [Task -> BOOLEAN] /\ woken \in [Task -> BOOLEAN]
  /\ reads \in Nat

Init ==
  /\ with_mutex \in BOOLEAN /\ cnt = 1 /\ wait_list = <<>>
  /\ f_pos = [f \in File |-> 0]
  /\ pc = [t \in Task |-> "idle"] /\ op = [t \in Task |-> "none"]
  /\ pos = [t \in Task |-> 0] /\ count = [t \in Task |-> 0]
  /\ failed = [t \in Task |-> FALSE] /\ woken = [t \in Task |-> FALSE]
  /\ reads = 0

Goto(t, l) == pc' = [pc EXCEPT ![t] = l]

Return(t) ==
  /\ Goto(t, "idle")
  /\ op' = [op EXCEPT ![t] = "none"]
  /\ pos' = [pos EXCEPT ![t] = 0] /\ count' = [count EXCEPT ![t] = 0]
  /\ failed' = [failed EXCEPT ![t] = FALSE]

-----------------------------------------------------------------------------
(* External: mutex_lock and mutex_unlock *)

Lock(t) ==
  /\ pc[t] = "lock"
  /\ cnt' = cnt - 1
  /\ Goto(t, IF cnt > 0 THEN "use" ELSE "slow")
  /\ UNCHANGED <<with_mutex, wait_list, f_pos, local, woken, reads>>

\* A waiter tries to take the mutex: it leaves -1 behind, and has the mutex if
\* it found exactly 1.  The last waiter leaves 0.  queue is wait_list with t.
Try(t, queue) ==
  \/ /\ cnt = 1
     /\ \E i \in DOMAIN queue :
          /\ queue[i] = t
          /\ wait_list' = RemoveAt(queue, i)
     /\ cnt' = IF wait_list' = <<>> THEN 0 ELSE -1
     /\ Goto(t, "use")
  \/ /\ cnt # 1
     /\ cnt' = IF cnt >= 0 THEN -1 ELSE cnt
     /\ wait_list' = queue
     /\ Goto(t, "asleep")

\* The slow path: one last try (it leaves the waiters' -1 alone), then wait.
LockSlow(t) ==
  /\ pc[t] = "slow"
  /\ \/ /\ cnt = 1 /\ cnt' = 0
        /\ Goto(t, "use")
        /\ UNCHANGED wait_list
     \/ cnt # 1 /\ Try(t, Append(wait_list, t))
  /\ UNCHANGED <<with_mutex, f_pos, local, woken, reads>>

LockRetry(t) ==
  /\ pc[t] = "asleep" /\ woken[t]
  /\ woken' = [woken EXCEPT ![t] = FALSE]
  /\ Try(t, wait_list)
  /\ UNCHANGED <<with_mutex, f_pos, local, reads>>

\* What follows the handler: file_pos_write, after a read or write that
\* succeeded.
AfterUnlock(t) ==
  IF op[t] \in {"read", "write"} /\ ~failed[t]
  THEN Goto(t, "pos") /\ UNCHANGED local
  ELSE Return(t)

Unlock(t) ==
  /\ pc[t] = "unlock"
  /\ cnt' = cnt + 1
  /\ reads' = IF op[t] = "read" THEN reads + 1 ELSE reads
  /\ IF cnt + 1 > 0 THEN AfterUnlock(t) ELSE Goto(t, "wake") /\ UNCHANGED local
  /\ UNCHANGED <<with_mutex, wait_list, f_pos, woken>>

\* The slow path: the counter is set to 1 and the first waiter is woken.
UnlockSlow(t) ==
  /\ pc[t] = "wake"
  /\ cnt' = 1
  /\ woken' = [u \in Task |->
                 \/ woken[u]
                 \/ wait_list # <<>> /\ u = Head(wait_list)]
  /\ AfterUnlock(t)
  /\ UNCHANGED <<with_mutex, wait_list, f_pos, reads>>

-----------------------------------------------------------------------------
(* globalmem_read, globalmem_write, globalmem_ioctl *)

\* Mutation of Cut: the whole size, wherever the memory ends.
Cut_Dropped(q, size) == size

\* A size cut to what is left of the memory behind position q.
Cut(q, size) ==
  LET left == (Size - q) % Uint IN IF size > left THEN left ELSE size

\* Mutation of Begin: the position is not compared with GLOBALMEM_SIZE.
Begin_Unchecked(t, handler, next) == \E size \in 0..MaxCount :
  LET q == f_pos[FileOf[t]] % Uint IN
  /\ pc[t] = "idle" /\ f_pos[FileOf[t]] \in -Far..Far
  /\ op' = [op EXCEPT ![t] = handler]
  /\ pos' = [pos EXCEPT ![t] = f_pos[FileOf[t]]]
  /\ count' = [count EXCEPT ![t] = Cut(q, size)]
  /\ Goto(t, next)
  /\ UNCHANGED <<mutex, f_pos, failed, woken, reads>>

\* What read and write have in common: the local p (q here) is the low 32 bits
\* of *ppos, and cuts count.  At the end of the memory the call returns 0, and
\* the position is stored back as it was.
Begin(t, handler, next) == \E size \in 0..MaxCount :
  LET q == f_pos[FileOf[t]] % Uint IN
  /\ pc[t] = "idle" /\ f_pos[FileOf[t]] \in -Far..Far
  /\ op' = [op EXCEPT ![t] = handler]
  /\ pos' = [pos EXCEPT ![t] = f_pos[FileOf[t]]]
  /\ IF q >= Size
     THEN Goto(t, "pos") /\ UNCHANGED count
     ELSE /\ count' = [count EXCEPT ![t] = Cut(q, size)]
          /\ Goto(t, next)
  /\ UNCHANGED <<mutex, f_pos, failed, woken, reads>>

\* Where a handler that writes goes first.
Enter == IF with_mutex THEN "lock" ELSE "use"

Read(t) ==
  /\ with_mutex =>
       reads + Cardinality({u \in Task : op[u] = "read"}) < MaxReads
  /\ Begin(t, "read", "use")

Write(t) == Begin(t, "write", Enter)

\* Mutation of Ioctl: no mutex_lock.
Ioctl_Unlocked(t) ==
  /\ pc[t] = "idle"
  /\ op' = [op EXCEPT ![t] = "clear"]
  /\ Goto(t, "use")
  /\ UNCHANGED <<mutex, f_pos, pos, count, failed, woken, reads>>

\* ioctl(MEM_CLEAR)
Ioctl(t) ==
  /\ pc[t] = "idle"
  /\ op' = [op EXCEPT ![t] = "clear"]
  /\ Goto(t, Enter)
  /\ UNCHANGED <<mutex, f_pos, pos, count, failed, woken, reads>>

\* Mutation of Copy: the error path returns without mutex_unlock.
Copy_KeepsLock(t) ==
  /\ pc[t] = "use" /\ with_mutex
  /\ \/ /\ Goto(t, "unlock")
        /\ pos' = [pos EXCEPT ![t] = @ + count[t]]
        /\ UNCHANGED <<op, count, failed>>
     \/ /\ op[t] # "clear" /\ count[t] > 0
        /\ Return(t)
  /\ UNCHANGED <<mutex, f_pos, woken, reads>>

\* The use of the memory ends.  A copy of some bytes can fail.
Copy(t) ==
  /\ pc[t] = "use" /\ with_mutex
  /\ Goto(t, "unlock")
  /\ \/ pos' = [pos EXCEPT ![t] = @ + count[t]] /\ UNCHANGED failed
     \/ /\ op[t] # "clear" /\ count[t] > 0
        /\ failed' = [failed EXCEPT ![t] = TRUE] /\ UNCHANGED pos
  /\ UNCHANGED <<mutex, f_pos, op, count, woken, reads>>

\* The same without a mutex: the handler returns.
CopyPlain(t) ==
  /\ pc[t] = "use" /\ ~with_mutex
  /\ \/ /\ op[t] # "clear"
        /\ pos' = [pos EXCEPT ![t] = @ + count[t]]
        /\ Goto(t, "pos")
        /\ UNCHANGED <<op, count, failed>>
     \/ /\ op[t] = "clear" \/ count[t] > 0
        /\ Return(t)
  /\ UNCHANGED <<mutex, f_pos, woken, reads>>

\* file_pos_write
StorePos(t) ==
  /\ pc[t] = "pos"
  /\ f_pos' = [f_pos EXCEPT ![FileOf[t]] = pos[t]]
  /\ Return(t)
  /\ UNCHANGED <<mutex, woken, reads>>

-----------------------------------------------------------------------------
(* globalmem_llseek *)

\* SEEK_SET: only the low 32 bits of the offset are compared and stored.
SeekSet(t) == \E offset \in Offset :
  /\ pc[t] = "idle"
  /\ offset >= 0 /\ offset % Uint <= Size
  /\ f_pos' = [f_pos EXCEPT ![FileOf[t]] = offset % Uint]
  /\ UNCHANGED <<mutex, pc, local, woken, reads>>

\* Mutation of SeekCur: no upper limit.
SeekCur_Unlimited(t) == \E offset \in Offset :
  /\ pc[t] = "idle"
  /\ f_pos[FileOf[t]] + offset >= 0
  /\ op' = [op EXCEPT ![t] = "seek"]
  /\ pos' = [pos EXCEPT ![t] = offset]
  /\ Goto(t, "add")
  /\ UNCHANGED <<mutex, f_pos, count, failed, woken, reads>>

\* SEEK_CUR: the sum is tested ...
SeekCur(t) == \E offset \in Offset :
  /\ pc[t] = "idle"
  /\ f_pos[FileOf[t]] + offset \in 0..Size
  /\ op' = [op EXCEPT ![t] = "seek"]
  /\ pos' = [pos EXCEPT ![t] = offset]
  /\ Goto(t, "add")
  /\ UNCHANGED <<mutex, f_pos, count, failed, woken, reads>>

\* ... and then computed once more.
SeekAdd(t) ==
  /\ pc[t] = "add"
  /\ f_pos' = [f_pos EXCEPT ![FileOf[t]] = @ + pos[t]]
  /\ Return(t)
  /\ UNCHANGED <<mutex, woken, reads>>

-----------------------------------------------------------------------------

Call(t) == Read(t) \/ Write(t) \/ Ioctl(t) \/ SeekSet(t) \/ SeekCur(t)

Step(t) ==
  \/ Lock(t) \/ LockSlow(t) \/ LockRetry(t) \/ Copy(t) \/ CopyPlain(t)
  \/ Unlock(t) \/ UnlockSlow(t) \/ StorePos(t) \/ SeekAdd(t)

Next == \E t \in Task : Call(t) \/ Step(t)

Spec == Init /\ [][Next]_vars

-----------------------------------------------------------------------------
(* Properties *)

\* Copies stay inside dev->mem, although tasks that share the file can race
\* f_pos past the end or below 0 (llseek tests and adds in two steps).
InBounds == \A t \in Task :
  pc[t] = "use" /\ op[t] \in {"read", "write"} =>
    (pos[t] % Uint) + count[t] <= Size

\* The position of a file that only one task uses is within the memory, or
\* just behind it, whatever that task passes to llseek.
Alone(t) == \A u \in Task : FileOf[u] = FileOf[t] => u = t

PosInRange == \A t \in Task : Alone(t) => f_pos[FileOf[t]] \in 0..Size

\* The tasks that have locked dev->mutex and not unlocked it.
Owners == {t \in Task : /\ with_mutex /\ pc[t] \in {"use", "unlock"}
                        /\ op[t] \in {"write", "clear"}}

\* write and MEM_CLEAR exclude each other until the first read; each read can
\* let in one more.
OwnersBounded == Cardinality(Owners) <= 1 + reads

\* When no call is under way the mutex can be locked: the error paths give it
\* back too, and no unlock of a read, whenever it comes, makes it unusable.
FreeWhenIdle == (\A t \in Task : pc[t] = "idle") =>
  cnt \in 1..1 + reads /\ wait_list = <<>>
==============================================================================
