------------------------------ MODULE ByteQueue ------------------------------
(***************************************************************************)
(* What the globalfifo device promises its users, with no lock, no wait    *)
(* queue and no interleaving inside a call: a bounded first-in first-out   *)
(* queue of bytes.                                                         *)
(*                                                                         *)
(* A call begins (Read, Write, Ioctl), comes to one outcome, and returns   *)
(* it.  A write that succeeds appends the longest prefix of the caller's   *)
(* buffer that fits, in one step, and returns its length.  A read that     *)
(* succeeds moves the oldest bytes to the caller's buffer, as many as it   *)
(* asked for or as there are, in one step, and returns their number.       *)
(* FIFO_CLEAR empties the queue.  A call that fails leaves the queue       *)
(* alone.  No call takes effect twice, or takes effect and then fails.     *)
(* Globalfifo implements this specification (see there).                   *)
(***************************************************************************)
EXTENDS Integers, Sequences

CONSTANTS Task,      \* the callers
          Nonblock,  \* the callers whose file is O_NONBLOCK
          Byte,      \* the values a byte can have
          Size,      \* GLOBALFIFO_SIZE
          MaxCount   \* the largest count a caller passes

VARIABLES queue,     \* the bytes written and not yet read
          op,        \* op[t]: the call t is in, or "none"
          count,     \* count[t]: the bytes t asks for; once its call has
                     \*   succeeded, the bytes moved, which it returns
          buf,       \* buf[t]: the user buffer of t's call
          ret        \* ret[t]: the outcome of t's call, "none" before it

local == <<op, count, buf, ret>>
vars  == <<queue, local>>

Least(m, n) == IF m <= n THEN m ELSE n

Buffers == UNION {[1..n -> Byte] : n \in 0..MaxCount}

Init ==
  /\ queue = <<>>
  /\ op = [t \in Task |-> "none"]
  /\ count = [t \in Task |-> 0]
  /\ buf = [t \in Task |-> <<>>]
  /\ ret = [t \in Task |-> "none"]

-----------------------------------------------------------------------------
(* A call begins. *)

Read(t) == \E k \in 0..MaxCount :
  /\ op[t] = "none"
  /\ op' = [op EXCEPT ![t] = "read"]
  /\ count' = [count EXCEPT ![t] = k]
  /\ UNCHANGED <<queue, buf, ret>>

Write(t) == \E s \in Buffers :
  /\ op[t] = "none"
  /\ op' = [op EXCEPT ![t] = "write"]
  /\ count' = [count EXCEPT ![t] = Len(s)]
  /\ buf' = [buf EXCEPT ![t] = s]
  /\ UNCHANGED <<queue, ret>>

Ioctl(t) ==
  /\ op[t] = "none"
  /\ op' = [op EXCEPT ![t] = "clear"]
  /\ UNCHANGED <<queue, count, buf, ret>>

-----------------------------------------------------------------------------
(* It comes to its outcome. *)

Pending(t) == op[t] # "none" /\ ret[t] = "none"

\* The queue lets t's read or write move something.
Possible(t) == \/ op[t] = "read" /\ queue # <<>>
               \/ op[t] = "write" /\ Len(queue) < Size

\* A read takes the oldest bytes.
Get(t) == LET n == Least(count[t], Len(queue)) IN
  /\ Pending(t) /\ op[t] = "read" /\ Possible(t)
  /\ buf' = [buf EXCEPT ![t] = SubSeq(queue, 1, n)]
  /\ queue' = SubSeq(queue, n + 1, Len(queue))
  /\ count' = [count EXCEPT ![t] = n]
  /\ ret' = [ret EXCEPT ![t] = "ok"]
  /\ UNCHANGED op

\* A write appends what fits.
Put(t) == LET n == Least(count[t], Size - Len(queue)) IN
  /\ Pending(t) /\ op[t] = "write" /\ Possible(t)
  /\ queue' = queue \o SubSeq(buf[t], 1, n)
  /\ count' = [count EXCEPT ![t] = n]
  /\ ret' = [ret EXCEPT ![t] = "ok"]
  /\ UNCHANGED <<op, buf>>

Clear(t) ==
  /\ Pending(t) /\ op[t] = "clear"
  /\ queue' = <<>>
  /\ ret' = [ret EXCEPT ![t] = "ok"]
  /\ UNCHANGED <<op, count, buf>>

\* A read or write fails: without waiting when it cannot move anything, by a
\* bad user buffer when it could, or by a signal when it may wait.
Fail(t) == \E e \in {"EAGAIN", "EFAULT", "ERESTARTSYS"} :
  /\ Pending(t) /\ op[t] \in {"read", "write"}
  /\ e = "EAGAIN" => t \in Nonblock /\ ~Possible(t)
  /\ e = "EFAULT" => count[t] # 0 /\ Possible(t)
  /\ e = "ERESTARTSYS" => t \notin Nonblock
  /\ ret' = [ret EXCEPT ![t] = e]
  /\ UNCHANGED <<queue, op, count, buf>>

-----------------------------------------------------------------------------
(* It is over: the caller has the outcome, and its buffer is its own again. *)

Return(t) ==
  /\ op[t] # "none" /\ ret[t] # "none"
  /\ op' = [op EXCEPT ![t] = "none"]
  /\ count' = [count EXCEPT ![t] = 0]
  /\ buf' = [buf EXCEPT ![t] = <<>>]
  /\ ret' = [ret EXCEPT ![t] = "none"]
  /\ UNCHANGED queue

Next == \E t \in Task :
  \/ Read(t) \/ Write(t) \/ Ioctl(t)
  \/ Get(t) \/ Put(t) \/ Clear(t) \/ Fail(t)
  \/ Return(t)

Spec == Init /\ [][Next]_vars
==============================================================================
