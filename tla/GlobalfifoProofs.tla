-------------------------- MODULE GlobalfifoProofs --------------------------
(***************************************************************************)
(* What is proved of the globalfifo device, for all sets of tasks, buffer  *)
(* sizes and counts, on one CPU and on several:                            *)
(*   - Inv, the inductive invariant (InvInductive, Invariance), and with   *)
(*     it the type invariant, mutual exclusion and that no wait entry is   *)
(*     left behind by a call;                                              *)
(*   - that readers, pollers and writers are not left waiting              *)
(*     (ReadersAreWoken, PollersAreWoken, WritersAreWoken), from           *)
(*     NoMissedData and NoMissedWriter, each inductive with Inv;           *)
(*   - that the device implements ByteQueue (Refinement), each call with   *)
(*     one outcome, from Inv and Outcomes, which is inductive with it;     *)
(*   - that no closed file is on async_queue (NoSignalToClosedFile), and,  *)
(*     on one CPU, that a timeout of epoll_wait tells the truth            *)
(*     (TimeoutIsHonest).                                                  *)
(*                                                                         *)
(* Every lemma on steps has one case per action of Globalfifo.  They       *)
(* assume ~damaged: the model stops when a list is inconsistent.           *)
(***************************************************************************)
EXTENDS Globalfifo, SequenceTheorems, TLAPS

\* What list_del leaves of r_wait (RemoveAt): the other entries, in order.
LEMMA RemoveAtProps ==
  ASSUME NEW S, NEW s \in Seq(S), NEW i \in 1..Len(s)
  PROVE  /\ RemoveAt(s, i) \in Seq(S)
         /\ Len(RemoveAt(s, i)) = Len(s) - 1
         /\ \A j \in 1..Len(s) - 1 :
              RemoveAt(s, i)[j] = IF j < i THEN s[j] ELSE s[j+1]
<1> DEFINE a == SubSeq(s, 1, i-1)
           b == SubSeq(s, i+1, Len(s))
<1>1. Len(s) \in Nat
  BY LenProperties
<1>2. /\ a \in Seq(S) /\ Len(a) = i - 1
      /\ \A j \in 1..i-1 : a[j] = s[j]
  BY <1>1, SubSeqProperties
<1>3. /\ b \in Seq(S) /\ Len(b) = Len(s) - i
      /\ \A j \in 1..Len(s)-i : b[j] = s[j+i]
  BY <1>1, SubSeqProperties
<1> HIDE DEF a, b
<1>4. /\ a \o b \in Seq(S) /\ Len(a \o b) = Len(s) - 1
      /\ \A j \in 1..Len(s)-1 :
           (a \o b)[j] = IF j <= i-1 THEN a[j] ELSE b[j - (i-1)]
  <2>1. Len(a) + Len(b) = Len(s) - 1
    BY <1>1, <1>2, <1>3
  <2>2. /\ a \o b \in Seq(S)
        /\ Len(a \o b) = Len(a) + Len(b)
        /\ \A j \in 1..Len(a) + Len(b) :
             (a \o b)[j] = IF j <= Len(a) THEN a[j] ELSE b[j - Len(a)]
    BY <1>2, <1>3, ConcatProperties
  <2> QED
    BY <2>1, <2>2, <1>1, <1>2, <1>3
<1>5. RemoveAt(s, i) = a \o b
  BY DEF RemoveAt, a, b
<1> QED
  BY <1>1, <1>2, <1>3, <1>4, <1>5

\* A user buffer given as a function on 1..n is a sequence of length n.
LEMMA FunctionIsSeq ==
  ASSUME NEW S, NEW n \in Nat, NEW f \in [1..n -> S]
  PROVE  f \in Seq(S) /\ Len(f) = n
<1>1. f \in Seq(S)
  BY SeqDef
<1> QED
  BY <1>1, LenProperties

\* Every buffer a caller can hand to write is a sequence of bytes of a
\* bounded length.
LEMMA BytesAreSeqs ==
  \A s \in Bytes : s \in Seq(Byte) /\ Len(s) \in 0..MaxCount
<1> SUFFICES ASSUME NEW s \in Bytes
             PROVE  s \in Seq(Byte) /\ Len(s) \in 0..MaxCount
  OBVIOUS
<1>1. PICK n \in 0..MaxCount : s \in [1..n -> Byte]
  BY DEF Bytes
<1> QED
  BY <1>1, FunctionIsSeq, ConstantsAssumption

\* copy_from_user of line 185, complete or not, writes bytes and keeps inside
\* mem.
LEMMA CopiedInType ==
  ASSUME TypeOK, NEW s \in Seq(Byte), NEW n \in 0..Len(s), NEW k \in 0..n
  PROVE  CopiedIn(s, k, n) \in [0..Size-1 -> Byte]
<1>1. \A i \in 1..Len(s) : s[i] \in Byte
  BY ElementOfSeq
<1>2. Len(s) \in Nat
  BY LenProperties
<1> QED
  BY <1>1, <1>2, ConstantsAssumption DEF CopiedIn, TypeOK

\* add_wait_queue or poll_wait on r_wait of a task that is not on it: the task
\* is on it once afterwards, or is cut off, and nobody else is disturbed.
LEMMA LinkProps ==
  ASSUME TypeOK, EachOnce, ~damaged, NEW t \in Task, t \notin Linked, Link(t)
  PROVE  /\ r_wait' \in Seq(Task) /\ lost' \subseteq Task
         /\ damaged' \in BOOLEAN
         /\ EachOnce'
         /\ ~damaged' => Linked' = Linked \union {t}
<1> DEFINE s == <<t>> \o r_wait
<1>1. /\ s \in Seq(Task) /\ Len(s) = Len(r_wait) + 1 /\ Len(r_wait) \in Nat
      /\ s[1] = t /\ \A i \in 2..Len(s) : s[i] = r_wait[i-1]
  <2>1. <<t>> \in Seq(Task) /\ Len(<<t>>) = 1 /\ <<t>>[1] = t
    OBVIOUS
  <2>2. r_wait \in Seq(Task) /\ Len(r_wait) \in Nat
    BY LenProperties DEF TypeOK
  <2>3. /\ s \in Seq(Task) /\ Len(s) = Len(<<t>>) + Len(r_wait)
        /\ \A i \in 1..Len(<<t>>) + Len(r_wait) :
             s[i] = IF i <= Len(<<t>>) THEN <<t>>[i]
                                       ELSE r_wait[i - Len(<<t>>)]
    BY <2>1, <2>2, ConcatProperties
  <2> QED
    BY <2>1, <2>2, <2>3
<1>2. DOMAIN s = 1..Len(s) /\ DOMAIN r_wait = 1..Len(r_wait)
  BY <1>1, LenProperties DEF TypeOK
<1> HIDE DEF s
<1>3. ToSet(s) = ToSet(r_wait) \union {t}
  <2>1. \A u \in ToSet(r_wait) : \E i \in 2..Len(s) : s[i] = u
    <3> SUFFICES ASSUME NEW u \in ToSet(r_wait)
                 PROVE  \E i \in 2..Len(s) : s[i] = u
      OBVIOUS
    <3>1. PICK j \in 1..Len(r_wait) : r_wait[j] = u
      BY <1>2 DEF ToSet
    <3>2. j + 1 \in 2..Len(s) /\ s[j+1] = u
      BY <1>1, <3>1, SMTT(30)
    <3> QED
      BY <3>2
  <2>2. \A i \in 2..Len(s) : s[i] \in ToSet(r_wait)
    BY <1>1, <1>2 DEF ToSet
  <2>3. ToSet(s) = {s[i] : i \in 1..Len(s)}
    BY <1>2 DEF ToSet
  <2>4. 1 \in 1..Len(s) /\ \A i \in 1..Len(s) : i = 1 \/ i \in 2..Len(s)
    BY <1>1
  <2> QED
    BY <1>1, <2>1, <2>2, <2>3, <2>4
<1>4. \A i \in 1..Len(r_wait) : r_wait[i] # t
  BY <1>2 DEF Linked, ToSet
<1>5. CASE r_wait' = s /\ UNCHANGED <<lost, damaged>>
  <2>1. \A i, j \in 1..Len(s) : s[i] = s[j] => i = j
    BY <1>1, <1>4 DEF EachOnce
  <2> QED
    BY <1>1, <1>3, <1>5, <2>1 DEF TypeOK, EachOnce, Linked
<1>6. CASE lost' = lost \union {t} /\ UNCHANGED <<r_wait, damaged>>
  BY <1>6 DEF TypeOK, EachOnce, Linked
<1>7. CASE damaged' = TRUE /\ UNCHANGED <<r_wait, lost>>
  BY <1>7 DEF TypeOK, EachOnce
<1> QED
  BY <1>5, <1>6, <1>7 DEF Link, s

\* remove_wait_queue of a task that is on r_wait takes just that task off it,
\* unless the entry was cut off (the list is damaged then).
LEMMA UnlinkProps ==
  ASSUME TypeOK, EachOnce, ~damaged, NEW t \in Task, t \in Linked, Unlink(t)
  PROVE  /\ r_wait' \in Seq(Task) /\ lost' \subseteq Task
         /\ damaged' \in BOOLEAN
         /\ EachOnce'
         /\ ~damaged' => Linked' = Linked \ {t}
<1>1. CASE t \in lost
  BY <1>1 DEF Unlink, TypeOK, EachOnce
<1>2. CASE t \notin lost
  <2> DEFINE i == Position(t)
             s == RemoveAt(r_wait, i)
  <2>1. DOMAIN r_wait = 1..Len(r_wait) /\ Len(r_wait) \in Nat
    BY LenProperties DEF TypeOK
  <2>2. i \in 1..Len(r_wait) /\ r_wait[i] = t
    BY <1>2, <2>1 DEF Linked, ToSet, Position
  <2> HIDE DEF i
  <2>3. /\ s \in Seq(Task) /\ Len(s) = Len(r_wait) - 1
        /\ \A j \in 1..Len(r_wait) - 1 :
             s[j] = IF j < i THEN r_wait[j] ELSE r_wait[j+1]
    BY <2>2, RemoveAtProps DEF TypeOK
  <2>4. DOMAIN s = 1..Len(s)
    BY <2>3, LenProperties
  <2> HIDE DEF s
  <2>5. \A j \in 1..Len(r_wait) : r_wait[j] = t => j = i
    BY <2>2 DEF EachOnce
  <2>6. ToSet(s) \subseteq ToSet(r_wait) \ {t}
    BY <2>1, <2>2, <2>3, <2>4, <2>5 DEF ToSet
  <2>7. ASSUME NEW u \in ToSet(r_wait) \ {t} PROVE u \in ToSet(s)
    <3>1. PICK j \in 1..Len(r_wait) : r_wait[j] = u /\ j # i
      BY <2>1, <2>2, <2>7 DEF ToSet
    <3>2. CASE j < i
      BY <3>1, <3>2, <2>1, <2>2, <2>3, <2>4 DEF ToSet
    <3>3. CASE j > i
      <4>1. j - 1 \in 1..Len(s) /\ s[j-1] = r_wait[j]
        BY <3>1, <3>3, <2>1, <2>2, <2>3
      <4> QED
        BY <4>1, <3>1, <2>4 DEF ToSet
    <3> QED
      BY <3>1, <3>2, <3>3, <2>2
  <2>8. ToSet(s) = ToSet(r_wait) \ {t}
    BY <2>6, <2>7
  <2>9. \A j, k \in 1..Len(s) : s[j] = s[k] => j = k
    BY <2>1, <2>2, <2>3 DEF EachOnce
  <2>10. r_wait' = s /\ UNCHANGED <<lost, damaged>>
    BY <1>2 DEF Unlink, s, i
  <2> QED
    BY <1>2, <2>3, <2>8, <2>9, <2>10 DEF TypeOK, EachOnce, Linked
<1> QED
  BY <1>1, <1>2

\* The invariant holds after globalfifo_probe, before the first open.
LEMMA InitInv == Init => Inv
<1> SUFFICES ASSUME Init PROVE Inv
  OBVIOUS
<1>1. TypeOK
  <2>1. <<>> \in Seq(Task) /\ <<>> \in Seq(Byte)
    BY EmptySeq
  <2>2. 0 \in 0..Size /\ 0 \in 0..MaxCount
    BY ConstantsAssumption
  <2> QED
    BY <2>1, <2>2, ConstantsAssumption DEF Init, TypeOK, Returns
<1>2. Len(r_wait) = 0 /\ \A t \in Task : Len(buf[t]) = 0 /\ mutex # t
  BY ConstantsAssumption, EmptySeq DEF Init
<1>3. ToSet(r_wait) = {}
  BY <1>2, EmptySeq DEF Init, ToSet
<1> QED
  BY <1>1, <1>2, <1>3 DEF Init, Inv, MutexHeldInside, Registered, EachOnce,
     Linked, Amounts, Holding, RLinked, WLinked

\* On one CPU read unlinks its entry and returns in one step: spin_lock_irqsave
\* of either queue keeps every other task out.
LEMMA UnlinkOnOneCpu ==
  ASSUME NEW t, R_Unlink(t), ~Smp
  PROVE  /\ pc[t] = "r_unlink" /\ Unlink(t) /\ Return(t)
         /\ mutex' = mutex /\ current_len' = current_len /\ mem' = mem
         /\ w_wait' = w_wait /\ async_queue' = async_queue
BY DEF R_Unlink, dev

\* Every step keeps the types; above all current_len stays within mem, which
\* read and write rely on in lines 128 to 136 and 182 to 189.
LEMMA TypeStep ==
  ASSUME Inv, ~damaged, NEW t \in Task, Step(t) \/ Environment(t)
  PROVE  TypeOK'
<1> USE ConstantsAssumption DEF Inv, TypeOK, Goto, mutex_lock, mutex_unlock,
      dev, lists, local, Amounts, ReadPcs, WritePcs, ClearPcs, PollPcs,
      Returns
<1>1. CASE Open(t)
  BY <1>1 DEF Open
<1>2. CASE Release(t)
  BY <1>2 DEF Release
<1>3. CASE Fasync(t)
  BY <1>3 DEF Fasync
<1>4. CASE Signal(t)
  BY <1>4 DEF Signal
<1>5. CASE Read(t)
  BY <1>5 DEF Read
<1>6. CASE R_Lock(t)
  <2>1. t \notin Linked
    BY <1>6 DEF R_Lock, Registered, RLinked
  <2>2. r_wait' \in Seq(Task) /\ lost' \subseteq Task /\ damaged' \in BOOLEAN
    BY <1>6, <2>1, LinkProps DEF R_Lock
  <2> QED
    BY <1>6, <2>2 DEF R_Lock
<1>7. CASE R_Again(t)
  BY <1>7 DEF R_Again
<1>8. CASE R_Block(t)
  BY <1>8 DEF R_Block
<1>9. CASE R_Sleep(t)
  <2>1. CASE sig[t]
    BY ZenonT(40), <1>9, <2>1 DEF R_Sleep
  <2>2. CASE ~sig[t]
    BY <1>9, <2>2 DEF R_Sleep
  <2> QED
    BY <2>1, <2>2
<1>10. CASE R_Relock(t)
  BY <1>10 DEF R_Relock
<1>11. CASE R_Copy(t)
  <2> DEFINE n == Least(count[t], current_len)
  <2>1. n \in 0..MaxCount /\ n <= current_len
    BY DEF Least
  <2> HIDE DEF n
  <2>2. [i \in 1..n |-> mem[i-1]] \in [1..n -> Byte]
    BY <2>1
  <2>3. [i \in 1..n |-> mem[i-1]] \in Seq(Byte)
    BY <2>1, <2>2, FunctionIsSeq
  <2>4. /\ count' = [count EXCEPT ![t] = n]
        /\ buf' = [buf EXCEPT ![t] = [i \in 1..n |-> mem[i-1]]]
    BY <1>11 DEF R_Copy, n
  <2> QED
    BY <1>11, <2>1, <2>3, <2>4 DEF R_Copy
<1>12. CASE R_Fault(t)
  BY <1>12 DEF R_Fault
<1>13. CASE R_Shift(t)
  BY <1>13 DEF R_Shift
<1>14. CASE R_Len(t)
  BY <1>14 DEF R_Len
<1>15. CASE R_Wake(t)
  BY <1>15 DEF R_Wake
<1>16. CASE R_Unlock(t)
  BY <1>16 DEF R_Unlock
<1>17. CASE R_Unlink(t)
  <2>1. CASE Smp
    BY <1>17, <2>1 DEF R_Unlink
  <2>2. CASE ~Smp
    <3>1. t \in Linked
      BY <1>17 DEF R_Unlink, Registered, RLinked
    <3>2. r_wait' \in Seq(Task) /\ lost' \subseteq Task /\ damaged' \in BOOLEAN
      BY <1>17, <2>2, <3>1, UnlinkProps DEF R_Unlink
    <3>3. /\ pc[t] = "r_unlink" /\ Return(t)
          /\ mutex' = mutex /\ current_len' = current_len /\ mem' = mem
          /\ w_wait' = w_wait /\ async_queue' = async_queue
      BY <1>17, <2>2, UnlinkOnOneCpu
    <3> QED
      BY <3>2, <3>3 DEF Return
  <2> QED
    BY <2>1, <2>2
<1>18. CASE R_Del(t)
  <2>1. t \in Linked
    BY <1>18 DEF R_Del, Registered, RLinked
  <2>2. r_wait' \in Seq(Task) /\ lost' \subseteq Task /\ damaged' \in BOOLEAN
    BY <1>18, <2>1, UnlinkProps DEF R_Del
  <2> QED
    BY <1>18, <2>2 DEF R_Del, Return
<1>19. CASE Write(t)
  BY <1>19, BytesAreSeqs DEF Write
<1>20. CASE W_Lock(t)
  BY <1>20 DEF W_Lock
<1>21. CASE W_Again(t)
  BY <1>21 DEF W_Again
<1>22. CASE W_Block(t)
  BY <1>22 DEF W_Block
<1>23. CASE W_Sleep(t)
  <2>1. CASE sig[t]
    BY ZenonT(40), <1>23, <2>1 DEF W_Sleep
  <2>2. CASE ~sig[t]
    BY <1>23, <2>2 DEF W_Sleep
  <2> QED
    BY <2>1, <2>2
<1>24. CASE W_Relock(t)
  BY <1>24 DEF W_Relock
<1>25. CASE W_Copy(t)
  <2> DEFINE n == Least(count[t], Size - current_len)
  <2>1. n \in 0..MaxCount /\ n <= Len(buf[t])
    BY <1>25 DEF W_Copy, Least
  <2> HIDE DEF n
  <2>2. CopiedIn(buf[t], n, n) \in [0..Size-1 -> Byte]
    BY <2>1, LenProperties, CopiedInType
  <2>3. count' = [count EXCEPT ![t] = n] /\ mem' = CopiedIn(buf[t], n, n)
    BY <1>25 DEF W_Copy, n
  <2> QED
    BY <1>25, <2>1, <2>2, <2>3 DEF W_Copy
<1>26. CASE W_Fault(t)
  <2> DEFINE n == Least(count[t], Size - current_len)
  <2>1. n \in 0..MaxCount /\ n <= Len(buf[t])
    BY <1>26 DEF W_Fault, Least
  <2> HIDE DEF n
  <2>2. PICK k \in 0..n-1 : mem' = CopiedIn(buf[t], k, n)
    BY <1>26 DEF W_Fault, n
  <2>3. CopiedIn(buf[t], k, n) \in [0..Size-1 -> Byte]
    BY <2>1, LenProperties, CopiedInType
  <2> QED
    BY <1>26, <2>2, <2>3 DEF W_Fault
<1>27. CASE W_Len(t)
  BY <1>27, SMTT(30) DEF W_Len, Least
<1>28. CASE W_Wake(t)
  BY ZenonT(40), <1>28 DEF W_Wake
<1>29. CASE W_Kill(t)
  BY <1>29 DEF W_Kill
<1>30. CASE W_Unlock(t)
  BY <1>30 DEF W_Unlock
<1>31. CASE W_Unlink(t)
  BY <1>31 DEF W_Unlink, Return
<1>32. CASE Ioctl(t)
  BY <1>32 DEF Ioctl
<1>33. CASE C_Lock(t)
  BY <1>33 DEF C_Lock
<1>34. CASE C_Zero(t)
  BY <1>34, SMTT(30) DEF C_Zero
<1>35. CASE C_Unlock(t)
  BY <1>35 DEF C_Unlock, Return
<1>36. CASE Poll(t)
  BY <1>36 DEF Poll
<1>37. CASE P_Lock(t)
  <2>1. t \notin Linked
    BY <1>37 DEF P_Lock, Registered, RLinked
  <2>2. r_wait' \in Seq(Task) /\ lost' \subseteq Task /\ damaged' \in BOOLEAN
    BY <1>37, <2>1, LinkProps DEF P_Lock
  <2> QED
    BY <1>37, <2>2 DEF P_Lock
<1>38. CASE P_Mask(t)
  BY ZenonT(40), <1>38 DEF P_Mask, Ready
<1>39. CASE P_Wait(t)
  BY <1>39 DEF P_Wait
<1>40. CASE P_Timeout(t)
  BY <1>40 DEF P_Timeout
<1>41. CASE P_Intr(t)
  BY <1>41 DEF P_Intr
<1>42. CASE P_Relock(t)
  BY <1>42 DEF P_Relock
<1>43. CASE P_Remask(t)
  BY <1>43 DEF P_Remask
<1>44. CASE P_Free(t)
  <2>1. t \in Linked
    BY <1>44 DEF P_Free, Registered, RLinked
  <2>2. r_wait' \in Seq(Task) /\ lost' \subseteq Task /\ damaged' \in BOOLEAN
    BY <1>44, <2>1, UnlinkProps DEF P_Free
  <2> QED
    BY <1>44, <2>2 DEF P_Free
<1>45. CASE P_Free2(t)
  BY <1>45 DEF P_Free2, Return
<1> QED
  BY <1>1, <1>2, <1>3, <1>4, <1>5, <1>6, <1>7, <1>8, <1>9, <1>10, <1>11,
     <1>12, <1>13, <1>14, <1>15, <1>16, <1>17, <1>18, <1>19, <1>20, <1>21,
     <1>22, <1>23, <1>24, <1>25, <1>26, <1>27, <1>28, <1>29, <1>30, <1>31,
     <1>32, <1>33, <1>34, <1>35, <1>36, <1>37, <1>38, <1>39, <1>40, <1>41,
     <1>42, <1>43, <1>44, <1>45 DEF Step, Environment

\* Every path of every handler unlocks the mutex it locked, and no other: the
\* labels between lock and unlock are those of the owner.
LEMMA MutexStep ==
  ASSUME Inv, ~damaged, NEW t \in Task, Step(t) \/ Environment(t)
  PROVE  MutexHeldInside'
<1> USE ConstantsAssumption DEF Inv, TypeOK, Goto, mutex_lock, mutex_unlock,
      dev, lists, local, MutexHeldInside, Holding
<1>1. CASE Open(t)
  BY <1>1 DEF Open
<1>2. CASE Release(t)
  BY <1>2 DEF Release
<1>3. CASE Fasync(t)
  BY <1>3 DEF Fasync
<1>4. CASE Signal(t)
  BY <1>4 DEF Signal
<1>5. CASE Read(t)
  BY <1>5 DEF Read
<1>6. CASE R_Lock(t)
  BY <1>6 DEF R_Lock
<1>7. CASE R_Again(t)
  BY <1>7 DEF R_Again
<1>8. CASE R_Block(t)
  BY <1>8 DEF R_Block
<1>9. CASE R_Sleep(t)
  BY ZenonT(40), <1>9 DEF R_Sleep
<1>10. CASE R_Relock(t)
  BY <1>10 DEF R_Relock
<1>11. CASE R_Copy(t)
  BY <1>11 DEF R_Copy
<1>12. CASE R_Fault(t)
  BY <1>12 DEF R_Fault
<1>13. CASE R_Shift(t)
  BY <1>13 DEF R_Shift
<1>14. CASE R_Len(t)
  BY <1>14 DEF R_Len
<1>15. CASE R_Wake(t)
  BY <1>15 DEF R_Wake
<1>16. CASE R_Unlock(t)
  BY <1>16 DEF R_Unlock
<1>17. CASE R_Unlink(t)
  <2>1. CASE Smp
    BY <1>17, <2>1 DEF R_Unlink
  <2>2. CASE ~Smp
    <3>1. pc[t] = "r_unlink" /\ Return(t) /\ mutex' = mutex
      BY <1>17, <2>2, UnlinkOnOneCpu
    <3> QED
      BY <3>1 DEF Return
  <2> QED
    BY <2>1, <2>2
<1>18. CASE R_Del(t)
  BY <1>18 DEF R_Del, Return
<1>19. CASE Write(t)
  BY <1>19 DEF Write
<1>20. CASE W_Lock(t)
  BY <1>20 DEF W_Lock
<1>21. CASE W_Again(t)
  BY <1>21 DEF W_Again
<1>22. CASE W_Block(t)
  BY <1>22 DEF W_Block
<1>23. CASE W_Sleep(t)
  BY ZenonT(40), <1>23 DEF W_Sleep
<1>24. CASE W_Relock(t)
  BY <1>24 DEF W_Relock
<1>25. CASE W_Copy(t)
  BY <1>25 DEF W_Copy
<1>26. CASE W_Fault(t)
  BY <1>26 DEF W_Fault
<1>27. CASE W_Len(t)
  BY <1>27 DEF W_Len
<1>28. CASE W_Wake(t)
  BY <1>28 DEF W_Wake
<1>29. CASE W_Kill(t)
  BY <1>29 DEF W_Kill
<1>30. CASE W_Unlock(t)
  BY <1>30 DEF W_Unlock
<1>31. CASE W_Unlink(t)
  BY <1>31 DEF W_Unlink, Return
<1>32. CASE Ioctl(t)
  BY <1>32 DEF Ioctl
<1>33. CASE C_Lock(t)
  BY <1>33 DEF C_Lock
<1>34. CASE C_Zero(t)
  BY <1>34 DEF C_Zero
<1>35. CASE C_Unlock(t)
  BY <1>35 DEF C_Unlock, Return
<1>36. CASE Poll(t)
  BY <1>36 DEF Poll
<1>37. CASE P_Lock(t)
  BY <1>37 DEF P_Lock
<1>38. CASE P_Mask(t)
  BY ZenonT(40), <1>38 DEF P_Mask
<1>39. CASE P_Wait(t)
  BY <1>39 DEF P_Wait
<1>40. CASE P_Timeout(t)
  BY <1>40 DEF P_Timeout
<1>41. CASE P_Intr(t)
  BY <1>41 DEF P_Intr
<1>42. CASE P_Relock(t)
  BY <1>42 DEF P_Relock
<1>43. CASE P_Remask(t)
  BY <1>43 DEF P_Remask
<1>44. CASE P_Free(t)
  BY <1>44 DEF P_Free
<1>45. CASE P_Free2(t)
  BY <1>45 DEF P_Free2, Return
<1> QED
  BY <1>1, <1>2, <1>3, <1>4, <1>5, <1>6, <1>7, <1>8, <1>9, <1>10, <1>11,
     <1>12, <1>13, <1>14, <1>15, <1>16, <1>17, <1>18, <1>19, <1>20, <1>21,
     <1>22, <1>23, <1>24, <1>25, <1>26, <1>27, <1>28, <1>29, <1>30, <1>31,
     <1>32, <1>33, <1>34, <1>35, <1>36, <1>37, <1>38, <1>39, <1>40, <1>41,
     <1>42, <1>43, <1>44, <1>45 DEF Step, Environment

\* A wait entry is linked from the add_wait_queue or poll_wait of its call to
\* the remove_wait_queue of every way out (out and out2), and at no other time.
LEMMA RegisteredStep ==
  ASSUME Inv, ~damaged, NEW t \in Task, Step(t) \/ Environment(t)
  PROVE  Registered'
<1> USE ConstantsAssumption DEF Inv, TypeOK, Goto, mutex_lock, mutex_unlock,
      dev, lists, local, Registered, RLinked, WLinked, Linked
<1>1. CASE Open(t)
  BY <1>1 DEF Open
<1>2. CASE Release(t)
  BY <1>2 DEF Release
<1>3. CASE Fasync(t)
  BY <1>3 DEF Fasync
<1>4. CASE Signal(t)
  BY <1>4 DEF Signal
<1>5. CASE Read(t)
  BY <1>5 DEF Read
<1>6. CASE R_Lock(t)
  <2>1. t \notin Linked
    BY <1>6 DEF R_Lock
  <2>2. ~damaged' => Linked' = Linked \union {t}
    BY <1>6, <2>1, LinkProps DEF R_Lock
  <2> HIDE DEF Linked
  <2> QED
    BY <1>6, <2>2 DEF R_Lock
<1>7. CASE R_Again(t)
  BY <1>7 DEF R_Again
<1>8. CASE R_Block(t)
  BY <1>8 DEF R_Block
<1>9. CASE R_Sleep(t)
  BY ZenonT(40), <1>9 DEF R_Sleep
<1>10. CASE R_Relock(t)
  BY <1>10 DEF R_Relock
<1>11. CASE R_Copy(t)
  BY <1>11 DEF R_Copy
<1>12. CASE R_Fault(t)
  BY <1>12 DEF R_Fault
<1>13. CASE R_Shift(t)
  BY <1>13 DEF R_Shift
<1>14. CASE R_Len(t)
  BY <1>14 DEF R_Len
<1>15. CASE R_Wake(t)
  BY <1>15 DEF R_Wake
<1>16. CASE R_Unlock(t)
  BY <1>16 DEF R_Unlock
<1>17. CASE R_Unlink(t)
  <2>1. CASE Smp
    BY ZenonT(40), <1>17, <2>1 DEF R_Unlink
  <2>2. CASE ~Smp
    <3>1. t \in Linked
      BY <1>17 DEF R_Unlink
    <3>2. ~damaged' => Linked' = Linked \ {t}
      BY <1>17, <2>2, <3>1, UnlinkProps DEF R_Unlink
    <3> HIDE DEF Linked
    <3>3. /\ pc[t] = "r_unlink" /\ Return(t)
          /\ mutex' = mutex /\ current_len' = current_len /\ mem' = mem
          /\ w_wait' = w_wait /\ async_queue' = async_queue
      BY <1>17, <2>2, UnlinkOnOneCpu
    <3> QED
      BY <3>2, <3>3 DEF Return
  <2> QED
    BY <2>1, <2>2
<1>18. CASE R_Del(t)
  <2>1. t \in Linked
    BY <1>18 DEF R_Del
  <2>2. ~damaged' => Linked' = Linked \ {t}
    BY <1>18, <2>1, UnlinkProps DEF R_Del
  <2> HIDE DEF Linked
  <2> QED
    BY <1>18, <2>2 DEF R_Del, Return
<1>19. CASE Write(t)
  BY <1>19 DEF Write
<1>20. CASE W_Lock(t)
  BY <1>20 DEF W_Lock
<1>21. CASE W_Again(t)
  BY <1>21 DEF W_Again
<1>22. CASE W_Block(t)
  BY <1>22 DEF W_Block
<1>23. CASE W_Sleep(t)
  BY ZenonT(40), <1>23 DEF W_Sleep
<1>24. CASE W_Relock(t)
  BY <1>24 DEF W_Relock
<1>25. CASE W_Copy(t)
  BY <1>25 DEF W_Copy
<1>26. CASE W_Fault(t)
  BY <1>26 DEF W_Fault
<1>27. CASE W_Len(t)
  BY <1>27 DEF W_Len
<1>28. CASE W_Wake(t)
  BY <1>28 DEF W_Wake
<1>29. CASE W_Kill(t)
  BY <1>29 DEF W_Kill
<1>30. CASE W_Unlock(t)
  BY <1>30 DEF W_Unlock
<1>31. CASE W_Unlink(t)
  BY <1>31 DEF W_Unlink, Return
<1>32. CASE Ioctl(t)
  BY <1>32 DEF Ioctl
<1>33. CASE C_Lock(t)
  BY <1>33 DEF C_Lock
<1>34. CASE C_Zero(t)
  BY <1>34 DEF C_Zero
<1>35. CASE C_Unlock(t)
  BY <1>35 DEF C_Unlock, Return
<1>36. CASE Poll(t)
  BY <1>36 DEF Poll
<1>37. CASE P_Lock(t)
  <2>1. t \notin Linked
    BY <1>37 DEF P_Lock
  <2>2. ~damaged' => Linked' = Linked \union {t}
    BY <1>37, <2>1, LinkProps DEF P_Lock
  <2> HIDE DEF Linked
  <2> QED
    BY <1>37, <2>2 DEF P_Lock
<1>38. CASE P_Mask(t)
  BY <1>38 DEF P_Mask
<1>39. CASE P_Wait(t)
  BY <1>39 DEF P_Wait
<1>40. CASE P_Timeout(t)
  BY <1>40 DEF P_Timeout
<1>41. CASE P_Intr(t)
  BY <1>41 DEF P_Intr
<1>42. CASE P_Relock(t)
  BY <1>42 DEF P_Relock
<1>43. CASE P_Remask(t)
  BY <1>43 DEF P_Remask
<1>44. CASE P_Free(t)
  <2>1. t \in Linked
    BY <1>44 DEF P_Free
  <2>2. ~damaged' => Linked' = Linked \ {t}
    BY <1>44, <2>1, UnlinkProps DEF P_Free
  <2> HIDE DEF Linked
  <2> QED
    BY <1>44, <2>2 DEF P_Free, Return
<1>45. CASE P_Free2(t)
  BY <1>45 DEF P_Free2, Return
<1> QED
  BY <1>1, <1>2, <1>3, <1>4, <1>5, <1>6, <1>7, <1>8, <1>9, <1>10, <1>11,
     <1>12, <1>13, <1>14, <1>15, <1>16, <1>17, <1>18, <1>19, <1>20, <1>21,
     <1>22, <1>23, <1>24, <1>25, <1>26, <1>27, <1>28, <1>29, <1>30, <1>31,
     <1>32, <1>33, <1>34, <1>35, <1>36, <1>37, <1>38, <1>39, <1>40, <1>41,
     <1>42, <1>43, <1>44, <1>45 DEF Step, Environment

\* What read and write computed under the mutex still holds when they use it:
\* count against current_len, and the bytes stored behind current_len.
LEMMA AmountsStep ==
  ASSUME Inv, ~damaged, NEW t \in Task, Step(t) \/ Environment(t)
  PROVE  Amounts'
<1> USE ConstantsAssumption DEF Inv, TypeOK, Goto, mutex_lock, mutex_unlock,
      dev, lists, local, MutexHeldInside, Holding, Amounts
<1>1. CASE Open(t)
  BY <1>1 DEF Open
<1>2. CASE Release(t)
  BY <1>2 DEF Release
<1>3. CASE Fasync(t)
  BY <1>3 DEF Fasync
<1>4. CASE Signal(t)
  BY <1>4 DEF Signal
<1>5. CASE Read(t)
  BY <1>5 DEF Read
<1>6. CASE R_Lock(t)
  BY <1>6 DEF R_Lock
<1>7. CASE R_Again(t)
  BY <1>7 DEF R_Again
<1>8. CASE R_Block(t)
  BY <1>8 DEF R_Block
<1>9. CASE R_Sleep(t)
  BY <1>9 DEF R_Sleep
<1>10. CASE R_Relock(t)
  BY <1>10 DEF R_Relock
<1>11. CASE R_Copy(t)
  <2>1. Least(count[t], current_len) <= current_len
    BY DEF Least
  <2> QED
    BY <1>11, <2>1 DEF R_Copy
<1>12. CASE R_Fault(t)
  BY <1>12 DEF R_Fault
<1>13. CASE R_Shift(t)
  BY <1>13 DEF R_Shift
<1>14. CASE R_Len(t)
  BY <1>14 DEF R_Len
<1>15. CASE R_Wake(t)
  BY <1>15 DEF R_Wake
<1>16. CASE R_Unlock(t)
  BY <1>16 DEF R_Unlock
<1>17. CASE R_Unlink(t)
  <2>1. CASE Smp
    BY <1>17, <2>1 DEF R_Unlink
  <2>2. CASE ~Smp
    <3>1. /\ pc[t] = "r_unlink" /\ Return(t)
          /\ mutex' = mutex /\ current_len' = current_len /\ mem' = mem
          /\ w_wait' = w_wait /\ async_queue' = async_queue
      BY <1>17, <2>2, UnlinkOnOneCpu
    <3> QED
      BY <3>1 DEF Return
  <2> QED
    BY <2>1, <2>2
<1>18. CASE R_Del(t)
  BY <1>18 DEF R_Del, Return
<1>19. CASE Write(t)
  BY <1>19 DEF Write
<1>20. CASE W_Lock(t)
  BY <1>20 DEF W_Lock
<1>21. CASE W_Again(t)
  BY <1>21 DEF W_Again
<1>22. CASE W_Block(t)
  BY <1>22 DEF W_Block
<1>23. CASE W_Sleep(t)
  BY <1>23 DEF W_Sleep
<1>24. CASE W_Relock(t)
  BY <1>24 DEF W_Relock
<1>25. CASE W_Copy(t)
  <2> DEFINE n == Least(count[t], Size - current_len)
  <2>1. n \in 0..MaxCount /\ n <= Len(buf[t]) /\ current_len < Size
    BY <1>25 DEF W_Copy, Least
  <2>2. n = Least(Len(buf[t]), Size - current_len)
    BY <1>25 DEF W_Copy
  <2> HIDE DEF n
  <2>3. /\ count' = [count EXCEPT ![t] = n] /\ mem' = CopiedIn(buf[t], n, n)
        /\ n <= Size - current_len
    BY <1>25 DEF W_Copy, n, Least
  <2>4. \A i \in 1..n : mem'[current_len + i - 1] = buf[t][i]
    BY <2>1, <2>3 DEF CopiedIn
  <2> QED
    BY <1>25, <2>1, <2>2, <2>3, <2>4 DEF W_Copy
<1>26. CASE W_Fault(t)
  BY <1>26 DEF W_Fault
<1>27. CASE W_Len(t)
  BY <1>27 DEF W_Len
<1>28. CASE W_Wake(t)
  BY <1>28 DEF W_Wake
<1>29. CASE W_Kill(t)
  BY <1>29 DEF W_Kill
<1>30. CASE W_Unlock(t)
  BY <1>30 DEF W_Unlock
<1>31. CASE W_Unlink(t)
  BY <1>31 DEF W_Unlink, Return
<1>32. CASE Ioctl(t)
  BY <1>32 DEF Ioctl
<1>33. CASE C_Lock(t)
  BY <1>33 DEF C_Lock
<1>34. CASE C_Zero(t)
  BY <1>34 DEF C_Zero
<1>35. CASE C_Unlock(t)
  BY <1>35 DEF C_Unlock, Return
<1>36. CASE Poll(t)
  BY <1>36 DEF Poll
<1>37. CASE P_Lock(t)
  BY <1>37 DEF P_Lock
<1>38. CASE P_Mask(t)
  BY <1>38 DEF P_Mask
<1>39. CASE P_Wait(t)
  BY <1>39 DEF P_Wait
<1>40. CASE P_Timeout(t)
  BY <1>40 DEF P_Timeout
<1>41. CASE P_Intr(t)
  BY <1>41 DEF P_Intr
<1>42. CASE P_Relock(t)
  BY <1>42 DEF P_Relock
<1>43. CASE P_Remask(t)
  BY <1>43 DEF P_Remask
<1>44. CASE P_Free(t)
  BY <1>44 DEF P_Free
<1>45. CASE P_Free2(t)
  BY <1>45 DEF P_Free2, Return
<1> QED
  BY <1>1, <1>2, <1>3, <1>4, <1>5, <1>6, <1>7, <1>8, <1>9, <1>10, <1>11,
     <1>12, <1>13, <1>14, <1>15, <1>16, <1>17, <1>18, <1>19, <1>20, <1>21,
     <1>22, <1>23, <1>24, <1>25, <1>26, <1>27, <1>28, <1>29, <1>30, <1>31,
     <1>32, <1>33, <1>34, <1>35, <1>36, <1>37, <1>38, <1>39, <1>40, <1>41,
     <1>42, <1>43, <1>44, <1>45 DEF Step, Environment

\* An entry is on r_wait once: no step links a task that is linked.
LEMMA EachOnceStep ==
  ASSUME Inv, ~damaged, NEW t \in Task, Step(t) \/ Environment(t)
  PROVE  EachOnce'
<1>1. t \in Linked <=> pc[t] \in RLinked
  BY DEF Inv, Registered
<1>2. CASE R_Lock(t) \/ P_Lock(t)
  <2>1. t \notin Linked /\ Link(t)
    BY <1>1, <1>2 DEF R_Lock, P_Lock, RLinked
  <2> QED
    BY <2>1, LinkProps DEF Inv
<1>3. CASE Unlink(t) /\ t \in Linked
  BY <1>3, UnlinkProps DEF Inv
<1>4. ASSUME r_wait' = r_wait, lost' = lost,
             damaged' = damaged \/ damaged' = TRUE
      PROVE  EachOnce'
  BY <1>4 DEF Inv, EachOnce
<1>5. CASE R_Unlink(t)
  <2>1. CASE Smp
    BY <1>4, <1>5, <2>1 DEF R_Unlink, lists
  <2>2. CASE ~Smp
    <3>1. Unlink(t) /\ t \in Linked
      BY <1>1, <1>5, <2>2, UnlinkOnOneCpu DEF RLinked
    <3> QED
      BY <1>3, <3>1
  <2> QED
    BY <2>1, <2>2
<1>6. CASE R_Del(t)
  BY <1>1, <1>3, <1>6 DEF R_Del, RLinked
<1>7. CASE P_Free(t)
  <2>1. t \in Linked
    BY <1>1, <1>7 DEF P_Free, RLinked
  <2>2. Unlink(t) \/ (damaged' = TRUE /\ r_wait' = r_wait /\ lost' = lost)
    BY <1>7 DEF P_Free
  <2> QED
    BY <1>3, <1>4, <2>1, <2>2
<1>8. CASE \/ Open(t) \/ Release(t) \/ Fasync(t) \/ Signal(t) \/ Read(t)
           \/ Write(t) \/ Ioctl(t) \/ Poll(t) \/ P_Timeout(t)
  BY <1>4, <1>8 DEF Open, Release, Fasync, Signal, Read, Write, Ioctl, Poll,
     P_Timeout, lists
<1>9. CASE \/ R_Again(t) \/ R_Block(t) \/ R_Sleep(t) \/ R_Relock(t)
           \/ R_Copy(t) \/ R_Fault(t) \/ R_Shift(t) \/ R_Len(t) \/ R_Wake(t)
           \/ R_Unlock(t)
  BY <1>4, <1>9 DEF R_Again, R_Block, R_Sleep, R_Relock, R_Copy, R_Fault,
     R_Shift, R_Len, R_Wake, R_Unlock, lists
<1>10. CASE \/ W_Lock(t) \/ W_Again(t) \/ W_Block(t) \/ W_Sleep(t)
            \/ W_Relock(t) \/ W_Copy(t) \/ W_Fault(t) \/ W_Len(t) \/ W_Wake(t)
            \/ W_Kill(t) \/ W_Unlock(t) \/ W_Unlink(t)
  BY <1>4, <1>10 DEF W_Lock, W_Again, W_Block, W_Sleep, W_Relock, W_Copy,
     W_Fault, W_Len, W_Wake, W_Kill, W_Unlock, W_Unlink, lists
<1>11. CASE C_Lock(t) \/ C_Zero(t) \/ C_Unlock(t)
  BY <1>4, <1>11 DEF C_Lock, C_Zero, C_Unlock, lists
<1>12. CASE \/ P_Mask(t) \/ P_Wait(t) \/ P_Intr(t) \/ P_Relock(t)
            \/ P_Remask(t) \/ P_Free2(t)
  BY <1>4, <1>12 DEF P_Mask, P_Wait, P_Intr, P_Relock, P_Remask, P_Free2, lists
<1> QED
  BY <1>2, <1>5, <1>6, <1>7, <1>8, <1>9, <1>10, <1>11, <1>12 DEF Step,
     Environment

\* Every step of the device, of its callers and of the kernel keeps Inv.
THEOREM InvInductive ==
  ASSUME Inv, [Next]_vars
  PROVE  Inv'
<1>1. CASE damaged \/ UNCHANGED vars
  <2>1. UNCHANGED vars
    BY <1>1 DEF Next, Damaged
  <2> QED
    BY <2>1 DEF vars, dev, lists, local, Inv, TypeOK, MutexHeldInside,
       Registered,
                EachOnce, Linked, Amounts
<1>2. CASE ~damaged /\ \E t \in Task : Step(t) \/ Environment(t)
  BY <1>2, TypeStep, MutexStep, RegisteredStep, EachOnceStep, AmountsStep
     DEF Inv
<1> QED
  BY <1>1, <1>2 DEF Next, Damaged

\* Inv holds of every state the device reaches.
THEOREM Invariance == Spec => []Inv
  BY InitInv, InvInductive, PTL DEF Spec

\* The state keeps its types; current_len never exceeds GLOBALFIFO_SIZE nor
\* wraps below 0, for all counts and every interleaving.
THEOREM TypeCorrect == Spec => []TypeOK
  BY Invariance, PTL DEF Inv

\* dev->mutex is owned by t exactly while t is between the mutex_lock and the
\* mutex_unlock of its handler, on the error paths too.
THEOREM MutualExclusion == Spec => []MutexHeldInside
  BY Invariance, PTL DEF Inv

\* No wait entry, a local variable of read, write or select, stays linked when
\* its call has returned.
THEOREM NoEntryOutlivesItsCall == Spec => []NoStaleEntry
<1>1. Inv => NoStaleEntry
  BY DEF Inv, Registered, NoStaleEntry, RLinked, WLinked
<1> QED
  BY <1>1, Invariance, PTL

\* Asleep until there is data: a reader, or a poller that asked for POLLIN.
AwaitsData(t) ==
  /\ ~woken[t]
  /\ pc[t] = "r_sleep" \/ (pc[t] = "p_wait" /\ t \notin OutPollers)

NoMissedData == \A t \in Task : AwaitsData(t) =>
  current_len = 0 \/ WakingReaders \/ t \in lost

\* No step strands a reader or poller: whoever makes current_len positive wakes
\* r_wait before it drops the mutex, and who tests current_len has linked its
\* entry before.
LEMMA NoMissedDataStep ==
  ASSUME Inv, NoMissedData, ~damaged,
         NEW t \in Task, Step(t) \/ Environment(t)
  PROVE  NoMissedData'
<1> USE ConstantsAssumption DEF Inv, TypeOK, Goto, mutex_lock, mutex_unlock,
      dev, lists, local, NoMissedData, WakingReaders, AwaitsData
<1>1. CASE Open(t)
  BY <1>1 DEF Open
<1>2. CASE Release(t)
  BY <1>2 DEF Release
<1>3. CASE Fasync(t)
  BY <1>3 DEF Fasync
<1>4. CASE Signal(t)
  BY <1>4 DEF Signal
<1>5. CASE Read(t)
  BY <1>5 DEF Read
<1>6. CASE R_Lock(t)
  BY <1>6 DEF R_Lock, Link
<1>7. CASE R_Again(t)
  BY <1>7 DEF R_Again
<1>8. CASE R_Block(t)
  BY <1>8 DEF R_Block
<1>9. CASE R_Sleep(t)
  BY <1>9 DEF R_Sleep
<1>10. CASE R_Relock(t)
  BY <1>10 DEF R_Relock
<1>11. CASE R_Copy(t)
  BY <1>11 DEF R_Copy
<1>12. CASE R_Fault(t)
  BY <1>12 DEF R_Fault
<1>13. CASE R_Shift(t)
  BY <1>13 DEF R_Shift
<1>14. CASE R_Len(t)
  <2>1. current_len = 0 => current_len' = 0
    BY <1>14 DEF R_Len, Amounts
  <2> QED
    BY <1>14, <2>1 DEF R_Len
<1>15. CASE R_Wake(t)
  BY <1>15 DEF R_Wake
<1>16. CASE R_Unlock(t)
  BY <1>16 DEF R_Unlock
<1>17. CASE R_Unlink(t)
  <2>1. CASE Smp
    BY <1>17, <2>1 DEF R_Unlink
  <2>2. CASE ~Smp
    <3>1. /\ pc[t] = "r_unlink" /\ Return(t) /\ current_len' = current_len
          /\ lost' = lost
      BY <1>17, <2>2, UnlinkOnOneCpu DEF Unlink
    <3> QED
      BY <3>1 DEF Return
  <2> QED
    BY <2>1, <2>2
<1>18. CASE R_Del(t)
  BY <1>18 DEF R_Del, Return, Unlink
<1>19. CASE Write(t)
  BY <1>19 DEF Write
<1>20. CASE W_Lock(t)
  BY <1>20 DEF W_Lock
<1>21. CASE W_Again(t)
  BY <1>21 DEF W_Again
<1>22. CASE W_Block(t)
  BY <1>22 DEF W_Block
<1>23. CASE W_Sleep(t)
  BY <1>23 DEF W_Sleep
<1>24. CASE W_Relock(t)
  BY <1>24 DEF W_Relock
<1>25. CASE W_Copy(t)
  BY <1>25 DEF W_Copy
<1>26. CASE W_Fault(t)
  BY <1>26 DEF W_Fault
<1>27. CASE W_Len(t)
  BY <1>27 DEF W_Len
<1>28. CASE W_Wake(t)
  BY <1>28 DEF W_Wake, Registered, Linked, RLinked
<1>29. CASE W_Kill(t)
  BY <1>29 DEF W_Kill
<1>30. CASE W_Unlock(t)
  BY <1>30 DEF W_Unlock
<1>31. CASE W_Unlink(t)
  BY <1>31 DEF W_Unlink, Return
<1>32. CASE Ioctl(t)
  BY <1>32 DEF Ioctl
<1>33. CASE C_Lock(t)
  BY <1>33 DEF C_Lock
<1>34. CASE C_Zero(t)
  BY <1>34 DEF C_Zero
<1>35. CASE C_Unlock(t)
  BY <1>35 DEF C_Unlock, Return
<1>36. CASE Poll(t)
  BY <1>36 DEF Poll
<1>37. CASE P_Lock(t)
  BY <1>37 DEF P_Lock, Link
<1>38. CASE P_Mask(t)
  BY <1>38 DEF P_Mask, Ready
<1>39. CASE P_Wait(t)
  BY <1>39 DEF P_Wait
<1>40. CASE P_Timeout(t)
  BY <1>40 DEF P_Timeout
<1>41. CASE P_Intr(t)
  BY <1>41 DEF P_Intr
<1>42. CASE P_Relock(t)
  BY <1>42 DEF P_Relock
<1>43. CASE P_Remask(t)
  BY <1>43 DEF P_Remask, Ready
<1>44. CASE P_Free(t)
  BY <1>44 DEF P_Free, Unlink
<1>45. CASE P_Free2(t)
  BY <1>45 DEF P_Free2, Return
<1> QED
  BY <1>1, <1>2, <1>3, <1>4, <1>5, <1>6, <1>7, <1>8, <1>9, <1>10, <1>11,
     <1>12, <1>13, <1>14, <1>15, <1>16, <1>17, <1>18, <1>19, <1>20, <1>21,
     <1>22, <1>23, <1>24, <1>25, <1>26, <1>27, <1>28, <1>29, <1>30, <1>31,
     <1>32, <1>33, <1>34, <1>35, <1>36, <1>37, <1>38, <1>39, <1>40, <1>41,
     <1>42, <1>43, <1>44, <1>45 DEF Step, Environment

\* The same for writers and pollers for room: a read that makes room wakes
\* w_wait, and FIFO_CLEAR, which does not, is recorded in stranded.
LEMMA NoMissedWriterStep ==
  ASSUME Inv, NoMissedWriter, ~damaged,
         NEW t \in Task, Step(t) \/ Environment(t)
  PROVE  NoMissedWriter'
<1> USE ConstantsAssumption DEF Inv, TypeOK, Goto, mutex_lock, mutex_unlock,
      dev, lists, local, NoMissedWriter, WakingWriters, AwaitsRoom
<1>1. CASE Open(t)
  BY <1>1 DEF Open
<1>2. CASE Release(t)
  BY <1>2 DEF Release
<1>3. CASE Fasync(t)
  BY <1>3 DEF Fasync
<1>4. CASE Signal(t)
  BY <1>4 DEF Signal
<1>5. CASE Read(t)
  BY <1>5 DEF Read
<1>6. CASE R_Lock(t)
  BY <1>6 DEF R_Lock
<1>7. CASE R_Again(t)
  BY <1>7 DEF R_Again
<1>8. CASE R_Block(t)
  BY <1>8 DEF R_Block
<1>9. CASE R_Sleep(t)
  BY <1>9 DEF R_Sleep
<1>10. CASE R_Relock(t)
  BY <1>10 DEF R_Relock
<1>11. CASE R_Copy(t)
  BY <1>11 DEF R_Copy
<1>12. CASE R_Fault(t)
  BY <1>12 DEF R_Fault
<1>13. CASE R_Shift(t)
  BY <1>13 DEF R_Shift
<1>14. CASE R_Len(t)
  BY <1>14 DEF R_Len
<1>15. CASE R_Wake(t)
  BY <1>15 DEF R_Wake, Registered, WLinked
<1>16. CASE R_Unlock(t)
  BY <1>16 DEF R_Unlock
<1>17. CASE R_Unlink(t)
  BY <1>17 DEF R_Unlink, Return
<1>18. CASE R_Del(t)
  BY <1>18 DEF R_Del, Return
<1>19. CASE Write(t)
  BY <1>19 DEF Write
<1>20. CASE W_Lock(t)
  BY <1>20 DEF W_Lock
<1>21. CASE W_Again(t)
  BY <1>21 DEF W_Again
<1>22. CASE W_Block(t)
  BY <1>22 DEF W_Block
<1>23. CASE W_Sleep(t)
  BY <1>23 DEF W_Sleep
<1>24. CASE W_Relock(t)
  BY <1>24 DEF W_Relock
<1>25. CASE W_Copy(t)
  BY <1>25 DEF W_Copy
<1>26. CASE W_Fault(t)
  BY <1>26 DEF W_Fault
<1>27. CASE W_Len(t)
  BY <1>27 DEF W_Len, Amounts
<1>28. CASE W_Wake(t)
  BY <1>28 DEF W_Wake
<1>29. CASE W_Kill(t)
  BY <1>29 DEF W_Kill
<1>30. CASE W_Unlock(t)
  BY <1>30 DEF W_Unlock
<1>31. CASE W_Unlink(t)
  BY <1>31 DEF W_Unlink, Return
<1>32. CASE Ioctl(t)
  BY <1>32 DEF Ioctl
<1>33. CASE C_Lock(t)
  BY <1>33 DEF C_Lock
<1>34. CASE C_Zero(t)
  BY <1>34 DEF C_Zero
<1>35. CASE C_Unlock(t)
  BY <1>35 DEF C_Unlock, Return
<1>36. CASE Poll(t)
  BY <1>36 DEF Poll
<1>37. CASE P_Lock(t)
  BY <1>37 DEF P_Lock
<1>38. CASE P_Mask(t)
  BY <1>38 DEF P_Mask, Ready
<1>39. CASE P_Wait(t)
  BY <1>39 DEF P_Wait
<1>40. CASE P_Timeout(t)
  BY <1>40 DEF P_Timeout
<1>41. CASE P_Intr(t)
  BY <1>41 DEF P_Intr
<1>42. CASE P_Relock(t)
  BY <1>42 DEF P_Relock
<1>43. CASE P_Remask(t)
  BY <1>43 DEF P_Remask, Ready
<1>44. CASE P_Free(t)
  BY <1>44 DEF P_Free
<1>45. CASE P_Free2(t)
  BY <1>45 DEF P_Free2, Return
<1> QED
  BY <1>1, <1>2, <1>3, <1>4, <1>5, <1>6, <1>7, <1>8, <1>9, <1>10, <1>11,
     <1>12, <1>13, <1>14, <1>15, <1>16, <1>17, <1>18, <1>19, <1>20, <1>21,
     <1>22, <1>23, <1>24, <1>25, <1>26, <1>27, <1>28, <1>29, <1>30, <1>31,
     <1>32, <1>33, <1>34, <1>35, <1>36, <1>37, <1>38, <1>39, <1>40, <1>41,
     <1>42, <1>43, <1>44, <1>45 DEF Step, Environment

\* Hence nobody waits on beside data unnoticed.
LEMMA DataWakes == Spec => []NoMissedData
<1>1. Init => NoMissedData
  BY DEF Init, NoMissedData, AwaitsData
<1>2. Inv /\ NoMissedData /\ [Next]_vars => NoMissedData'
  <2> SUFFICES ASSUME Inv, NoMissedData, [Next]_vars PROVE NoMissedData'
    OBVIOUS
  <2>1. CASE UNCHANGED vars
    BY <2>1 DEF vars, dev, lists, local, NoMissedData, AwaitsData,
       WakingReaders
  <2>2. CASE ~damaged /\ \E t \in Task : Step(t) \/ Environment(t)
    BY <2>2, NoMissedDataStep
  <2> QED
    BY <2>1, <2>2 DEF Next, Damaged
<1> QED
  BY <1>1, <1>2, Invariance, PTL DEF Spec

\* A reader sleeps on beside data only while the wake-up is on its way, or
\* after the racing list_del cut its entry off (read, lines 108 to 126, against
\* write, lines 189 to 193).
THEOREM ReadersAreWoken == Spec => []NoMissedReader
<1>1. NoMissedData => NoMissedReader
  BY DEF NoMissedData, NoMissedReader, AwaitsData
<1> QED
  BY <1>1, DataWakes, PTL

\* The same for a poller that asked for data: poll_wait comes before the test
\* of current_len, in one critical section (poll, lines 82 to 96).
THEOREM PollersAreWoken == Spec => []NoMissedPoller
<1>1. NoMissedData => NoMissedPoller
  BY DEF NoMissedData, NoMissedPoller, AwaitsData
<1> QED
  BY <1>1, DataWakes, PTL


\* A writer or poller waits on beside room only while the wake-up is on its
\* way, or after FIFO_CLEAR stranded it (write, lines 161 to 180, against read
\* and ioctl).
THEOREM WritersAreWoken == Spec => []NoMissedWriter
<1>1. Init => NoMissedWriter
  BY DEF Init, NoMissedWriter, AwaitsRoom
<1>2. Inv /\ NoMissedWriter /\ [Next]_vars => NoMissedWriter'
  <2> SUFFICES ASSUME Inv, NoMissedWriter, [Next]_vars PROVE NoMissedWriter'
    OBVIOUS
  <2>1. CASE UNCHANGED vars
    BY <2>1 DEF vars, dev, lists, local, NoMissedWriter, AwaitsRoom,
       WakingWriters
  <2>2. CASE ~damaged /\ \E t \in Task : Step(t) \/ Environment(t)
    BY <2>2, NoMissedWriterStep
  <2> QED
    BY <2>1, <2>2 DEF Next, Damaged
<1> QED
  BY <1>1, <1>2, Invariance, PTL DEF Spec

\* The queue that mem and current_len stand for is a sequence of bytes, also in
\* the middle of a read.
LEMMA ContentsProps ==
  ASSUME Inv
  PROVE  /\ Counted \in 0..current_len /\ InFront \in {0, Counted}
         /\ Contents \in [1..current_len - Counted -> Byte]
         /\ Contents \in Seq(Byte) /\ Len(Contents) = current_len - Counted
<1>1. Counted \in 0..current_len
  BY ConstantsAssumption DEF Inv, TypeOK, Amounts, Counted
<1>2. InFront \in {0, Counted}
  BY DEF InFront, Counted
<1>3. current_len - Counted \in Nat
  BY <1>1 DEF Inv, TypeOK
<1>4. Contents \in [1..current_len - Counted -> Byte]
  BY <1>1, <1>2, ConstantsAssumption DEF Contents, Inv, TypeOK
<1> QED
  BY <1>1, <1>2, <1>3, <1>4, FunctionIsSeq

\* Steps that leave current_len, mem and the bytes taken alone keep the queue.
LEMMA ContentsKept ==
  ASSUME Counted' = Counted, InFront' = InFront,
         current_len' = current_len, mem' = mem
  PROVE  Contents' = Contents
BY DEF Contents

-----------------------------------------------------------------------------
(* The refinement: one call, one outcome *)

\* ret is set once in a call and kept until the return.
LEMMA OutcomesStep ==
  ASSUME Inv, Outcomes, NEW t \in Task, Step(t) \/ Environment(t)
  PROVE  Outcomes'
<1> USE ConstantsAssumption DEF Inv, TypeOK, Goto, dev, lists, local, Outcomes
<1>1. CASE Open(t)
  BY <1>1 DEF Open
<1>2. CASE Release(t)
  BY <1>2 DEF Release
<1>3. CASE Fasync(t)
  BY <1>3 DEF Fasync
<1>4. CASE Signal(t)
  BY <1>4 DEF Signal
<1>5. CASE Read(t)
  BY <1>5 DEF Read
<1>6. CASE R_Lock(t)
  BY <1>6 DEF R_Lock
<1>7. CASE R_Again(t)
  BY <1>7 DEF R_Again
<1>8. CASE R_Block(t)
  BY <1>8 DEF R_Block
<1>9. CASE R_Sleep(t)
  BY <1>9 DEF R_Sleep
<1>10. CASE R_Relock(t)
  BY <1>10 DEF R_Relock
<1>11. CASE R_Copy(t)
  BY <1>11 DEF R_Copy
<1>12. CASE R_Fault(t)
  BY <1>12 DEF R_Fault
<1>13. CASE R_Shift(t)
  BY <1>13 DEF R_Shift
<1>14. CASE R_Len(t)
  BY <1>14 DEF R_Len
<1>15. CASE R_Wake(t)
  BY <1>15 DEF R_Wake
<1>16. CASE R_Unlock(t)
  BY <1>16 DEF R_Unlock
<1>17. CASE R_Unlink(t)
  <2>1. CASE Smp
    BY <1>17, <2>1 DEF R_Unlink
  <2>2. CASE ~Smp
    BY <2>2, <1>17, UnlinkOnOneCpu DEF Return
  <2> QED
    BY <2>1, <2>2
<1>18. CASE R_Del(t)
  BY <1>18 DEF R_Del, Return
<1>19. CASE Write(t)
  BY <1>19 DEF Write
<1>20. CASE W_Lock(t)
  BY <1>20 DEF W_Lock
<1>21. CASE W_Again(t)
  BY <1>21 DEF W_Again
<1>22. CASE W_Block(t)
  BY <1>22 DEF W_Block
<1>23. CASE W_Sleep(t)
  BY <1>23 DEF W_Sleep
<1>24. CASE W_Relock(t)
  BY <1>24 DEF W_Relock
<1>25. CASE W_Copy(t)
  BY <1>25 DEF W_Copy
<1>26. CASE W_Fault(t)
  BY <1>26 DEF W_Fault
<1>27. CASE W_Len(t)
  BY <1>27 DEF W_Len
<1>28. CASE W_Wake(t)
  BY <1>28 DEF W_Wake
<1>29. CASE W_Kill(t)
  BY <1>29 DEF W_Kill
<1>30. CASE W_Unlock(t)
  BY <1>30 DEF W_Unlock
<1>31. CASE W_Unlink(t)
  BY <1>31 DEF W_Unlink, Return
<1>32. CASE Ioctl(t)
  BY <1>32 DEF Ioctl
<1>33. CASE C_Lock(t)
  BY <1>33 DEF C_Lock
<1>34. CASE C_Zero(t)
  BY <1>34 DEF C_Zero
<1>35. CASE C_Unlock(t)
  BY <1>35 DEF C_Unlock, Return
<1>36. CASE Poll(t)
  BY <1>36 DEF Poll
<1>37. CASE P_Lock(t)
  BY <1>37 DEF P_Lock
<1>38. CASE P_Mask(t)
  BY <1>38 DEF P_Mask
<1>39. CASE P_Wait(t)
  BY <1>39 DEF P_Wait
<1>40. CASE P_Timeout(t)
  BY <1>40 DEF P_Timeout
<1>41. CASE P_Intr(t)
  BY <1>41 DEF P_Intr
<1>42. CASE P_Relock(t)
  BY <1>42 DEF P_Relock
<1>43. CASE P_Remask(t)
  BY <1>43 DEF P_Remask
<1>44. CASE P_Free(t)
  BY <1>44 DEF P_Free
<1>45. CASE P_Free2(t)
  BY <1>45 DEF P_Free2, Return
<1> QED
  BY <1>1, <1>2, <1>3, <1>4, <1>5, <1>6, <1>7, <1>8, <1>9, <1>10, <1>11, <1>12,
     <1>13, <1>14, <1>15, <1>16, <1>17, <1>18, <1>19, <1>20, <1>21, <1>22,
     <1>23, <1>24, <1>25, <1>26, <1>27, <1>28, <1>29, <1>30, <1>31, <1>32,
     <1>33, <1>34, <1>35, <1>36, <1>37, <1>38, <1>39, <1>40, <1>41, <1>42,
     <1>43, <1>44, <1>45 DEF Step, Environment

LEMMA OutcomesHold == Spec => []Outcomes
<1>1. Init => Outcomes
  BY DEF Init, Outcomes
<1>2. Inv /\ Outcomes /\ [Next]_vars => Outcomes'
  <2> SUFFICES ASSUME Inv, Outcomes, [Next]_vars PROVE Outcomes'
    OBVIOUS
  <2>1. CASE UNCHANGED vars
    BY <2>1 DEF vars, dev, lists, local, Outcomes
  <2>2. CASE \E t \in Task : Step(t) \/ Environment(t)
    BY <2>2, OutcomesStep
  <2> QED
    BY <2>1, <2>2 DEF Next, Damaged
<1> QED
  BY <1>1, <1>2, Invariance, PTL DEF Spec

\* A step of t leaves the calls of the others alone.
OthersKept(t) == \A u \in Task \ {t} :
  /\ pc'[u] = pc[u] /\ count'[u] = count[u]
  /\ buf'[u] = buf[u] /\ ret'[u] = ret[u]

LEMMA OthersStep ==
  ASSUME Inv, NEW t \in Task, Step(t) \/ Environment(t)
  PROVE  OthersKept(t)
<1> USE DEF Inv, TypeOK, Goto, dev, lists, local, OthersKept
<1>1. CASE Open(t)
  BY <1>1 DEF Open
<1>2. CASE Release(t)
  BY <1>2 DEF Release
<1>3. CASE Fasync(t)
  BY <1>3 DEF Fasync
<1>4. CASE Signal(t)
  BY <1>4 DEF Signal
<1>5. CASE Read(t)
  BY <1>5 DEF Read
<1>6. CASE R_Lock(t)
  BY <1>6 DEF R_Lock
<1>7. CASE R_Again(t)
  BY <1>7 DEF R_Again
<1>8. CASE R_Block(t)
  BY <1>8 DEF R_Block
<1>9. CASE R_Sleep(t)
  BY <1>9 DEF R_Sleep
<1>10. CASE R_Relock(t)
  BY <1>10 DEF R_Relock
<1>11. CASE R_Copy(t)
  BY <1>11 DEF R_Copy
<1>12. CASE R_Fault(t)
  BY <1>12 DEF R_Fault
<1>13. CASE R_Shift(t)
  BY <1>13 DEF R_Shift
<1>14. CASE R_Len(t)
  BY <1>14 DEF R_Len
<1>15. CASE R_Wake(t)
  BY <1>15 DEF R_Wake
<1>16. CASE R_Unlock(t)
  BY <1>16 DEF R_Unlock
<1>17. CASE R_Unlink(t)
  <2>1. CASE Smp
    BY <1>17, <2>1 DEF R_Unlink
  <2>2. CASE ~Smp
    BY <2>2, <1>17, UnlinkOnOneCpu DEF Return
  <2> QED
    BY <2>1, <2>2
<1>18. CASE R_Del(t)
  BY <1>18 DEF R_Del, Return
<1>19. CASE Write(t)
  BY <1>19 DEF Write
<1>20. CASE W_Lock(t)
  BY <1>20 DEF W_Lock
<1>21. CASE W_Again(t)
  BY <1>21 DEF W_Again
<1>22. CASE W_Block(t)
  BY <1>22 DEF W_Block
<1>23. CASE W_Sleep(t)
  BY <1>23 DEF W_Sleep
<1>24. CASE W_Relock(t)
  BY <1>24 DEF W_Relock
<1>25. CASE W_Copy(t)
  BY <1>25 DEF W_Copy
<1>26. CASE W_Fault(t)
  BY <1>26 DEF W_Fault
<1>27. CASE W_Len(t)
  BY <1>27 DEF W_Len
<1>28. CASE W_Wake(t)
  BY <1>28 DEF W_Wake
<1>29. CASE W_Kill(t)
  BY <1>29 DEF W_Kill
<1>30. CASE W_Unlock(t)
  BY <1>30 DEF W_Unlock
<1>31. CASE W_Unlink(t)
  BY <1>31 DEF W_Unlink, Return
<1>32. CASE Ioctl(t)
  BY <1>32 DEF Ioctl
<1>33. CASE C_Lock(t)
  BY <1>33 DEF C_Lock
<1>34. CASE C_Zero(t)
  BY <1>34 DEF C_Zero
<1>35. CASE C_Unlock(t)
  BY <1>35 DEF C_Unlock, Return
<1>36. CASE Poll(t)
  BY <1>36 DEF Poll
<1>37. CASE P_Lock(t)
  BY <1>37 DEF P_Lock
<1>38. CASE P_Mask(t)
  BY <1>38 DEF P_Mask
<1>39. CASE P_Wait(t)
  BY <1>39 DEF P_Wait
<1>40. CASE P_Timeout(t)
  BY <1>40 DEF P_Timeout
<1>41. CASE P_Intr(t)
  BY <1>41 DEF P_Intr
<1>42. CASE P_Relock(t)
  BY <1>42 DEF P_Relock
<1>43. CASE P_Remask(t)
  BY <1>43 DEF P_Remask
<1>44. CASE P_Free(t)
  BY <1>44 DEF P_Free
<1>45. CASE P_Free2(t)
  BY <1>45 DEF P_Free2, Return
<1> QED
  BY <1>1, <1>2, <1>3, <1>4, <1>5, <1>6, <1>7, <1>8, <1>9, <1>10, <1>11, <1>12,
     <1>13, <1>14, <1>15, <1>16, <1>17, <1>18, <1>19, <1>20, <1>21, <1>22,
     <1>23, <1>24, <1>25, <1>26, <1>27, <1>28, <1>29, <1>30, <1>31, <1>32,
     <1>33, <1>34, <1>35, <1>36, <1>37, <1>38, <1>39, <1>40, <1>41, <1>42,
     <1>43, <1>44, <1>45 DEF Step, Environment

\* What ByteQueue sees of the calls changes at most at t.
LEMMA SeenAt ==
  ASSUME NEW t \in Task, OthersKept(t)
  PROVE  /\ Op' = [Op EXCEPT ![t] = Op'[t]]
         /\ Amount' = [Amount EXCEPT ![t] = Amount'[t]]
         /\ Buffer' = [Buffer EXCEPT ![t] = Buffer'[t]]
         /\ Outcome' = [Outcome EXCEPT ![t] = Outcome'[t]]
<1>1. \A u \in Task \ {t} : Op'[u] = Op[u]
  BY DEF OthersKept, Op
<1>2. \A u \in Task \ {t} : /\ Outcome'[u] = Outcome[u]
                            /\ Amount'[u] = Amount[u]
                            /\ Buffer'[u] = Buffer[u]
  BY <1>1 DEF OthersKept, Outcome, Amount, Buffer
<1>3. Op = [u \in Task |-> Op[u]] /\ Op' = [u \in Task |-> Op'[u]]
  BY DEF Op
<1>4. /\ Amount = [u \in Task |-> Amount[u]]
      /\ Amount' = [u \in Task |-> Amount'[u]]
  BY DEF Amount
<1>5. /\ Buffer = [u \in Task |-> Buffer[u]]
      /\ Buffer' = [u \in Task |-> Buffer'[u]]
  BY DEF Buffer
<1>6. /\ Outcome = [u \in Task |-> Outcome[u]]
      /\ Outcome' = [u \in Task |-> Outcome'[u]]
  BY DEF Outcome
<1> QED
  BY <1>1, <1>2, <1>3, <1>4, <1>5, <1>6

\* What ByteQueue sees of a task, from its label.
Seen == \A t \in Task :
  /\ pc[t] \in ReadPcs => Op[t] = "read"
  /\ pc[t] \in WritePcs => Op[t] = "write"
  /\ pc[t] \in ClearPcs => Op[t] = "clear"
  /\ pc[t] \in {"closed", "idle"} \union PollPcs => Op[t] = "none"
  /\ Op[t] = "none" => Outcome[t] = "none"
  /\ Op[t] # "none" => Outcome[t] = IF pc[t] \in Settled THEN "ok" ELSE ret[t]
  /\ Op[t] \in {"read", "write"} => Buffer[t] = buf[t]
  /\ Op[t] \in {"none", "clear"} => Buffer[t] = <<>> /\ Amount[t] = 0
  /\ pc[t] = "w_len" => Amount[t] = Len(buf[t])
  /\ Op[t] \in {"read", "write"} /\ pc[t] # "w_len" => Amount[t] = count[t]

LEMMA SeenNow == Seen
BY DEF Seen, Op, Outcome, Amount, Buffer, ReadPcs, WritePcs, ClearPcs, PollPcs

LEMMA SeenNext == Seen'
BY SeenNow, PTL

\* Steps that only lock, sleep, wake, link, copy or shift show ByteQueue
\* nothing of the call they belong to.
LEMMA UnseenStep ==
  ASSUME Inv, Outcomes, NEW t \in Task,
         \/ Open(t) \/ Release(t) \/ Fasync(t) \/ Signal(t) \/ R_Lock(t)
         \/ R_Block(t) \/ R_Relock(t) \/ R_Shift(t) \/ R_Len(t) \/ R_Wake(t)
         \/ R_Unlock(t) \/ W_Lock(t) \/ W_Block(t) \/ W_Relock(t)
         \/ W_Copy(t) \/ W_Wake(t) \/ W_Kill(t) \/ W_Unlock(t) \/ C_Lock(t)
         \/ Poll(t) \/ P_Lock(t) \/ P_Mask(t) \/ P_Wait(t) \/ P_Timeout(t)
         \/ P_Intr(t) \/ P_Relock(t) \/ P_Remask(t) \/ P_Free(t)
         \/ P_Free2(t)
  PROVE  /\ Op'[t] = Op[t] /\ Outcome'[t] = Outcome[t]
         /\ Amount'[t] = Amount[t] /\ Buffer'[t] = Buffer[t]
<1> USE DEF Inv, TypeOK, Outcomes, Amounts, Goto, dev, lists, local,
      ReadPcs, WritePcs, ClearPcs, PollPcs, Settled,
      Op, Outcome, Amount, Buffer
<1>1. CASE Open(t)
  BY <1>1 DEF Open
<1>2. CASE Release(t)
  BY <1>2 DEF Release
<1>3. CASE Fasync(t)
  BY <1>3 DEF Fasync
<1>4. CASE Signal(t)
  BY <1>4 DEF Signal
<1>5. CASE R_Lock(t)
  BY <1>5 DEF R_Lock
<1>6. CASE R_Block(t)
  BY <1>6 DEF R_Block
<1>7. CASE R_Relock(t)
  BY <1>7 DEF R_Relock
<1>8. CASE R_Shift(t)
  BY <1>8 DEF R_Shift
<1>9. CASE R_Len(t)
  BY <1>9 DEF R_Len
<1>10. CASE R_Wake(t)
  BY <1>10 DEF R_Wake
<1>11. CASE R_Unlock(t)
  BY <1>11 DEF R_Unlock
<1>12. CASE W_Lock(t)
  BY <1>12 DEF W_Lock
<1>13. CASE W_Block(t)
  BY <1>13 DEF W_Block
<1>14. CASE W_Relock(t)
  BY <1>14 DEF W_Relock
<1>15. CASE W_Copy(t)
  BY <1>15 DEF W_Copy
<1>16. CASE W_Wake(t)
  BY <1>16 DEF W_Wake
<1>17. CASE W_Kill(t)
  BY <1>17 DEF W_Kill
<1>18. CASE W_Unlock(t)
  BY <1>18 DEF W_Unlock
<1>19. CASE C_Lock(t)
  BY <1>19 DEF C_Lock
<1>20. CASE Poll(t)
  BY <1>20 DEF Poll
<1>21. CASE P_Lock(t)
  BY <1>21 DEF P_Lock
<1>22. CASE P_Mask(t)
  BY <1>22 DEF P_Mask
<1>23. CASE P_Wait(t)
  BY <1>23 DEF P_Wait
<1>24. CASE P_Timeout(t)
  BY <1>24 DEF P_Timeout
<1>25. CASE P_Intr(t)
  BY <1>25 DEF P_Intr
<1>26. CASE P_Relock(t)
  BY <1>26 DEF P_Relock
<1>27. CASE P_Remask(t)
  BY <1>27 DEF P_Remask
<1>28. CASE P_Free(t)
  BY <1>28 DEF P_Free
<1>29. CASE P_Free2(t)
  BY <1>29 DEF P_Free2, Return
<1> QED
  BY <1>1, <1>2, <1>3, <1>4, <1>5, <1>6, <1>7, <1>8, <1>9, <1>10, <1>11, <1>12,
     <1>13, <1>14, <1>15, <1>16, <1>17, <1>18, <1>19, <1>20, <1>21, <1>22,
     <1>23, <1>24, <1>25, <1>26, <1>27, <1>28, <1>29

\* Steps that leave mem, current_len and the bytes a read has taken alone.
LEMMA ContentsStep ==
  ASSUME Inv, NEW t \in Task,
         \/ Open(t) \/ Release(t) \/ Fasync(t) \/ Signal(t) \/ Read(t)
         \/ R_Lock(t) \/ R_Again(t) \/ R_Block(t) \/ R_Sleep(t)
         \/ R_Relock(t) \/ R_Fault(t) \/ R_Wake(t) \/ R_Unlock(t)
         \/ R_Unlink(t) \/ R_Del(t) \/ Write(t) \/ W_Lock(t) \/ W_Again(t)
         \/ W_Block(t) \/ W_Sleep(t) \/ W_Relock(t) \/ W_Wake(t) \/ W_Kill(t)
         \/ W_Unlock(t) \/ W_Unlink(t) \/ Ioctl(t) \/ C_Lock(t)
         \/ C_Unlock(t) \/ Poll(t) \/ P_Lock(t) \/ P_Mask(t) \/ P_Wait(t)
         \/ P_Timeout(t) \/ P_Intr(t) \/ P_Relock(t) \/ P_Remask(t)
         \/ P_Free(t) \/ P_Free2(t)
  PROVE  Contents' = Contents
<1> USE ConstantsAssumption DEF Inv, TypeOK, MutexHeldInside, Holding,
      Counted, InFront,
        Goto, mutex_lock, mutex_unlock, dev, lists, local, Return
<1>0. ASSUME Counted' = Counted, InFront' = InFront,
             current_len' = current_len, mem' = mem
      PROVE  Contents' = Contents
  BY <1>0, ContentsKept
<1>1. CASE Open(t)
  BY <1>0, <1>1 DEF Open
<1>2. CASE Release(t)
  BY <1>0, <1>2 DEF Release
<1>3. CASE Fasync(t)
  BY <1>0, <1>3 DEF Fasync
<1>4. CASE Signal(t)
  BY <1>0, <1>4 DEF Signal
<1>5. CASE Read(t)
  BY <1>0, <1>5 DEF Read
<1>6. CASE R_Lock(t)
  BY <1>0, <1>6 DEF R_Lock
<1>7. CASE R_Again(t)
  BY <1>0, <1>7 DEF R_Again
<1>8. CASE R_Block(t)
  BY <1>0, <1>8 DEF R_Block
<1>9. CASE R_Sleep(t)
  BY <1>0, <1>9 DEF R_Sleep
<1>10. CASE R_Relock(t)
  BY <1>0, <1>10 DEF R_Relock
<1>11. CASE R_Fault(t)
  BY <1>0, <1>11 DEF R_Fault
<1>12. CASE R_Wake(t)
  BY <1>0, <1>12 DEF R_Wake
<1>13. CASE R_Unlock(t)
  BY <1>0, <1>13 DEF R_Unlock
<1>14. CASE R_Unlink(t)
  <2>1. CASE Smp
    BY <1>0, <1>14, <2>1 DEF R_Unlink
  <2>2. CASE ~Smp
    <3>1. /\ pc[t] = "r_unlink" /\ Return(t)
          /\ mutex' = mutex /\ current_len' = current_len /\ mem' = mem
      BY <1>14, <2>2, UnlinkOnOneCpu
    <3> QED
      BY <1>0, <3>1
  <2> QED
    BY <2>1, <2>2
<1>15. CASE R_Del(t)
  BY <1>0, <1>15 DEF R_Del
<1>16. CASE Write(t)
  BY <1>0, <1>16 DEF Write
<1>17. CASE W_Lock(t)
  BY <1>0, <1>17 DEF W_Lock
<1>18. CASE W_Again(t)
  BY <1>0, <1>18 DEF W_Again
<1>19. CASE W_Block(t)
  BY <1>0, <1>19 DEF W_Block
<1>20. CASE W_Sleep(t)
  BY <1>0, <1>20 DEF W_Sleep
<1>21. CASE W_Relock(t)
  BY <1>0, <1>21 DEF W_Relock
<1>22. CASE W_Wake(t)
  BY <1>0, <1>22 DEF W_Wake
<1>23. CASE W_Kill(t)
  BY <1>0, <1>23 DEF W_Kill
<1>24. CASE W_Unlock(t)
  BY <1>0, <1>24 DEF W_Unlock
<1>25. CASE W_Unlink(t)
  BY <1>0, <1>25 DEF W_Unlink
<1>26. CASE Ioctl(t)
  BY <1>0, <1>26 DEF Ioctl
<1>27. CASE C_Lock(t)
  BY <1>0, <1>27 DEF C_Lock
<1>28. CASE C_Unlock(t)
  BY <1>0, <1>28 DEF C_Unlock
<1>29. CASE Poll(t)
  BY <1>0, <1>29 DEF Poll
<1>30. CASE P_Lock(t)
  BY <1>0, <1>30 DEF P_Lock
<1>31. CASE P_Mask(t)
  BY <1>0, <1>31 DEF P_Mask
<1>32. CASE P_Wait(t)
  BY <1>0, <1>32 DEF P_Wait
<1>33. CASE P_Timeout(t)
  BY <1>0, <1>33 DEF P_Timeout
<1>34. CASE P_Intr(t)
  BY <1>0, <1>34 DEF P_Intr
<1>35. CASE P_Relock(t)
  BY <1>0, <1>35 DEF P_Relock
<1>36. CASE P_Remask(t)
  BY <1>0, <1>36 DEF P_Remask
<1>37. CASE P_Free(t)
  BY <1>0, <1>37 DEF P_Free
<1>38. CASE P_Free2(t)
  BY <1>0, <1>38 DEF P_Free2
<1> QED
  BY <1>1, <1>2, <1>3, <1>4, <1>5, <1>6, <1>7, <1>8, <1>9, <1>10, <1>11, <1>12,
     <1>13, <1>14, <1>15, <1>16, <1>17, <1>18, <1>19, <1>20, <1>21, <1>22,
     <1>23, <1>24, <1>25, <1>26, <1>27, <1>28, <1>29, <1>30, <1>31, <1>32,
     <1>33, <1>34, <1>35, <1>36, <1>37, <1>38

\* Moving the rest to the front (line 135) does not change the queue.
LEMMA ShiftStep ==
  ASSUME Inv, NEW t \in Task, R_Shift(t)
  PROVE  Contents' = Contents
<1>1. mutex = t /\ pc[t] = "r_shift" /\ count[t] \in 0..current_len
  BY ConstantsAssumption DEF R_Shift, Inv, TypeOK, MutexHeldInside, Holding,
     Amounts
<1>2. Counted = count[t] /\ InFront = count[t]
  BY <1>1 DEF Counted, InFront
<1>3. Counted' = count[t] /\ InFront' = 0
  BY <1>1 DEF R_Shift, local, Goto, Inv, TypeOK, Counted, InFront
<1>4. \A i \in 1..current_len - count[t] : mem'[i-1] = mem[i-1+count[t]]
  BY <1>1, ConstantsAssumption DEF R_Shift, Inv, TypeOK
<1>5. current_len' = current_len
  BY DEF R_Shift, local
<1>6. Contents = [i \in 1..current_len - count[t] |-> mem[i-1+count[t]]]
  BY <1>2 DEF Contents
<1>7. Contents' = [i \in 1..current_len - count[t] |-> mem'[i-1]]
  BY <1>1, <1>3, <1>5 DEF Contents, Inv, TypeOK
<1> QED
  BY <1>4, <1>6, <1>7 

\* Shortening current_len (line 136) does not change the queue: the bytes were
\* taken already.
LEMMA LenStep ==
  ASSUME Inv, NEW t \in Task, R_Len(t)
  PROVE  Contents' = Contents
<1>1. mutex = t /\ pc[t] = "r_len" /\ count[t] \in 0..current_len
  BY ConstantsAssumption DEF R_Len, Inv, TypeOK, MutexHeldInside, Holding,
     Amounts
<1>2. Counted = count[t] /\ InFront = 0
  BY <1>1 DEF Counted, InFront
<1>3. Counted' = 0 /\ InFront' = 0
  BY <1>1 DEF R_Len, Goto, Inv, TypeOK, Counted, InFront
<1>4. /\ current_len' = current_len - count[t] /\ mem' = mem
      /\ current_len \in Nat
  BY DEF R_Len, Inv, TypeOK
<1> QED
  BY <1>1, <1>2, <1>3, <1>4 DEF Contents

\* copy_from_user (line 185) writes only behind the queue, if it fails too.
LEMMA CopyInStep ==
  ASSUME Inv, NEW t \in Task, W_Copy(t) \/ W_Fault(t)
  PROVE  Contents' = Contents
<1>1. mutex = t /\ pc[t] = "w_test" /\ current_len \in 0..Size
  BY DEF W_Copy, W_Fault, Inv, TypeOK, MutexHeldInside, Holding
<1>2. Counted = 0 /\ InFront = 0 /\ Counted' = 0 /\ InFront' = 0
  BY <1>1 DEF W_Copy, W_Fault, Goto, Inv, TypeOK, Counted, InFront
<1>3. PICK s, k, n : /\ mem' = CopiedIn(s, k, n)
                     /\ k \in Int /\ n \in Int /\ k >= 0
  <2>1. Least(count[t], Size - current_len) \in Nat
    BY ConstantsAssumption DEF Inv, TypeOK, Least
  <2> QED
    BY <2>1 DEF W_Copy, W_Fault
<1>4. \A i \in 1..current_len : mem'[i-1] = mem[i-1]
  BY <1>1, <1>3, ConstantsAssumption DEF CopiedIn
<1>5. current_len' = current_len
  BY DEF W_Copy, W_Fault
<1> QED
  BY <1>1, <1>2, <1>4, <1>5 DEF Contents

\* copy_to_user (line 131) delivers the oldest bytes, and the rest is the queue.
LEMMA ReadTakes ==
  ASSUME Inv, NEW t \in Task, R_Copy(t)
  PROVE  LET n == Queue!Least(count[t], Len(Contents)) IN
         /\ Contents # <<>>
         /\ buf'[t] = SubSeq(Contents, 1, n)
         /\ Contents' = SubSeq(Contents, n + 1, Len(Contents))
         /\ count'[t] = n
<1> DEFINE n == Least(count[t], current_len)
<1>1. mutex = t /\ pc[t] = "r_test" /\ buf[t] = <<>> /\ current_len # 0
  BY DEF R_Copy, Inv, MutexHeldInside, Holding, Amounts
<1>2. Counted = 0 /\ InFront = 0
  BY <1>1 DEF Counted, InFront
<1>3. n \in 0..current_len /\ count[t] \in 0..MaxCount /\ current_len \in Nat
  BY ConstantsAssumption DEF Inv, TypeOK, Least
<1>4. /\ buf' = [buf EXCEPT ![t] = [i \in 1..n |-> mem[i-1]]]
      /\ count'[t] = n /\ pc'[t] = "r_shift" /\ mutex' = t
      /\ current_len' = current_len /\ mem' = mem
  BY <1>1 DEF R_Copy, Inv, TypeOK, Goto, dev
<1>5. Counted' = n /\ InFront' = n
  BY <1>4 DEF Counted, InFront
<1>6. Contents = [i \in 1..current_len |-> mem[i-1]]
  BY <1>2, <1>3 DEF Contents
<1>7. Contents' = [i \in 1..current_len - n |-> mem[i-1+n]]
  BY <1>4, <1>5 DEF Contents
<1>8. Contents \in Seq(Byte) /\ Len(Contents) = current_len
  BY <1>2, <1>3, ContentsProps
<1>9. n = Queue!Least(count[t], Len(Contents))
  BY <1>8 DEF Least, Queue!Least
<1> HIDE DEF n
<1>10. [i \in 1..n |-> mem[i-1]] = SubSeq(Contents, 1, n)
  BY <1>3, <1>6, <1>8
<1>11. Contents' = SubSeq(Contents, n + 1, Len(Contents))
  BY <1>3, <1>6, <1>7, <1>8
<1>12. Contents # <<>>
  BY <1>1, <1>8, EmptySeq
<1> QED
  BY <1>1, <1>4, <1>9, <1>10, <1>11, <1>12 DEF Inv, TypeOK

\* Adding count to current_len (line 189) appends what fits of the buffer.
LEMMA WriteAppends ==
  ASSUME Inv, NEW t \in Task, W_Len(t)
  PROVE  LET n == Queue!Least(Len(buf[t]), Size - Len(Contents)) IN
         /\ Len(Contents) < Size
         /\ Contents' = Contents \o SubSeq(buf[t], 1, n)
         /\ count[t] = n
<1> DEFINE n == count[t]
<1>1. mutex = t /\ pc[t] = "w_len"
  BY DEF W_Len, Inv, MutexHeldInside, Holding
<1>2. /\ current_len < Size /\ n = Least(Len(buf[t]), Size - current_len)
      /\ \A i \in 1..n : mem[current_len + i - 1] = buf[t][i]
  BY <1>1 DEF Inv, Amounts
<1>3. /\ current_len \in Nat /\ n \in Nat
      /\ buf[t] \in Seq(Byte) /\ Len(buf[t]) \in Nat
  BY LenProperties, ConstantsAssumption DEF Inv, TypeOK
<1>4. n <= Len(buf[t])
  BY <1>2, <1>3, ConstantsAssumption DEF Least
<1>5. Counted = 0 /\ InFront = 0 /\ Counted' = 0 /\ InFront' = 0
  BY <1>1 DEF W_Len, Goto, Inv, TypeOK, Counted, InFront
<1>6. current_len' = current_len + n /\ mem' = mem /\ buf' = buf
  BY DEF W_Len, local
<1>7. Contents = [i \in 1..current_len |-> mem[i-1]]
  BY <1>3, <1>5 DEF Contents
<1>8. Contents' = [i \in 1..current_len + n |-> mem[i-1]]
  BY <1>3, <1>5, <1>6 DEF Contents
<1>9. Contents \in Seq(Byte) /\ Len(Contents) = current_len
  BY <1>3, <1>5, ContentsProps
<1>10. n = Queue!Least(Len(buf[t]), Size - Len(Contents))
  BY <1>2, <1>9 DEF Least, Queue!Least
<1> HIDE DEF n
<1> DEFINE s == SubSeq(buf[t], 1, n)
<1>11. s \in Seq(Byte) /\ Len(s) = n /\ \A i \in 1..n : s[i] = buf[t][i]
  <2>1. \A i \in 1..n : buf[t][i] \in Byte
    BY <1>3, <1>4, ElementOfSeq
  <2> QED
    BY <1>3, <2>1, SubSeqProperties
<1> HIDE DEF s
<1>12. /\ Contents \o s \in Seq(Byte) /\ Len(Contents \o s) = current_len + n
       /\ \A i \in 1..current_len + n :
            (Contents \o s)[i] = IF i <= current_len THEN Contents[i]
                                  ELSE s[i - current_len]
  <2>1. /\ Contents \o s \in Seq(Byte)
        /\ Len(Contents \o s) = Len(Contents) + Len(s)
        /\ \A i \in 1..Len(Contents) + Len(s) :
             (Contents \o s)[i] = IF i <= Len(Contents) THEN Contents[i]
                                  ELSE s[i - Len(Contents)]
    BY <1>9, <1>11, ConcatProperties
  <2> QED
    BY <1>9, <1>11, <2>1
<1>13. \A i \in 1..current_len + n : (Contents \o s)[i] = mem[i-1]
  <2> SUFFICES ASSUME NEW i \in 1..current_len + n
               PROVE  (Contents \o s)[i] = mem[i-1]
    OBVIOUS
  <2>1. CASE i <= current_len
    BY <1>3, <1>7, <1>12, <2>1
  <2>2. CASE i > current_len
    <3>1. i - current_len \in 1..n
      BY <1>3, <2>2
    <3>2. mem[current_len + (i - current_len) - 1] = s[i - current_len]
      BY <1>2, <1>11, <3>1 DEF n
    <3>3. current_len + (i - current_len) - 1 = i - 1
      BY <1>3
    <3> QED
      BY <1>3, <1>12, <2>2, <3>2, <3>3
  <2>3. i <= current_len \/ i > current_len
    BY <1>3
  <2> QED
    BY <2>1, <2>2, <2>3
<1>14. Contents' = Contents \o s
  <2>1. Contents' \in Seq(Byte) /\ Len(Contents') = current_len + n
    <3>1. \A i \in 1..current_len + n : mem[i-1] \in Byte
      BY <1>9, <1>11, <1>12, <1>13, ElementOfSeq
    <3>2. Contents' \in [1..current_len + n -> Byte]
      BY <1>8, <3>1
    <3> QED
      BY <1>3, <3>2, FunctionIsSeq
  <2>2. \A i \in 1..Len(Contents') : Contents'[i] = (Contents \o s)[i]
    BY <1>8, <1>13, <2>1
  <2> QED
    BY <1>12, <2>1, <2>2, SeqEqual
<1> QED
  BY <1>2, <1>9, <1>10, <1>14 DEF s, n

\* A value put back where it was changes nothing.
LEMMA SeenKept ==
  /\ \A t \in Task : Op = [Op EXCEPT ![t] = Op[t]]
  /\ \A t \in Task : Amount = [Amount EXCEPT ![t] = Amount[t]]
  /\ \A t \in Task : Buffer = [Buffer EXCEPT ![t] = Buffer[t]]
  /\ \A t \in Task : Outcome = [Outcome EXCEPT ![t] = Outcome[t]]
BY DEF Op, Amount, Buffer, Outcome

\* A call begins.
LEMMA BeginRefines ==
  ASSUME Inv, Outcomes, NEW t \in Task, Read(t) \/ Write(t) \/ Ioctl(t)
  PROVE  Queue!Read(t) \/ Queue!Write(t) \/ Queue!Ioctl(t)
<1>1. Contents' = Contents /\ OthersKept(t)
  BY ContentsStep, OthersStep DEF Environment
<1>2. /\ Op' = [Op EXCEPT ![t] = Op'[t]]
      /\ Amount' = [Amount EXCEPT ![t] = Amount'[t]]
      /\ Buffer' = [Buffer EXCEPT ![t] = Buffer'[t]]
      /\ Outcome' = [Outcome EXCEPT ![t] = Outcome'[t]]
  BY <1>1, SeenAt
<1>3. pc[t] = "idle" /\ buf[t] = <<>> /\ ret[t] = "none" /\ ret' = ret
  BY DEF Read, Write, Ioctl, local, Inv, Amounts, Outcomes
<1>4. /\ Op[t] = "none" /\ Outcome[t] = "none"
      /\ Amount[t] = 0 /\ Buffer[t] = <<>>
  BY <1>3, SeenNow DEF Seen
<1>5. CASE Read(t)
  <2>1. PICK k \in 0..MaxCount : /\ count'[t] = k /\ pc'[t] = "r_lock"
                                 /\ buf'[t] = <<>>
    BY <1>3, <1>5 DEF Read, Goto, Inv, TypeOK
  <2>2. /\ Op'[t] = "read" /\ Outcome'[t] = "none"
        /\ Amount'[t] = k /\ Buffer'[t] = <<>>
    BY <1>3, <2>1, SeenNext DEF Seen, ReadPcs, Settled
  <2>3. Buffer' = Buffer /\ Outcome' = Outcome
    BY <1>2, <1>4, <2>2, SeenKept
  <2> QED
    BY <1>1, <1>2, <1>4, <2>2, <2>3 DEF Queue!Read
<1>6. CASE Write(t)
  <2>1. PICK s \in Bytes : /\ count'[t] = Len(s) /\ pc'[t] = "w_lock"
                           /\ buf'[t] = s
    BY <1>6 DEF Write, Goto, Inv, TypeOK
  <2>2. /\ Op'[t] = "write" /\ Outcome'[t] = "none"
        /\ Amount'[t] = Len(s) /\ Buffer'[t] = s
    BY <1>3, <2>1, SeenNext DEF Seen, WritePcs, Settled
  <2>3. Outcome' = Outcome
    BY <1>2, <1>4, <2>2, SeenKept
  <2>4. s \in Queue!Buffers
    BY DEF Bytes, Queue!Buffers
  <2> QED
    BY <1>1, <1>2, <1>4, <2>2, <2>3, <2>4 DEF Queue!Write
<1>7. CASE Ioctl(t)
  <2>1. pc'[t] = "c_lock"
    BY <1>7 DEF Ioctl, Goto, Inv, TypeOK
  <2>2. /\ Op'[t] = "clear" /\ Outcome'[t] = "none"
        /\ Amount'[t] = 0 /\ Buffer'[t] = <<>>
    BY <1>3, <2>1, SeenNext DEF Seen, ClearPcs, Settled
  <2>3. Amount' = Amount /\ Buffer' = Buffer /\ Outcome' = Outcome
    BY <1>2, <1>4, <2>2, SeenKept
  <2> QED
    BY <1>1, <1>2, <1>4, <2>2, <2>3 DEF Queue!Ioctl
<1> QED
  BY <1>5, <1>6, <1>7

\* copy_to_user (line 131) is the moment a read takes effect, as Get.
LEMMA ReadRefines ==
  ASSUME Inv, Outcomes, NEW t \in Task, R_Copy(t)
  PROVE  Queue!Get(t)
<1>1. OthersKept(t)
  BY OthersStep DEF Step
<1>2. /\ Op' = [Op EXCEPT ![t] = Op'[t]]
      /\ Amount' = [Amount EXCEPT ![t] = Amount'[t]]
      /\ Buffer' = [Buffer EXCEPT ![t] = Buffer'[t]]
      /\ Outcome' = [Outcome EXCEPT ![t] = Outcome'[t]]
  BY <1>1, SeenAt
<1>3. pc[t] = "r_test" /\ pc'[t] = "r_shift" /\ ret[t] = "none"
  BY DEF R_Copy, Goto, Inv, TypeOK, Outcomes
<1>4. Op[t] = "read" /\ Outcome[t] = "none" /\ Amount[t] = count[t]
  BY <1>3, SeenNow DEF Seen, ReadPcs, Settled
<1>5. /\ Op'[t] = "read" /\ Outcome'[t] = "ok"
      /\ Amount'[t] = count'[t] /\ Buffer'[t] = buf'[t]
  BY <1>3, SeenNext DEF Seen, ReadPcs, Settled
<1>6. Op' = Op
  BY <1>2, <1>4, <1>5, SeenKept
<1> QED
  BY <1>2, <1>4, <1>5, <1>6, ReadTakes
  DEF Queue!Get, Queue!Pending, Queue!Possible

\* Adding count to current_len (line 189) is the moment a write takes effect,
\* as Put.
LEMMA WriteRefines ==
  ASSUME Inv, Outcomes, NEW t \in Task, W_Len(t)
  PROVE  Queue!Put(t)
<1>1. OthersKept(t)
  BY OthersStep DEF Step
<1>2. /\ Op' = [Op EXCEPT ![t] = Op'[t]]
      /\ Amount' = [Amount EXCEPT ![t] = Amount'[t]]
      /\ Buffer' = [Buffer EXCEPT ![t] = Buffer'[t]]
      /\ Outcome' = [Outcome EXCEPT ![t] = Outcome'[t]]
  BY <1>1, SeenAt
<1>3. /\ pc[t] = "w_len" /\ pc'[t] = "w_wake" /\ ret[t] = "none"
      /\ buf' = buf /\ count' = count
  BY DEF W_Len, Goto, local, Inv, TypeOK, Outcomes
<1>4. /\ Op[t] = "write" /\ Outcome[t] = "none"
      /\ Amount[t] = Len(buf[t]) /\ Buffer[t] = buf[t]
  BY <1>3, SeenNow DEF Seen, WritePcs, Settled
<1>5. /\ Op'[t] = "write" /\ Outcome'[t] = "ok"
      /\ Amount'[t] = count[t] /\ Buffer'[t] = buf[t]
  BY <1>3, SeenNext DEF Seen, WritePcs, Settled
<1>6. Op' = Op /\ Buffer' = Buffer
  BY <1>2, <1>4, <1>5, SeenKept
<1> QED
  BY <1>2, <1>4, <1>5, <1>6, WriteAppends
  DEF Queue!Put, Queue!Pending, Queue!Possible

\* The memset of FIFO_CLEAR and current_len = 0 empty the queue, as Clear.
LEMMA ClearRefines ==
  ASSUME Inv, Outcomes, NEW t \in Task, C_Zero(t)
  PROVE  Queue!Clear(t)
<1>1. OthersKept(t)
  BY OthersStep DEF Step
<1>2. /\ Op' = [Op EXCEPT ![t] = Op'[t]]
      /\ Amount' = [Amount EXCEPT ![t] = Amount'[t]]
      /\ Buffer' = [Buffer EXCEPT ![t] = Buffer'[t]]
      /\ Outcome' = [Outcome EXCEPT ![t] = Outcome'[t]]
  BY <1>1, SeenAt
<1>3. /\ mutex = t /\ pc[t] = "c_zero" /\ pc'[t] = "c_unlock"
      /\ ret[t] = "none" /\ ret'[t] = "ok"
  BY DEF C_Zero, Goto, Inv, TypeOK, MutexHeldInside, Holding, Outcomes
<1>4. /\ Op[t] = "clear" /\ Outcome[t] = "none"
      /\ Amount[t] = 0 /\ Buffer[t] = <<>>
  BY <1>3, SeenNow DEF Seen, ClearPcs, Settled
<1>5. /\ Op'[t] = "clear" /\ Outcome'[t] = "ok"
      /\ Amount'[t] = 0 /\ Buffer'[t] = <<>>
  BY <1>3, SeenNext DEF Seen, ClearPcs, Settled
<1>6. Op' = Op /\ Amount' = Amount /\ Buffer' = Buffer
  BY <1>2, <1>4, <1>5, SeenKept
<1>7. Counted' = 0 /\ current_len' = 0
  BY <1>3 DEF C_Zero, Inv, TypeOK, Counted
<1>8. Contents' = <<>>
  BY <1>7 DEF Contents
<1> QED
  BY <1>2, <1>4, <1>5, <1>6, <1>8 DEF Queue!Clear, Queue!Pending

\* The error exits: an error code is stored for its reason, and the queue is as
\* it was.
LEMMA FailRefines ==
  ASSUME Inv, Outcomes, NEW t \in Task,
         \/ R_Again(t) \/ W_Again(t) \/ R_Fault(t) \/ W_Fault(t)
         \/ (R_Sleep(t) \/ W_Sleep(t)) /\ sig[t]
  PROVE  Queue!Fail(t)
<1>1. Contents' = Contents /\ OthersKept(t)
  BY ContentsStep, CopyInStep, OthersStep DEF Step
<1>2. /\ Op' = [Op EXCEPT ![t] = Op'[t]]
      /\ Amount' = [Amount EXCEPT ![t] = Amount'[t]]
      /\ Buffer' = [Buffer EXCEPT ![t] = Buffer'[t]]
      /\ Outcome' = [Outcome EXCEPT ![t] = Outcome'[t]]
  BY <1>1, SeenAt
<1>3. /\ pc[t] \in {"r_test", "w_test", "r_sleep", "w_sleep"}
      /\ pc'[t] \in {"r_unlock", "w_unlock", "r_unlink", "w_unlink"}
      /\ pc[t] \in {"r_test", "r_sleep"} <=>
           pc'[t] \in {"r_unlock", "r_unlink"}
      /\ buf' = buf /\ count' = count /\ ret[t] = "none"
  BY DEF R_Again, W_Again, R_Fault, W_Fault, R_Sleep, W_Sleep, Goto, Inv,
     TypeOK, Outcomes
<1>4. /\ Op[t] = IF pc[t] \in {"r_test", "r_sleep"} THEN "read" ELSE "write"
      /\ Outcome[t] = "none" /\ Amount[t] = count[t] /\ Buffer[t] = buf[t]
  BY <1>3, SeenNow DEF Seen, ReadPcs, WritePcs, Settled
<1>5. /\ Op'[t] = Op[t] /\ Outcome'[t] = ret'[t]
      /\ Amount'[t] = count[t] /\ Buffer'[t] = buf[t]
  BY <1>3, <1>4, SeenNext DEF Seen, ReadPcs, WritePcs, Settled
<1>6. Op' = Op /\ Amount' = Amount /\ Buffer' = Buffer
  BY <1>2, <1>4, <1>5, SeenKept
<1>7. pc[t] \in {"r_test", "w_test"} =>
        (Queue!Possible(t) <=>
           IF pc[t] = "r_test" THEN current_len # 0 ELSE current_len # Size)
  <2> SUFFICES ASSUME pc[t] \in {"r_test", "w_test"}
               PROVE  Queue!Possible(t) <=>
                        IF pc[t] = "r_test" THEN current_len # 0
                        ELSE current_len # Size
    OBVIOUS
  <2>1. mutex = t /\ current_len \in 0..Size
    BY DEF Inv, TypeOK, MutexHeldInside, Holding
  <2>2. Counted = 0
    BY <2>1 DEF Counted
  <2>3. Contents \in Seq(Byte) /\ Len(Contents) = current_len
    BY <2>1, <2>2, ContentsProps
  <2>4. Contents = <<>> <=> current_len = 0
    BY <2>3, EmptySeq
  <2> QED
    BY <1>4, <2>1, <2>3, <2>4, ConstantsAssumption DEF Queue!Possible
<1>8. PICK e \in {"EAGAIN", "EFAULT", "ERESTARTSYS"} :
        /\ ret'[t] = e
        /\ e = "EAGAIN" => t \in Nonblock /\ ~Queue!Possible(t)
        /\ e = "EFAULT" => count[t] # 0 /\ Queue!Possible(t)
        /\ e = "ERESTARTSYS" => t \notin Nonblock
  <2>1. CASE R_Again(t)
    BY <1>7, <2>1 DEF R_Again, Inv, TypeOK
  <2>2. CASE W_Again(t)
    BY <1>7, <2>2 DEF W_Again, Inv, TypeOK
  <2>3. CASE R_Fault(t)
    BY <1>7, <2>3 DEF R_Fault, Inv, TypeOK
  <2>4. CASE W_Fault(t)
    <3>1. count[t] # 0
      BY <2>4, ConstantsAssumption DEF W_Fault, Least, Inv, TypeOK
    <3> QED
      BY <1>7, <2>4, <3>1 DEF W_Fault, Inv, TypeOK
  <2>5. CASE R_Sleep(t) /\ sig[t]
    BY <2>5 DEF R_Sleep, Inv, TypeOK, Outcomes
  <2>6. CASE W_Sleep(t) /\ sig[t]
    BY <2>6 DEF W_Sleep, Inv, TypeOK, Outcomes
  <2> QED
    BY <2>1, <2>2, <2>3, <2>4, <2>5, <2>6
<1> QED
  BY <1>1, <1>2, <1>4, <1>5, <1>6, <1>8 DEF Queue!Fail, Queue!Pending

\* The last step of a call returns its outcome.
LEMMA ReturnRefines ==
  ASSUME Inv, Outcomes, NEW t \in Task, Return(t),
         R_Unlink(t) \/ R_Del(t) \/ W_Unlink(t) \/ C_Unlock(t)
  PROVE  Queue!Return(t)
<1>1. Contents' = Contents /\ OthersKept(t)
  BY ContentsStep, OthersStep DEF Step
<1>2. /\ Op' = [Op EXCEPT ![t] = Op'[t]]
      /\ Amount' = [Amount EXCEPT ![t] = Amount'[t]]
      /\ Buffer' = [Buffer EXCEPT ![t] = Buffer'[t]]
      /\ Outcome' = [Outcome EXCEPT ![t] = Outcome'[t]]
  BY <1>1, SeenAt
<1>3. /\ pc[t] \in {"r_unlink", "r_del", "w_unlink", "c_unlock"}
      /\ ret[t] # "none" /\ pc'[t] = "idle"
  BY DEF R_Unlink, R_Del, W_Unlink, C_Unlock, Return, Goto, Inv, TypeOK,
     Outcomes
<1>4. Op[t] # "none" /\ Outcome[t] # "none"
  BY <1>3, SeenNow DEF Seen, ReadPcs, WritePcs, ClearPcs, Settled
<1>5. /\ Op'[t] = "none" /\ Outcome'[t] = "none"
      /\ Amount'[t] = 0 /\ Buffer'[t] = <<>>
  BY <1>3, SeenNext DEF Seen
<1> QED
  BY <1>1, <1>2, <1>4, <1>5 DEF Queue!Return

\* Every other step is invisible to ByteQueue.
LEMMA QuietStep ==
  ASSUME Inv, Outcomes, NEW t \in Task, Step(t) \/ Environment(t),
         Contents' = Contents,
         /\ Op'[t] = Op[t] /\ Outcome'[t] = Outcome[t]
         /\ Amount'[t] = Amount[t] /\ Buffer'[t] = Buffer[t]
  PROVE  UNCHANGED Queue!vars
BY OthersStep, SeenAt, SeenKept DEF Queue!vars, Queue!local

\* The steps of read that neither settle nor end the call.
LEMMA SleepStep ==
  ASSUME Inv, Outcomes, NEW t \in Task,
         \/ (R_Sleep(t) \/ W_Sleep(t)) /\ ~sig[t]
         \/ R_Unlink(t) /\ Smp
  PROVE  /\ Op'[t] = Op[t] /\ Outcome'[t] = Outcome[t]
         /\ Amount'[t] = Amount[t] /\ Buffer'[t] = Buffer[t]
<1> USE DEF Inv, TypeOK, Outcomes, Goto, dev, lists, local, ReadPcs, WritePcs,
      ClearPcs, Settled, Op, Outcome, Amount, Buffer
<1>1. CASE R_Sleep(t) /\ ~sig[t]
  BY <1>1 DEF R_Sleep
<1>2. CASE W_Sleep(t) /\ ~sig[t]
  BY <1>2 DEF W_Sleep
<1>3. CASE R_Unlink(t) /\ Smp
  BY <1>3 DEF R_Unlink
<1> QED
  BY <1>1, <1>2, <1>3

\* The device implements the bounded first-in first-out queue of ByteQueue: no
\* byte is lost, repeated, reordered or made up, and every call that returns
\* has taken effect once, with the count it returns, or failed for a reason of
\* its own and taken none, whatever the interleaving, the errors and the
\* signals.
THEOREM Refinement == Spec => QueueSpec
<1>1. Init => Queue!Init
  BY DEF Init, Queue!Init, Contents, Counted, Op, Outcome, Amount, Buffer,
     ReadPcs, WritePcs, ClearPcs
<1>2. Inv /\ Outcomes /\ [Next]_vars => [Queue!Next]_(Queue!vars)
  <2> SUFFICES ASSUME Inv, Outcomes, [Next]_vars
               PROVE  [Queue!Next]_(Queue!vars)
    OBVIOUS
  <2>1. CASE UNCHANGED vars
    BY <2>1 DEF vars, dev, local, Queue!vars, Queue!local, Contents, Counted,
       InFront, Op, Outcome, Amount, Buffer
  <2>2. CASE \E t \in Task : Step(t) \/ Environment(t)
    <3>1. PICK t \in Task : Step(t) \/ Environment(t)
      BY <2>2
    <3>2. CASE Read(t) \/ Write(t) \/ Ioctl(t)
      BY <3>2, BeginRefines DEF Queue!Next
    <3>3. CASE R_Copy(t) \/ W_Len(t) \/ C_Zero(t)
      BY <3>3, ReadRefines, WriteRefines, ClearRefines DEF Queue!Next
    <3>4. CASE \/ R_Again(t) \/ W_Again(t) \/ R_Fault(t) \/ W_Fault(t)
               \/ (R_Sleep(t) \/ W_Sleep(t)) /\ sig[t]
      BY <3>4, FailRefines DEF Queue!Next
    <3>5. CASE \/ R_Unlink(t) /\ ~Smp
               \/ R_Del(t) \/ W_Unlink(t) \/ C_Unlock(t)
      <4>1. Return(t)
        BY <3>5, UnlinkOnOneCpu DEF R_Del, W_Unlink, C_Unlock
      <4> QED
        BY <3>5, <4>1, ReturnRefines DEF Queue!Next
    <3>6. CASE \/ (R_Sleep(t) \/ W_Sleep(t)) /\ ~sig[t]
               \/ R_Unlink(t) /\ Smp
      BY <3>1, <3>6, SleepStep, ContentsStep, QuietStep
    <3>7. CASE
            \/ Open(t) \/ Release(t) \/ Fasync(t) \/ Signal(t) \/ R_Lock(t)
            \/ R_Block(t) \/ R_Relock(t) \/ R_Shift(t) \/ R_Len(t)
            \/ R_Wake(t) \/ R_Unlock(t) \/ W_Lock(t) \/ W_Block(t)
            \/ W_Relock(t) \/ W_Copy(t) \/ W_Wake(t) \/ W_Kill(t)
            \/ W_Unlock(t) \/ C_Lock(t) \/ Poll(t) \/ P_Lock(t) \/ P_Mask(t)
            \/ P_Wait(t) \/ P_Timeout(t) \/ P_Intr(t) \/ P_Relock(t)
            \/ P_Remask(t) \/ P_Free(t) \/ P_Free2(t)
      BY <3>1, <3>7, UnseenStep, ContentsStep, ShiftStep, LenStep, CopyInStep,
         QuietStep
    <3> QED
      BY <3>1, <3>2, <3>3, <3>4, <3>5, <3>6, <3>7 DEF Step, Environment
  <2> QED
    BY <2>1, <2>2 DEF Next, Damaged
<1> QED
  BY <1>1, <1>2, Invariance, OutcomesHold, PTL DEF Spec, QueueSpec, Queue!Spec

-----------------------------------------------------------------------------
(* async_queue, and the timeout of epoll_wait *)

\* A file that is closed is taken off async_queue in the same step; only an
\* open one is put on it.
LEMMA NoAsyncClosedStep ==
  ASSUME Inv, NoAsyncClosedFile, ~damaged,
         NEW t \in Task, Step(t) \/ Environment(t)
  PROVE  NoAsyncClosedFile'
<1> USE ConstantsAssumption DEF Inv, TypeOK, Goto, mutex_lock, mutex_unlock,
      dev, lists, local, NoAsyncClosedFile
<1>1. CASE Open(t)
  BY <1>1 DEF Open
<1>2. CASE Release(t)
  BY <1>2 DEF Release
<1>3. CASE Fasync(t)
  BY <1>3 DEF Fasync
<1>4. CASE Signal(t)
  BY <1>4 DEF Signal
<1>5. CASE Read(t)
  BY <1>5 DEF Read
<1>6. CASE R_Lock(t)
  BY <1>6 DEF R_Lock
<1>7. CASE R_Again(t)
  BY <1>7 DEF R_Again
<1>8. CASE R_Block(t)
  BY <1>8 DEF R_Block
<1>9. CASE R_Sleep(t)
  BY <1>9 DEF R_Sleep
<1>10. CASE R_Relock(t)
  BY <1>10 DEF R_Relock
<1>11. CASE R_Copy(t)
  BY <1>11 DEF R_Copy
<1>12. CASE R_Fault(t)
  BY <1>12 DEF R_Fault
<1>13. CASE R_Shift(t)
  BY <1>13 DEF R_Shift
<1>14. CASE R_Len(t)
  BY <1>14 DEF R_Len
<1>15. CASE R_Wake(t)
  BY <1>15 DEF R_Wake
<1>16. CASE R_Unlock(t)
  BY <1>16 DEF R_Unlock
<1>17. CASE R_Unlink(t)
  <2>1. CASE Smp
    BY <1>17, <2>1 DEF R_Unlink
  <2>2. CASE ~Smp
    BY <2>2, <1>17, UnlinkOnOneCpu DEF Return
  <2> QED
    BY <2>1, <2>2
<1>18. CASE R_Del(t)
  BY <1>18 DEF R_Del, Return
<1>19. CASE Write(t)
  BY <1>19 DEF Write
<1>20. CASE W_Lock(t)
  BY <1>20 DEF W_Lock
<1>21. CASE W_Again(t)
  BY <1>21 DEF W_Again
<1>22. CASE W_Block(t)
  BY <1>22 DEF W_Block
<1>23. CASE W_Sleep(t)
  BY <1>23 DEF W_Sleep
<1>24. CASE W_Relock(t)
  BY <1>24 DEF W_Relock
<1>25. CASE W_Copy(t)
  BY <1>25 DEF W_Copy
<1>26. CASE W_Fault(t)
  BY <1>26 DEF W_Fault
<1>27. CASE W_Len(t)
  BY <1>27 DEF W_Len
<1>28. CASE W_Wake(t)
  BY <1>28 DEF W_Wake
<1>29. CASE W_Kill(t)
  BY <1>29 DEF W_Kill
<1>30. CASE W_Unlock(t)
  BY <1>30 DEF W_Unlock
<1>31. CASE W_Unlink(t)
  BY <1>31 DEF W_Unlink, Return
<1>32. CASE Ioctl(t)
  BY <1>32 DEF Ioctl
<1>33. CASE C_Lock(t)
  BY <1>33 DEF C_Lock
<1>34. CASE C_Zero(t)
  BY <1>34 DEF C_Zero
<1>35. CASE C_Unlock(t)
  BY <1>35 DEF C_Unlock, Return
<1>36. CASE Poll(t)
  BY <1>36 DEF Poll
<1>37. CASE P_Lock(t)
  BY <1>37 DEF P_Lock
<1>38. CASE P_Mask(t)
  BY <1>38 DEF P_Mask
<1>39. CASE P_Wait(t)
  BY <1>39 DEF P_Wait
<1>40. CASE P_Timeout(t)
  BY <1>40 DEF P_Timeout
<1>41. CASE P_Intr(t)
  BY <1>41 DEF P_Intr
<1>42. CASE P_Relock(t)
  BY <1>42 DEF P_Relock
<1>43. CASE P_Remask(t)
  BY <1>43 DEF P_Remask
<1>44. CASE P_Free(t)
  BY <1>44 DEF P_Free
<1>45. CASE P_Free2(t)
  BY <1>45 DEF P_Free2, Return
<1> QED
  BY <1>1, <1>2, <1>3, <1>4, <1>5, <1>6, <1>7, <1>8, <1>9, <1>10, <1>11,
     <1>12, <1>13, <1>14, <1>15, <1>16, <1>17, <1>18, <1>19, <1>20, <1>21,
     <1>22, <1>23, <1>24, <1>25, <1>26, <1>27, <1>28, <1>29, <1>30, <1>31,
     <1>32, <1>33, <1>34, <1>35, <1>36, <1>37, <1>38, <1>39, <1>40, <1>41,
     <1>42, <1>43, <1>44, <1>45 DEF Step, Environment

\* Whatever the order of fcntl, release and kill_fasync, no closed file is on
\* async_queue.
THEOREM NoSignalToClosedFile == Spec => []NoAsyncClosedFile
<1>1. Init => NoAsyncClosedFile
  BY DEF Init, NoAsyncClosedFile
<1>2. Inv /\ NoAsyncClosedFile /\ [Next]_vars => NoAsyncClosedFile'
  <2> SUFFICES ASSUME Inv, NoAsyncClosedFile, [Next]_vars
               PROVE  NoAsyncClosedFile'
    OBVIOUS
  <2>1. CASE UNCHANGED vars
    BY <2>1 DEF vars, NoAsyncClosedFile
  <2>2. CASE ~damaged /\ \E t \in Task : Step(t) \/ Environment(t)
    BY <2>2, NoAsyncClosedStep
  <2> QED
    BY <2>1, <2>2 DEF Next, Damaged
<1> QED
  BY <1>1, <1>2, Invariance, PTL DEF Spec

\* One CPU runs a list_del to its end before anything else: no list operation
\* meets one that is under way, and no entry is cut off.
NothingLost == lost = {} /\ \A t \in Task : pc[t] # "r_del"

LEMMA NothingLostStep ==
  ASSUME Inv, NothingLost, ~Smp, ~damaged,
         NEW t \in Task, Step(t) \/ Environment(t)
  PROVE  NothingLost'
<1> USE ConstantsAssumption DEF Inv, TypeOK, Goto, mutex_lock, mutex_unlock,
      dev, lists, local, NothingLost, Link, Unlink,
      Unlinking
<1>1. CASE Open(t)
  BY <1>1 DEF Open
<1>2. CASE Release(t)
  BY <1>2 DEF Release
<1>3. CASE Fasync(t)
  BY <1>3 DEF Fasync
<1>4. CASE Signal(t)
  BY <1>4 DEF Signal
<1>5. CASE Read(t)
  BY <1>5 DEF Read
<1>6. CASE R_Lock(t)
  <2>1. \A u \in Task : ~Unlinking(u)
    OBVIOUS
  <2>2. r_wait # <<>> => Head(r_wait) \in Task
    BY HeadTailProperties
  <2>3. lost' = lost
    BY <1>6, <2>1, <2>2 DEF R_Lock
  <2> QED
    BY <1>6, <2>3 DEF R_Lock
<1>7. CASE R_Again(t)
  BY <1>7 DEF R_Again
<1>8. CASE R_Block(t)
  BY <1>8 DEF R_Block
<1>9. CASE R_Sleep(t)
  BY <1>9 DEF R_Sleep
<1>10. CASE R_Relock(t)
  BY <1>10 DEF R_Relock
<1>11. CASE R_Copy(t)
  BY <1>11 DEF R_Copy
<1>12. CASE R_Fault(t)
  BY <1>12 DEF R_Fault
<1>13. CASE R_Shift(t)
  BY <1>13 DEF R_Shift
<1>14. CASE R_Len(t)
  BY <1>14 DEF R_Len
<1>15. CASE R_Wake(t)
  BY <1>15 DEF R_Wake
<1>16. CASE R_Unlock(t)
  BY <1>16 DEF R_Unlock
<1>17. CASE R_Unlink(t)
  <2>1. CASE Smp
    BY <1>17, <2>1 DEF R_Unlink
  <2>2. CASE ~Smp
    BY <2>2, <1>17, UnlinkOnOneCpu DEF Return
  <2> QED
    BY <2>1, <2>2
<1>18. CASE R_Del(t)
  BY <1>18 DEF R_Del, Return
<1>19. CASE Write(t)
  BY <1>19 DEF Write
<1>20. CASE W_Lock(t)
  BY <1>20 DEF W_Lock
<1>21. CASE W_Again(t)
  BY <1>21 DEF W_Again
<1>22. CASE W_Block(t)
  BY <1>22 DEF W_Block
<1>23. CASE W_Sleep(t)
  BY <1>23 DEF W_Sleep
<1>24. CASE W_Relock(t)
  BY <1>24 DEF W_Relock
<1>25. CASE W_Copy(t)
  BY <1>25 DEF W_Copy
<1>26. CASE W_Fault(t)
  BY <1>26 DEF W_Fault
<1>27. CASE W_Len(t)
  BY <1>27 DEF W_Len
<1>28. CASE W_Wake(t)
  BY <1>28 DEF W_Wake
<1>29. CASE W_Kill(t)
  BY <1>29 DEF W_Kill
<1>30. CASE W_Unlock(t)
  BY <1>30 DEF W_Unlock
<1>31. CASE W_Unlink(t)
  BY <1>31 DEF W_Unlink, Return
<1>32. CASE Ioctl(t)
  BY <1>32 DEF Ioctl
<1>33. CASE C_Lock(t)
  BY <1>33 DEF C_Lock
<1>34. CASE C_Zero(t)
  BY <1>34 DEF C_Zero
<1>35. CASE C_Unlock(t)
  BY <1>35 DEF C_Unlock, Return
<1>36. CASE Poll(t)
  BY <1>36 DEF Poll
<1>37. CASE P_Lock(t)
  <2>1. \A u \in Task : ~Unlinking(u)
    OBVIOUS
  <2>2. r_wait # <<>> => Head(r_wait) \in Task
    BY HeadTailProperties
  <2>3. lost' = lost
    BY <1>37, <2>1, <2>2 DEF P_Lock
  <2> QED
    BY <1>37, <2>3 DEF P_Lock
<1>38. CASE P_Mask(t)
  BY <1>38 DEF P_Mask
<1>39. CASE P_Wait(t)
  BY <1>39 DEF P_Wait
<1>40. CASE P_Timeout(t)
  BY <1>40 DEF P_Timeout
<1>41. CASE P_Intr(t)
  BY <1>41 DEF P_Intr
<1>42. CASE P_Relock(t)
  BY <1>42 DEF P_Relock
<1>43. CASE P_Remask(t)
  BY <1>43 DEF P_Remask
<1>44. CASE P_Free(t)
  BY <1>44 DEF P_Free
<1>45. CASE P_Free2(t)
  BY <1>45 DEF P_Free2, Return
<1> QED
  BY <1>1, <1>2, <1>3, <1>4, <1>5, <1>6, <1>7, <1>8, <1>9, <1>10, <1>11,
     <1>12, <1>13, <1>14, <1>15, <1>16, <1>17, <1>18, <1>19, <1>20, <1>21,
     <1>22, <1>23, <1>24, <1>25, <1>26, <1>27, <1>28, <1>29, <1>30, <1>31,
     <1>32, <1>33, <1>34, <1>35, <1>36, <1>37, <1>38, <1>39, <1>40, <1>41,
     <1>42, <1>43, <1>44, <1>45 DEF Step, Environment

LEMMA OneCpuLosesNothing ==
  ASSUME ~Smp
  PROVE  Spec => []NothingLost
<1>1. Init => NothingLost
  BY DEF Init, NothingLost
<1>2. Inv /\ NothingLost /\ [Next]_vars => NothingLost'
  <2> SUFFICES ASSUME Inv, NothingLost, [Next]_vars PROVE NothingLost'
    OBVIOUS
  <2>1. CASE UNCHANGED vars
    BY <2>1 DEF vars, lists, NothingLost
  <2>2. CASE ~damaged /\ \E t \in Task : Step(t) \/ Environment(t)
    BY <2>2, NothingLostStep
  <2> QED
    BY <2>1, <2>2 DEF Next, Damaged
<1> QED
  BY <1>1, <1>2, Invariance, PTL DEF Spec

\* A wait ends as a timeout, without another look at the device, only when the
\* file is not on the ready list.
LEMMA TimeoutStep ==
  ASSUME Inv, NEW t \in Task, ~damaged, NEW u \in Task,
         Step(u) \/ Environment(u),
         pc[t] = "p_wait", pc'[t] = "p_free", ret'[t] = "timeout"
  PROVE  ~woken[t]
<1> USE ConstantsAssumption DEF Inv, TypeOK, Goto, mutex_lock, mutex_unlock,
      dev, lists, local, Returns
<1>1. CASE Open(u)
  BY <1>1 DEF Open
<1>2. CASE Release(u)
  BY <1>2 DEF Release
<1>3. CASE Fasync(u)
  BY <1>3 DEF Fasync
<1>4. CASE Signal(u)
  BY <1>4 DEF Signal
<1>5. CASE Read(u)
  BY <1>5 DEF Read
<1>6. CASE R_Lock(u)
  BY <1>6 DEF R_Lock
<1>7. CASE R_Again(u)
  BY <1>7 DEF R_Again
<1>8. CASE R_Block(u)
  BY <1>8 DEF R_Block
<1>9. CASE R_Sleep(u)
  BY <1>9 DEF R_Sleep
<1>10. CASE R_Relock(u)
  BY <1>10 DEF R_Relock
<1>11. CASE R_Copy(u)
  BY <1>11 DEF R_Copy
<1>12. CASE R_Fault(u)
  BY <1>12 DEF R_Fault
<1>13. CASE R_Shift(u)
  BY <1>13 DEF R_Shift
<1>14. CASE R_Len(u)
  BY <1>14 DEF R_Len
<1>15. CASE R_Wake(u)
  BY <1>15 DEF R_Wake
<1>16. CASE R_Unlock(u)
  BY <1>16 DEF R_Unlock
<1>17. CASE R_Unlink(u)
  <2>1. CASE Smp
    BY <1>17, <2>1 DEF R_Unlink
  <2>2. CASE ~Smp
    BY <2>2, <1>17, UnlinkOnOneCpu, SMTT(30) DEF Return
  <2> QED
    BY <2>1, <2>2
<1>18. CASE R_Del(u)
  BY <1>18 DEF R_Del, Return
<1>19. CASE Write(u)
  BY <1>19 DEF Write
<1>20. CASE W_Lock(u)
  BY <1>20 DEF W_Lock
<1>21. CASE W_Again(u)
  BY <1>21 DEF W_Again
<1>22. CASE W_Block(u)
  BY <1>22 DEF W_Block
<1>23. CASE W_Sleep(u)
  BY <1>23 DEF W_Sleep
<1>24. CASE W_Relock(u)
  BY <1>24 DEF W_Relock
<1>25. CASE W_Copy(u)
  BY <1>25 DEF W_Copy
<1>26. CASE W_Fault(u)
  BY <1>26 DEF W_Fault
<1>27. CASE W_Len(u)
  BY <1>27 DEF W_Len
<1>28. CASE W_Wake(u)
  BY <1>28 DEF W_Wake
<1>29. CASE W_Kill(u)
  BY <1>29 DEF W_Kill
<1>30. CASE W_Unlock(u)
  BY <1>30 DEF W_Unlock
<1>31. CASE W_Unlink(u)
  BY <1>31 DEF W_Unlink, Return
<1>32. CASE Ioctl(u)
  BY <1>32 DEF Ioctl
<1>33. CASE C_Lock(u)
  BY <1>33 DEF C_Lock
<1>34. CASE C_Zero(u)
  BY <1>34 DEF C_Zero
<1>35. CASE C_Unlock(u)
  BY <1>35 DEF C_Unlock, Return
<1>36. CASE Poll(u)
  BY <1>36 DEF Poll
<1>37. CASE P_Lock(u)
  BY <1>37 DEF P_Lock
<1>38. CASE P_Mask(u)
  BY <1>38 DEF P_Mask
<1>39. CASE P_Wait(u)
  BY <1>39 DEF P_Wait
<1>40. CASE P_Timeout(u)
  BY <1>40 DEF P_Timeout
<1>41. CASE P_Intr(u)
  BY <1>41 DEF P_Intr
<1>42. CASE P_Relock(u)
  BY <1>42 DEF P_Relock
<1>43. CASE P_Remask(u)
  BY <1>43 DEF P_Remask
<1>44. CASE P_Free(u)
  BY <1>44 DEF P_Free
<1>45. CASE P_Free2(u)
  BY <1>45 DEF P_Free2, Return
<1> QED
  BY <1>1, <1>2, <1>3, <1>4, <1>5, <1>6, <1>7, <1>8, <1>9, <1>10, <1>11,
     <1>12, <1>13, <1>14, <1>15, <1>16, <1>17, <1>18, <1>19, <1>20, <1>21,
     <1>22, <1>23, <1>24, <1>25, <1>26, <1>27, <1>28, <1>29, <1>30, <1>31,
     <1>32, <1>33, <1>34, <1>35, <1>36, <1>37, <1>38, <1>39, <1>40, <1>41,
     <1>42, <1>43, <1>44, <1>45 DEF Step, Environment

\* On one CPU epoll_wait says "timeout" only when there is no data, or the
\* write that brings it has not yet woken r_wait.
THEOREM TimeoutIsHonest ==
  ASSUME ~Smp
  PROVE  Spec => TimeoutMeansNoData
<1>1. Inv /\ NoMissedData /\ NothingLost /\ [Next]_vars =>
        [\A t \in Epollers \ OutPollers :
           pc[t] = "p_wait" /\ pc'[t] = "p_free" /\ ret'[t] = "timeout" =>
             current_len = 0 \/ WakingReaders]_vars
  <2> SUFFICES ASSUME Inv, NoMissedData, NothingLost, [Next]_vars,
                      NEW t \in Epollers \ OutPollers, pc[t] = "p_wait",
                      pc'[t] = "p_free", ret'[t] = "timeout"
               PROVE  current_len = 0 \/ WakingReaders
    OBVIOUS
  <2>0. t \in Task
    BY ConstantsAssumption DEF Task
  <2>1. ~UNCHANGED vars
    BY DEF vars
  <2>2. PICK u \in Task : ~damaged /\ (Step(u) \/ Environment(u))
    BY <2>1 DEF Next, Damaged
  <2>3. ~woken[t]
    BY <2>0, <2>2, TimeoutStep
  <2> QED
    BY <2>0, <2>3 DEF NoMissedData, NothingLost, AwaitsData
<1> QED
  BY <1>1, Invariance, DataWakes, OneCpuLosesNothing, PTL
     DEF Spec, TimeoutMeansNoData

=============================================================================
