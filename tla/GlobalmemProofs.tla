--------------------------- MODULE GlobalmemProofs ---------------------------
(***************************************************************************)
(* What is proved of globalmem, with a mutex or without, for any tasks and *)
(* open files and any size:                                                *)
(* the copies stay inside dev->mem (from Ranges), the writers in the       *)
(* critical section are at most one more than the unlocks by read (from    *)
(* Permits), and when no task is in the driver its mutex is free (from     *)
(* Usable).                                                                *)
(***************************************************************************)
EXTENDS Globalmem, TLAPS, FiniteSetTheorems, SequenceTheorems

-----------------------------------------------------------------------------
(* The inductive invariant *)

\* Who locks or unlocks the mutex is in read, write or MEM_CLEAR of a driver
\* that has one.
Handling == \A t \in Task :
  /\ pc[t] \in {"lock", "slow", "asleep", "use", "unlock", "wake"} =>
       op[t] \in {"read", "write", "clear"}
  /\ pc[t] \in {"lock", "slow", "asleep", "unlock", "wake"} => with_mutex

\* The range that read and write use is within the memory; of a file that one
\* task uses, so are the position and what is stored next.
Ranges == \A t \in Task :
  /\ op[t] # "clear" /\ pc[t] \in {"lock", "slow", "asleep", "use"} =>
       /\ (pos[t] % Uint) + count[t] <= Size
       /\ Alone(t) => pos[t] \in 0..Size /\ pos[t] + count[t] \in 0..Size
  /\ Alone(t) =>
       /\ f_pos[FileOf[t]] \in 0..Size
       /\ pc[t] = "add" => f_pos[FileOf[t]] + pos[t] \in 0..Size
       /\ op[t] # "clear" /\ pc[t] \in {"unlock", "wake"} => pos[t] \in 0..Size
       /\ pc[t] = "pos" => pos[t] \in 0..Size

\* Each owner of the mutex, each task about to set the counter to 1 and each
\* unit of a positive counter is a permit.  Only a read makes one from nothing.
Wakers == {t \in Task : pc[t] = "wake"}

Free == IF cnt > 0 THEN cnt ELSE 0

Permits == Free + Cardinality(Owners) + Cardinality(Wakers) <= 1 + reads

MemInv == TypeOK /\ Handling /\ Ranges /\ Permits

-----------------------------------------------------------------------------
(* Arithmetic, sequences and cardinalities *)

\* unsigned arithmetic: a value below 2^32 is its own remainder.
LEMMA Remainder ==
  /\ \A a \in Int : a % Uint \in 0..Uint-1
  /\ \A a \in 0..Uint-1 : a % Uint = a
  BY MemAssumption

\* What read and write compute from a position inside the memory lies inside.
LEMMA CutInside ==
  ASSUME NEW q \in 0..Size-1, NEW size \in 0..MaxCount
  PROVE  Cut(q, size) \in 0..Size /\ q + Cut(q, size) \in 0..Size
<1>1. (Size - q) % Uint = Size - q
  <2>1. Size - q \in 0..Uint-1
    BY MemAssumption
  <2> QED
    BY <2>1, Remainder
<1> QED
  BY <1>1, MemAssumption DEF Cut

\* list_del leaves a sequence of tasks.
LEMMA RemoveAtType ==
  ASSUME NEW s \in Seq(Task), NEW i \in DOMAIN s
  PROVE  RemoveAt(s, i) \in Seq(Task)
<1>1. i \in 1..Len(s)
  OBVIOUS
<1>2. SubSeq(s, 1, i-1) \in Seq(Task)
  BY <1>1, SubSeqProperties
<1>3. SubSeq(s, i+1, Len(s)) \in Seq(Task)
  BY <1>1, SubSeqProperties
<1> QED
  BY <1>2, <1>3, ConcatProperties DEF RemoveAt

\* A set that gained at most one element, or lost one.
LEMMA OneMore ==
  ASSUME NEW S, NEW T, NEW x, IsFiniteSet(S), T \subseteq S \union {x}
  PROVE  /\ Cardinality(T) \in Nat /\ Cardinality(S) \in Nat
         /\ Cardinality(T) <= Cardinality(S) + 1
<1>1. /\ IsFiniteSet(S \union {x})
      /\ Cardinality(S \union {x}) <= Cardinality(S) + 1
      /\ Cardinality(S) \in Nat
  BY FS_AddElement, FS_CardinalityType
<1>2. IsFiniteSet(T) /\ Cardinality(T) <= Cardinality(S \union {x})
  BY <1>1, FS_Subset
<1> QED
  BY <1>1, <1>2, FS_CardinalityType

LEMMA OneLess ==
  ASSUME NEW S, NEW T, NEW x \in S, IsFiniteSet(S), T \subseteq S \ {x}
  PROVE  /\ Cardinality(T) \in Nat /\ Cardinality(S) \in Nat
         /\ Cardinality(T) + 1 <= Cardinality(S)
<1>1. /\ IsFiniteSet(S \ {x})
      /\ Cardinality(S \ {x}) = Cardinality(S) - 1
      /\ Cardinality(S) \in Nat
  BY FS_RemoveElement, FS_CardinalityType
<1>2. IsFiniteSet(T) /\ Cardinality(T) <= Cardinality(S \ {x})
  BY <1>1, FS_Subset
<1> QED
  BY <1>1, <1>2, FS_CardinalityType

LEMMA NoMore ==
  ASSUME NEW S, NEW T, IsFiniteSet(S), T \subseteq S
  PROVE  /\ Cardinality(T) \in Nat /\ Cardinality(S) \in Nat
         /\ Cardinality(T) <= Cardinality(S)
  BY FS_Subset, FS_CardinalityType


\* A unit of the counter traded for an owner.
LEMMA Traded ==
  ASSUME NEW f \in Nat, NEW g \in Nat, NEW o \in Nat, NEW q \in Nat,
         NEW w \in Nat, NEW v \in Nat, NEW r \in Nat,
         f + o + w <= 1 + r, g + 1 <= f, q <= o + 1, v <= w
  PROVE  g + q + v <= 1 + r
  OBVIOUS

-----------------------------------------------------------------------------
(* The steps *)

\* The initial state satisfies the invariant.
LEMMA InitInv == Init => MemInv
<1> SUFFICES ASSUME Init PROVE MemInv
  OBVIOUS
<1> USE MemAssumption DEF Init
<1>1. TypeOK
  BY DEF TypeOK, Labels, Handlers
<1>2. Handling /\ Ranges
  BY DEF Handling, Ranges
<1>3. Permits
  <2>1. Owners = {} /\ Wakers = {}
    BY DEF Owners, Wakers
  <2> QED
    BY <2>1, FS_EmptySet DEF Permits, Free
<1> QED
  BY <1>1, <1>2, <1>3 DEF MemInv

\* The labels and handlers, for the prover.
LEMMA KnownLabels ==
  /\ {"idle", "lock", "slow", "asleep", "use", "unlock", "wake", "pos", "add"}
       \subseteq Labels
  /\ {"none", "read", "write", "clear", "seek"} \subseteq Handlers
  BY DEF Labels, Handlers

\* A return resets the locals to values of their types; a call that goes on
\* to file_pos_write keeps them.
LEMMA ReturnType ==
  ASSUME TypeOK, NEW t \in Task, Return(t) \/ AfterUnlock(t)
  PROVE  /\ pc' \in [Task -> Labels] /\ op' \in [Task -> Handlers]
         /\ pos' \in [Task -> Int] /\ count' \in [Task -> 0..Size]
         /\ failed' \in [Task -> BOOLEAN]
<1>1. 0 \in 0..Size
  BY MemAssumption
<1>2. CASE Return(t)
  BY <1>1, <1>2, KnownLabels DEF Return, Goto, TypeOK
<1>3. CASE AfterUnlock(t) /\ ~Return(t)
  BY <1>3, KnownLabels DEF AfterUnlock, Goto, local, TypeOK
<1> QED
  BY <1>2, <1>3

\* An attempt on the mutex keeps the counter an integer and the list of
\* waiters a sequence of tasks.
LEMMA TryType ==
  ASSUME TypeOK, NEW t \in Task, NEW queue \in Seq(Task), Try(t, queue)
  PROVE  /\ cnt' \in Int /\ wait_list' \in Seq(Task)
         /\ pc' \in [Task -> Labels]
<1>1. wait_list' \in Seq(Task)
  BY RemoveAtType DEF Try
<1>2. cnt' \in Int
  BY DEF Try, TypeOK
<1>3. pc' \in [Task -> Labels]
  BY KnownLabels DEF Try, Goto, TypeOK
<1> QED
  BY <1>1, <1>2, <1>3

\* Every step keeps the types.
LEMMA TypeStep ==
  ASSUME MemInv, NEW t \in Task, Call(t) \/ Step(t)
  PROVE  TypeOK'
<1> USE KnownLabels DEF MemInv, TypeOK, Goto, mutex, local
<1>0. /\ FileOf[t] \in File /\ \A a \in Int : a % Uint \in Int
      /\ \A o \in Offset : o \in Int
  BY MemAssumption, Remainder
<1>1. CASE Lock(t)
  BY <1>1 DEF Lock
<1>2. CASE LockSlow(t)
  <2>1. CASE Try(t, Append(wait_list, t))
    <3>1. Append(wait_list, t) \in Seq(Task)
      OBVIOUS
    <3> QED
      BY <1>2, <2>1, <3>1, TryType DEF LockSlow
  <2>2. CASE ~Try(t, Append(wait_list, t))
    <3>1. /\ cnt' = 0 /\ pc' = [pc EXCEPT ![t] = "use"]
          /\ UNCHANGED wait_list
      BY <1>2, <2>2 DEF LockSlow
    <3> QED
      BY <1>2, <3>1 DEF LockSlow
  <2> QED
    BY <2>1, <2>2
<1>3. CASE LockRetry(t)
  BY <1>3, TryType DEF LockRetry
<1>4. CASE Unlock(t)
  <2>1. cnt' \in Int /\ reads' \in Nat
    BY <1>4 DEF Unlock
  <2>2. CASE AfterUnlock(t)
    BY <1>4, <2>1, <2>2, ReturnType DEF Unlock
  <2>3. CASE ~AfterUnlock(t)
    BY <1>4, <2>1, <2>3 DEF Unlock
  <2> QED
    BY <2>2, <2>3
<1>5. CASE UnlockSlow(t)
  <2>1. woken' \in [Task -> BOOLEAN]
    BY <1>5 DEF UnlockSlow
  <2>2. AfterUnlock(t) /\ cnt' = 1
    BY <1>5 DEF UnlockSlow
  <2> QED
    BY <1>5, <2>1, <2>2, ReturnType DEF UnlockSlow
<1>6. ASSUME NEW h \in {"read", "write"}, NEW n \in {"use", "lock"},
             Begin(t, h, n)
      PROVE  TypeOK'
  <2> DEFINE q == f_pos[FileOf[t]] % Uint
  <2>1. q \in Nat /\ f_pos[FileOf[t]] \in Int
    BY <1>0, Remainder
  <2>2. PICK size \in 0..MaxCount :
          \/ q >= Size /\ count' = count /\ pc' = [pc EXCEPT ![t] = "pos"]
          \/ ~(q >= Size) /\ count' = [count EXCEPT ![t] = Cut(q, size)]
             /\ pc' = [pc EXCEPT ![t] = n]
    BY <1>6 DEF Begin
  <2>3. count' \in [Task -> 0..Size]
    <3>1. ~(q >= Size) => Cut(q, size) \in 0..Size
      <4> HIDE DEF q
      <4>1. ~(q >= Size) => q \in 0..Size-1
        BY <2>1, MemAssumption
      <4> QED
        BY <4>1, CutInside
    <3> QED
      BY <2>2, <3>1
  <2>4. pos' \in [Task -> Int]
    BY <2>1, <1>6 DEF Begin
  <2>5. pc' \in [Task -> Labels]
    <3>1. pc' = [pc EXCEPT ![t] = "pos"] \/ pc' = [pc EXCEPT ![t] = n]
      BY <2>2
    <3>2. pc \in [Task -> Labels] /\ {"pos", "use", "lock"} \subseteq Labels
      OBVIOUS
    <3> HIDE DEF TypeOK, MemInv
    <3> QED
      BY <3>1, <3>2
  <2> QED
    BY <1>6, <2>3, <2>4, <2>5 DEF Begin
<1>7. CASE Read(t)
  BY <1>6, <1>7 DEF Read
<1>8. CASE Write(t)
  BY <1>6, <1>8 DEF Write, Enter
<1>9. CASE Ioctl(t)
  BY <1>9 DEF Ioctl, Enter
<1>10. CASE Copy(t)
  <2>1. pos' \in [Task -> Int]
    <3>1. pos' = pos \/ pos' = [pos EXCEPT ![t] = pos[t] + count[t]]
      BY <1>10 DEF Copy
    <3>2. pos[t] + count[t] \in Int
      OBVIOUS
    <3> QED
      BY <3>1, <3>2
  <2>2. failed' \in [Task -> BOOLEAN]
    BY <1>10 DEF Copy
  <2> QED
    BY <1>10, <2>1, <2>2 DEF Copy
<1>15. CASE CopyPlain(t)
  <2>1. CASE Return(t)
    BY <1>15, <2>1, ReturnType DEF CopyPlain
  <2>2. CASE ~Return(t)
    <3>1. pos' = [pos EXCEPT ![t] = pos[t] + count[t]]
      BY <1>15, <2>2 DEF CopyPlain
    <3>2. pos[t] + count[t] \in Int
      OBVIOUS
    <3> QED
      BY <1>15, <2>2, <3>1, <3>2 DEF CopyPlain
  <2> QED
    BY <2>1, <2>2
<1>11. CASE StorePos(t)
  BY <1>11, ReturnType DEF StorePos
<1>12. CASE SeekSet(t)
  <2>1. PICK offset \in Offset :
          f_pos' = [f_pos EXCEPT ![FileOf[t]] = offset % Uint]
    BY <1>12 DEF SeekSet
  <2>2. f_pos' \in [File -> Int]
    BY <1>0, <2>1
  <2> QED
    BY <1>12, <2>2 DEF SeekSet
<1>13. CASE SeekCur(t)
  <2>1. PICK offset \in Offset : pos' = [pos EXCEPT ![t] = offset]
    BY <1>13 DEF SeekCur
  <2>2. pos' \in [Task -> Int]
    BY <1>0, <2>1
  <2>3. pc' \in [Task -> Labels] /\ op' \in [Task -> Handlers]
    <3>1. pc' = [pc EXCEPT ![t] = "add"] /\ op' = [op EXCEPT ![t] = "seek"]
      BY <1>13 DEF SeekCur, Goto
    <3> QED
      BY <1>0, <3>1
  <2> QED
    BY <1>13, <2>2, <2>3 DEF SeekCur
<1>14. CASE SeekAdd(t)
  <2>1. f_pos' \in [File -> Int]
    <3>1. f_pos[FileOf[t]] \in Int /\ pos[t] \in Int
      BY <1>0
    <3>2. f_pos[FileOf[t]] + pos[t] \in Int
      BY <3>1
    <3>3. f_pos' = [f_pos EXCEPT ![FileOf[t]] = f_pos[FileOf[t]] + pos[t]]
      BY <1>14 DEF SeekAdd
    <3> QED
      BY <1>0, <3>2, <3>3
  <2> QED
    BY <1>14, <2>1, ReturnType DEF SeekAdd
<1> QED
  BY <1>1, <1>2, <1>3, <1>4, <1>5, <1>7, <1>8, <1>9, <1>10, <1>11, <1>12,
     <1>13, <1>14, <1>15 DEF Call, Step

\* Every step keeps Handling: pc and op change together.
LEMMA HandlingStep ==
  ASSUME MemInv, NEW t \in Task, Call(t) \/ Step(t)
  PROVE  Handling'
<1>0. /\ pc \in [Task -> Labels] /\ op \in [Task -> Handlers]
      /\ Handling
  BY DEF MemInv, TypeOK
\* A step within a handler, ...
<1>k. ASSUME NEW l, Goto(t, l), op' = op, with_mutex' = with_mutex,
             l = "pos" \/ op[t] \in {"read", "write", "clear"},
             l \in {"use", "pos"} \/ with_mutex
      PROVE  Handling'
  BY <1>0, <1>k DEF Handling, Goto
\* ... and one that begins or ends it.
<1>h. ASSUME NEW l, NEW h, Goto(t, l), op' = [op EXCEPT ![t] = h],
             with_mutex' = with_mutex,
             \/ l \in {"idle", "pos", "add"}
             \/ /\ l = "use" \/ (l = "lock" /\ with_mutex)
                /\ h \in {"read", "write", "clear"}
      PROVE  Handling'
  BY <1>0, <1>h DEF Handling, Goto
<1>a. ASSUME AfterUnlock(t), with_mutex' = with_mutex PROVE Handling'
  <2>1. CASE Return(t)
    BY <1>a, <1>h, <2>1 DEF Return
  <2>2. CASE ~Return(t)
    BY <1>a, <1>k, <2>2 DEF AfterUnlock, local
  <2> QED
    BY <2>1, <2>2
<1>c. pc[t] \in {"lock", "slow", "asleep", "unlock", "wake"} =>
        op[t] \in {"read", "write", "clear"} /\ with_mutex
  BY <1>0 DEF Handling
<1>u. pc[t] = "use" => op[t] \in {"read", "write", "clear"}
  BY <1>0 DEF Handling
<1>t. ASSUME NEW queue, Try(t, queue), op' = op, with_mutex' = with_mutex,
             op[t] \in {"read", "write", "clear"}, with_mutex
      PROVE  Handling'
  <2>1. Goto(t, "use") \/ Goto(t, "asleep")
    BY <1>t DEF Try
  <2> QED
    BY <1>k, <1>t, <2>1
<1>1. CASE Lock(t)
  <2>1. /\ Goto(t, "use") \/ Goto(t, "slow")
        /\ op' = op /\ with_mutex' = with_mutex /\ pc[t] = "lock"
    BY <1>1 DEF Lock, local
  <2> QED
    BY <1>c, <1>k, <2>1
<1>2. CASE LockSlow(t)
  <2>1. /\ Goto(t, "use") \/ Try(t, Append(wait_list, t))
        /\ op' = op /\ with_mutex' = with_mutex /\ pc[t] = "slow"
    BY <1>2 DEF LockSlow, local
  <2> QED
    BY <1>c, <1>k, <1>t, <2>1
<1>3. CASE LockRetry(t)
  BY <1>3, <1>c, <1>t DEF LockRetry, local
<1>4. CASE Unlock(t)
  <2>1. /\ AfterUnlock(t) \/ (Goto(t, "wake") /\ op' = op)
        /\ with_mutex' = with_mutex /\ pc[t] = "unlock"
    BY <1>4 DEF Unlock, local
  <2> QED
    BY <1>a, <1>c, <1>k, <2>1
<1>5. CASE UnlockSlow(t)
  BY <1>5, <1>a DEF UnlockSlow
<1>7. CASE Read(t)
  <2>1. /\ op' = [op EXCEPT ![t] = "read"] /\ with_mutex' = with_mutex
        /\ Goto(t, "pos") \/ Goto(t, "use")
    BY <1>7 DEF Read, Begin, mutex
  <2> QED
    BY <1>h, <2>1
<1>8. CASE Write(t)
  <2>1. /\ op' = [op EXCEPT ![t] = "write"] /\ with_mutex' = with_mutex
        /\ Goto(t, "pos") \/ Goto(t, "use") \/ (Goto(t, "lock") /\ with_mutex)
    BY <1>8 DEF Write, Begin, Enter, mutex
  <2> QED
    BY <1>h, <2>1
<1>9. CASE Ioctl(t)
  <2>1. /\ op' = [op EXCEPT ![t] = "clear"] /\ with_mutex' = with_mutex
        /\ Goto(t, "use") \/ (Goto(t, "lock") /\ with_mutex)
    BY <1>9 DEF Ioctl, Enter, mutex
  <2> QED
    BY <1>h, <2>1
<1>10. CASE Copy(t)
  BY <1>10, <1>k, <1>u DEF Copy, mutex
<1>15. CASE CopyPlain(t)
  <2>1. CASE Return(t)
    BY <1>15, <1>h, <2>1 DEF CopyPlain, Return, mutex
  <2>2. CASE ~Return(t)
    BY <1>15, <1>k, <2>2 DEF CopyPlain, mutex
  <2> QED
    BY <2>1, <2>2
<1>11. CASE StorePos(t)
  BY <1>11, <1>h DEF StorePos, Return, mutex
<1>12. CASE SeekSet(t)
  <2>1. pc' = pc /\ op' = op /\ with_mutex' = with_mutex
    BY <1>12 DEF SeekSet, mutex, local
  <2> QED
    BY <1>0, <2>1 DEF Handling
<1>13. CASE SeekCur(t)
  BY <1>13, <1>h DEF SeekCur, mutex
<1>14. CASE SeekAdd(t)
  BY <1>14, <1>h DEF SeekAdd, Return, mutex
<1> QED
  BY <1>1, <1>2, <1>3, <1>4, <1>5, <1>7, <1>8, <1>9, <1>10, <1>11, <1>12,
     <1>13, <1>14, <1>15 DEF Call, Step

\* A step of t leaves the locals of the other tasks alone, and f_pos unless it
\* is StorePos, SeekSet or SeekAdd.
LEMMA RangesStep ==
  ASSUME MemInv, NEW t \in Task, Call(t) \/ Step(t)
  PROVE  Ranges'
<1> USE DEF MemInv, TypeOK, Ranges, Handling, Goto, Return, local
<1>0. /\ FileOf \in [Task -> File] /\ Size \in Nat /\ Offset \subseteq Int
      /\ \A u \in Task : Alone(u)' = Alone(u)
  BY MemAssumption DEF Alone
<1>a. \A u \in Task : Alone(u) /\ u # t => FileOf[u] # FileOf[t]
  BY DEF Alone
<1>1. CASE Lock(t)
  BY <1>0, <1>1 DEF Lock
<1>2. CASE LockSlow(t)
  BY <1>0, <1>2 DEF LockSlow, Try
<1>3. CASE LockRetry(t)
  BY <1>0, <1>3 DEF LockRetry, Try
\* What all the rest of a step of t leaves alone, and what it must do for t.
<1>o. ASSUME f_pos' = f_pos,
             \A u \in Task : u # t => /\ pc'[u] = pc[u] /\ op'[u] = op[u]
                                    /\ pos'[u] = pos[u] /\ count'[u] = count[u],
             op'[t] # "clear" /\ pc'[t] \in {"lock", "slow", "asleep", "use"} =>
               /\ (pos'[t] % Uint) + count'[t] <= Size
               /\ Alone(t) => pos'[t] \in 0..Size /\ pos'[t] + count'[t] \in 0..Size,
             pc'[t] # "add",
             Alone(t) /\ pc'[t] \in {"unlock", "wake", "pos"} =>
               \/ pos'[t] \in 0..Size
               \/ op'[t] = "clear" /\ pc'[t] # "pos"
      PROVE  Ranges'
  BY <1>0, <1>o
<1>4. CASE Unlock(t) \/ UnlockSlow(t)
  <2>1. /\ f_pos' = f_pos /\ pc[t] \in {"unlock", "wake"}
        /\ \/ Return(t)
           \/ /\ UNCHANGED local
              /\ \/ pc' = [pc EXCEPT ![t] = "wake"]
                 \/ pc' = [pc EXCEPT ![t] = "pos"] /\ op[t] # "clear"
    BY <1>4 DEF Unlock, UnlockSlow, AfterUnlock
  <2>2. CASE Return(t)
    BY <1>o, <2>1, <2>2
  <2>3. CASE UNCHANGED local
    BY <1>o, <2>1, <2>3
  <2> QED
    BY <2>1, <2>2, <2>3
<1>6. ASSUME NEW h \in {"read", "write"}, NEW n \in {"use", "lock"},
             Begin(t, h, n)
      PROVE  Ranges'
  <2> DEFINE q == f_pos[FileOf[t]] % Uint
  <2>1. q \in Nat /\ (f_pos[FileOf[t]] \in 0..Size => q = f_pos[FileOf[t]])
    <3>1. f_pos[FileOf[t]] \in Int
      BY <1>0
    <3>2. f_pos[FileOf[t]] \in 0..Size => f_pos[FileOf[t]] \in 0..Uint-1
      BY <3>1, MemAssumption
    <3> QED
      BY <3>1, <3>2, Remainder
  <2>2. PICK size \in 0..MaxCount :
          IF q >= Size
          THEN pc' = [pc EXCEPT ![t] = "pos"] /\ count' = count
          ELSE /\ count' = [count EXCEPT ![t] = Cut(q, size)]
               /\ pc' = [pc EXCEPT ![t] = n]
    BY <1>6 DEF Begin
  <2>3. /\ op' = [op EXCEPT ![t] = h] /\ f_pos' = f_pos
        /\ pos' = [pos EXCEPT ![t] = f_pos[FileOf[t]]]
    BY <1>6 DEF Begin
  <2>4. CASE q >= Size
    BY <1>0, <2>2, <2>3, <2>4, <1>6 DEF Begin
  <2>5. CASE q < Size
    <3>1. q \in 0..Size /\ Cut(q, size) \in 0..Size
          /\ q + Cut(q, size) \in 0..Size
      BY <2>1, <2>5, CutInside, <1>0
    <3>2. /\ pc' = [pc EXCEPT ![t] = n] /\ pc'[t] \notin {"unlock", "wake", "add", "pos"}
          /\ count'[t] = Cut(q, size) /\ pos'[t] = f_pos[FileOf[t]] /\ pos'[t] \in Int
      BY <1>0, <2>2, <2>3, <2>5, <3>1
    <3>3. /\ pos'[t] % Uint = q
          /\ Alone(t) => pos'[t] = q
      BY <2>1, <3>2
    <3>4. \A u \in Task : u # t => /\ pc'[u] = pc[u] /\ op'[u] = op[u]
                                  /\ pos'[u] = pos[u] /\ count'[u] = count[u]
      BY <2>2, <2>3, <2>5
    <3> HIDE DEF q
    <3> QED
      BY <1>0, <1>o, <2>1, <2>3, <3>1, <3>2, <3>3, <3>4
  <2> QED
    BY <2>1, <2>4, <2>5, <1>0
<1>7. CASE Read(t)
  BY <1>6, <1>7 DEF Read
<1>8. CASE Write(t)
  BY <1>6, <1>8 DEF Write, Enter
<1>9. CASE Ioctl(t)
  BY <1>0, <1>9 DEF Ioctl, Enter
<1>10. CASE Copy(t)
  BY <1>0, <1>10 DEF Copy
<1>15. CASE CopyPlain(t)
  BY <1>0, <1>15 DEF CopyPlain
<1>11. CASE StorePos(t)
  BY <1>0, <1>a, <1>11 DEF StorePos
<1>12. CASE SeekSet(t)
  <2>1. PICK q \in 0..Size : f_pos' = [f_pos EXCEPT ![FileOf[t]] = q]
    <3>1. PICK o \in Offset :
            /\ o % Uint <= Size
            /\ f_pos' = [f_pos EXCEPT ![FileOf[t]] = o % Uint]
      BY <1>12 DEF SeekSet
    <3>2. o \in Int
      BY <1>0
    <3>3. o % Uint \in 0..Size
      BY <1>0, <3>1, <3>2, Remainder, MemAssumption
    <3> QED
      BY <3>1, <3>3
  <2>2. UNCHANGED <<pc, op, pos, count>>
    BY <1>12 DEF SeekSet
  <2>3. \A u \in Task : Alone(u) =>
          /\ f_pos'[FileOf[u]] \in 0..Size
          /\ u = t \/ f_pos'[FileOf[u]] = f_pos[FileOf[u]]
    BY <1>0, <1>a, <2>1
  <2>4. pc[t] = "idle"
    BY <1>12 DEF SeekSet
  <2> QED
    BY <1>0, <2>2, <2>3, <2>4
<1>13. CASE SeekCur(t)
  BY <1>0, <1>13 DEF SeekCur
<1>14. CASE SeekAdd(t)
  BY <1>0, <1>a, <1>14 DEF SeekAdd
<1> QED
  BY <1>1, <1>2, <1>3, <1>4, <1>7, <1>8, <1>9, <1>10, <1>11, <1>12,
     <1>13, <1>14, <1>15 DEF Call, Step

\* Permits from what a step does to the counter, the owners and the wakers.
LEMMA Sizes ==
  ASSUME TypeOK
  PROVE  /\ IsFiniteSet(Owners) /\ IsFiniteSet(Wakers)
         /\ Cardinality(Owners) \in Nat /\ Cardinality(Wakers) \in Nat
<1>1. Owners \in SUBSET Task /\ Wakers \in SUBSET Task
  BY DEF Owners, Wakers
<1> QED
  BY <1>1, MemAssumption, FS_Subset, FS_CardinalityType

LEMMA NoPermit ==
  ASSUME MemInv, Owners' \subseteq Owners, Wakers' \subseteq Wakers,
         cnt' \in Int, Free' <= Free, reads' = reads
  PROVE  Permits'
<1>1. /\ Cardinality(Owners') \in Nat /\ Cardinality(Wakers') \in Nat
      /\ Cardinality(Owners') <= Cardinality(Owners)
      /\ Cardinality(Wakers') <= Cardinality(Wakers)
  BY Sizes, NoMore DEF MemInv
<1>2. Free \in Nat /\ Free' \in Nat /\ reads \in Nat
  BY DEF Free, MemInv, TypeOK
<1> QED
  BY <1>1, <1>2, Sizes DEF Permits, MemInv

\* No step lets in more writers than a read has made room for.
LEMMA PermitsStep ==
  ASSUME MemInv, NEW t \in Task, Call(t) \/ Step(t)
  PROVE  Permits'
<1> USE DEF Goto, mutex, local
<1>0. TypeOK /\ Handling /\ Permits
  BY DEF MemInv
<1>s. /\ IsFiniteSet(Owners) /\ IsFiniteSet(Wakers)
      /\ Cardinality(Owners) \in Nat /\ Cardinality(Wakers) \in Nat
  BY <1>0, Sizes
<1>f. reads \in Nat /\ cnt \in Int /\ Free \in Nat
  BY <1>0 DEF TypeOK, Free
\* The step that takes the mutex uses up a unit of the counter ...
<1>t. ASSUME Owners' \subseteq Owners \union {t}, Wakers' \subseteq Wakers,
             cnt > 0, cnt' \in Int, cnt' <= cnt - 1, reads' = reads
      PROVE  Permits'
  <2>1. /\ Cardinality(Owners') \in Nat /\ Cardinality(Wakers') \in Nat
        /\ Cardinality(Owners') <= Cardinality(Owners) + 1
        /\ Cardinality(Wakers') <= Cardinality(Wakers)
    BY <1>t, <1>s, NoMore, OneMore
  <2>2. Free' \in Nat /\ Free' + 1 <= Free
    <3>1. cnt \in Int /\ cnt > 0 /\ cnt' \in Int /\ cnt' <= cnt - 1
      BY <1>t, <1>f
    <3>2. Free = cnt
      BY <3>1 DEF Free
    <3>3. Free' = 0 \/ (Free' = cnt' /\ cnt' > 0)
      BY <3>1 DEF Free
    <3> QED
      BY <3>1, <3>2, <3>3
  <2> QED
    <3>1. reads' = reads
      BY <1>t
    <3>2. Free + Cardinality(Owners) + Cardinality(Wakers) <= 1 + reads
      BY <1>0 DEF Permits
    <3>3. Free' + Cardinality(Owners') + Cardinality(Wakers') <= 1 + reads
      BY <1>f, <1>s, <2>1, <2>2, <3>2, Traded
    <3> QED
      BY <3>1, <3>3 DEF Permits
\* ... and an attempt that fails uses up none.
<1>u. ASSUME NEW queue, Try(t, queue), reads' = reads, op' = op,
             with_mutex' = with_mutex
      PROVE  Permits'
  <2> USE <1>u
  <2>1. CASE cnt = 1
    <3>1. Owners' \subseteq Owners \union {t} /\ Wakers' \subseteq Wakers
      BY <1>0, <2>1 DEF Try, Owners, Wakers, TypeOK
    <3>2. cnt' \in Int /\ cnt' <= cnt - 1
      BY <2>1 DEF Try
    <3> QED
      BY <1>t, <2>1, <3>1, <3>2
  <2>2. CASE cnt # 1
    <3>1. Owners' \subseteq Owners /\ Wakers' \subseteq Wakers
      BY <1>0, <2>2 DEF Try, Owners, Wakers, TypeOK
    <3>2. cnt' \in Int /\ Free' <= Free
      BY <1>f, <2>2 DEF Try, Free
    <3> QED
      BY <3>1, <3>2, NoPermit
  <2> QED
    BY <2>1, <2>2
<1>1. CASE Lock(t)
  <2> USE <1>1 DEF Lock
  <2>1. CASE cnt > 0
    <3>1. Owners' \subseteq Owners \union {t} /\ Wakers' \subseteq Wakers
      BY <1>0, <2>1 DEF Owners, Wakers, TypeOK
    <3> QED
      BY <1>t, <1>f, <2>1, <3>1
  <2>2. CASE ~(cnt > 0)
    <3>1. Owners' \subseteq Owners /\ Wakers' \subseteq Wakers
      BY <1>0, <2>2 DEF Owners, Wakers, TypeOK
    <3>2. cnt' \in Int /\ Free' <= Free
      BY <1>f, <2>2 DEF Free
    <3> QED
      BY <3>1, <3>2, NoPermit
  <2> QED
    BY <2>1, <2>2
<1>2. CASE LockSlow(t)
  <2>1. CASE Try(t, Append(wait_list, t))
    BY <1>2, <1>u, <2>1 DEF LockSlow
  <2>2. CASE cnt = 1 /\ cnt' = 0 /\ pc' = [pc EXCEPT ![t] = "use"]
    <3>1. Owners' \subseteq Owners \union {t} /\ Wakers' \subseteq Wakers
      BY <1>0, <1>2, <2>2 DEF LockSlow, Owners, Wakers, TypeOK
    <3> QED
      BY <1>2, <1>t, <2>2, <3>1 DEF LockSlow
  <2> QED
    BY <1>2, <2>1, <2>2 DEF LockSlow
<1>3. CASE LockRetry(t)
  BY <1>3, <1>u DEF LockRetry
\* An unlock gives the permit of its owner back; that of a read makes one.
<1>4. CASE Unlock(t)
  <2> USE <1>4 DEF Unlock
  <2> DEFINE given == IF op[t] = "read" THEN 1 ELSE 0
  <2>1. /\ Cardinality(Owners') \in Nat
        /\ Cardinality(Owners') + 1 <= Cardinality(Owners) + given
    <3>1. CASE op[t] = "read"
      <4>1. Owners' \subseteq Owners
        BY <1>0, <3>1 DEF Owners, TypeOK, AfterUnlock, Return
      <4> QED
        BY <1>s, <3>1, <4>1, NoMore
    <3>2. CASE op[t] # "read"
      <4>1. t \in Owners
        BY <1>0, <3>2 DEF Owners, Handling
      <4>2. Owners' \subseteq Owners \ {t}
        BY <1>0 DEF Owners, TypeOK, AfterUnlock, Return
      <4> QED
        BY <1>s, <3>2, <4>1, <4>2, OneLess
    <3> QED
      BY <3>1, <3>2
  <2>2. reads' = reads + given
    BY <1>f
  <2>3. CASE cnt + 1 > 0
    <3>1. Wakers' \subseteq Wakers
      BY <1>0, <2>3 DEF Wakers, TypeOK, AfterUnlock, Return
    <3>2. /\ Cardinality(Wakers') \in Nat
          /\ Cardinality(Wakers') <= Cardinality(Wakers)
      BY <1>s, <3>1, NoMore
    <3>3. Free' = Free + 1
      BY <1>f, <2>3 DEF Free
    <3> QED
      BY <1>0, <1>f, <1>s, <2>1, <2>2, <3>2, <3>3 DEF Permits
  <2>4. CASE ~(cnt + 1 > 0)
    <3>1. Wakers' \subseteq Wakers \union {t}
      BY <1>0, <2>4 DEF Wakers, TypeOK
    <3>2. /\ Cardinality(Wakers') \in Nat
          /\ Cardinality(Wakers') <= Cardinality(Wakers) + 1
      BY <1>s, <3>1, OneMore
    <3>3. Free' = 0 /\ Free = 0
      BY <1>f, <2>4 DEF Free
    <3> QED
      BY <1>0, <1>f, <1>s, <2>1, <2>2, <3>2, <3>3 DEF Permits
  <2> QED
    BY <2>3, <2>4
<1>5. CASE UnlockSlow(t)
  <2> USE <1>5 DEF UnlockSlow
  <2>1. t \in Wakers
    BY DEF Wakers
  <2>2. Owners' \subseteq Owners /\ Wakers' \subseteq Wakers \ {t}
    BY <1>0 DEF Owners, Wakers, TypeOK, AfterUnlock, Return
  <2>3. /\ Cardinality(Owners') \in Nat /\ Cardinality(Wakers') \in Nat
        /\ Cardinality(Owners') <= Cardinality(Owners)
        /\ Cardinality(Wakers') + 1 <= Cardinality(Wakers)
    BY <1>s, <2>1, <2>2, NoMore, OneLess
  <2>4. Free' = 1 /\ reads' = reads
    BY DEF Free
  <2> QED
    BY <1>0, <1>f, <1>s, <2>3, <2>4 DEF Permits
\* The other steps change neither the counter nor who holds a permit.
<1>6. ASSUME UNCHANGED <<cnt, reads>>, Owners' \subseteq Owners,
             Wakers' \subseteq Wakers
      PROVE  Permits'
  <2>1. cnt' \in Int /\ Free' <= Free
    BY <1>6, <1>f DEF Free
  <2> QED
    BY <1>6, <2>1, NoPermit
<1>7. CASE Read(t)
  <2>1. Owners' \subseteq Owners /\ Wakers' \subseteq Wakers
    BY <1>0, <1>7 DEF Read, Begin, Owners, Wakers, TypeOK
  <2> QED
    BY <1>6, <1>7, <2>1 DEF Read, Begin
<1>8. CASE Write(t)
  <2>1. Owners' \subseteq Owners /\ Wakers' \subseteq Wakers
    BY <1>0, <1>8 DEF Write, Enter, Begin, Owners, Wakers, TypeOK
  <2> QED
    BY <1>6, <1>8, <2>1 DEF Write, Begin
<1>9. CASE Ioctl(t)
  <2>1. Owners' \subseteq Owners /\ Wakers' \subseteq Wakers
    BY <1>0, <1>9 DEF Ioctl, Enter, Owners, Wakers, TypeOK
  <2> QED
    BY <1>6, <1>9, <2>1 DEF Ioctl
<1>10. CASE Copy(t)
  <2>1. Owners' \subseteq Owners /\ Wakers' \subseteq Wakers
    BY <1>0, <1>10 DEF Copy, Owners, Wakers, TypeOK
  <2> QED
    BY <1>6, <1>10, <2>1 DEF Copy
<1>15. CASE CopyPlain(t)
  <2>1. Owners' \subseteq Owners /\ Wakers' \subseteq Wakers
    BY <1>0, <1>15 DEF CopyPlain, Return, Owners, Wakers, TypeOK
  <2> QED
    BY <1>6, <1>15, <2>1 DEF CopyPlain
<1>11. CASE StorePos(t)
  <2>1. Owners' \subseteq Owners /\ Wakers' \subseteq Wakers
    BY <1>0, <1>11 DEF StorePos, Return, Owners, Wakers, TypeOK
  <2> QED
    BY <1>6, <1>11, <2>1 DEF StorePos
<1>12. CASE SeekSet(t)
  <2>1. Owners' \subseteq Owners /\ Wakers' \subseteq Wakers
    BY <1>12 DEF SeekSet, Owners, Wakers
  <2> QED
    BY <1>6, <1>12, <2>1 DEF SeekSet
<1>13. CASE SeekCur(t)
  <2>1. Owners' \subseteq Owners /\ Wakers' \subseteq Wakers
    BY <1>0, <1>13 DEF SeekCur, Owners, Wakers, TypeOK
  <2> QED
    BY <1>6, <1>13, <2>1 DEF SeekCur
<1>14. CASE SeekAdd(t)
  <2>1. Owners' \subseteq Owners /\ Wakers' \subseteq Wakers
    BY <1>0, <1>14 DEF SeekAdd, Return, Owners, Wakers, TypeOK
  <2> QED
    BY <1>6, <1>14, <2>1 DEF SeekAdd
<1> QED
  BY <1>1, <1>2, <1>3, <1>4, <1>5, <1>7, <1>8, <1>9, <1>10, <1>11, <1>12,
     <1>13, <1>14, <1>15 DEF Call, Step

-----------------------------------------------------------------------------
(* The mutex of an idle device *)

\* Only write and MEM_CLEAR lock.  Who is on wait_list is asleep, and on it
\* once.  A counter that is not positive has a cause: a task that will set it
\* to 1 or give its mutex back, or one that tries to take it.
Cause(u) == pc[u] \in {"slow", "asleep", "wake"} \/ u \in Owners

Usable ==
  /\ \A u \in Task : pc[u] \in {"lock", "slow", "asleep"} =>
       op[u] \in {"write", "clear"}
  /\ \A i \in DOMAIN wait_list : pc[wait_list[i]] = "asleep"
  /\ \A i, j \in DOMAIN wait_list : wait_list[i] = wait_list[j] => i = j
  /\ cnt <= 0 => \E u \in Task : Cause(u)

IdleInv == MemInv /\ Usable

\* A sequence of different elements without its i-th: the others, each once.
LEMMA RemoveAtOnce ==
  ASSUME NEW s \in Seq(Task), NEW i \in DOMAIN s, NEW r, r = RemoveAt(s, i),
         \A j, k \in DOMAIN s : s[j] = s[k] => j = k
  PROVE  /\ \A j \in DOMAIN r : \E k \in DOMAIN s : k # i /\ r[j] = s[k]
         /\ \A j, k \in DOMAIN r : r[j] = r[k] => j = k
<1> DEFINE n == Len(s)
           a == SubSeq(s, 1, i-1)
           b == SubSeq(s, i+1, n)
           at(j) == IF j < i THEN j ELSE j + 1
<1>1. n \in Nat /\ i \in 1..n /\ DOMAIN s = 1..n
  BY LenProperties
<1>2. a \in Seq(Task) /\ Len(a) = i - 1 /\ \A j \in 1..i-1 : a[j] = s[j]
  BY <1>1, SubSeqProperties
<1>3. b \in Seq(Task) /\ Len(b) = n - i /\ \A j \in 1..n-i : b[j] = s[j+i]
  BY <1>1, SubSeqProperties
<1>4. r = a \o b
  BY DEF RemoveAt
<1> HIDE DEF a, b, n
<1>5. /\ r \in Seq(Task) /\ Len(r) = Len(a) + Len(b)
      /\ \A j \in 1..Len(a) + Len(b) :
           r[j] = IF j <= Len(a) THEN a[j] ELSE b[j - Len(a)]
  BY SMTT(30), <1>2, <1>3, <1>4, ConcatProperties
<1>6. DOMAIN r = 1..n-1
  <2>1. Len(a) + Len(b) = n - 1
    BY <1>1, <1>2, <1>3
  <2> QED
    BY <2>1, <1>5, LenProperties
<1>7. \A j \in DOMAIN r : at(j) \in DOMAIN s /\ at(j) # i /\ r[j] = s[at(j)]
  <2> SUFFICES ASSUME NEW j \in 1..n-1
               PROVE  at(j) \in 1..n /\ at(j) # i /\ r[j] = s[at(j)]
    BY <1>1, <1>6
  <2>1. CASE j < i
    BY <2>1, <1>1, <1>2, <1>3, <1>5
  <2>2. CASE ~(j < i)
    <3>1. ~(j <= i - 1) /\ j - (i - 1) \in 1..n-i /\ (j - (i - 1)) + i = j + 1
          /\ j \in 1..(i - 1) + (n - i)
      BY <2>2, <1>1
    <3>2. r[j] = b[j - (i - 1)]
      BY <3>1, <1>1, <1>2, <1>3, <1>5
    <3>3. b[j - (i - 1)] = s[(j - (i - 1)) + i]
      BY <3>1, <1>3
    <3>4. at(j) = j + 1 /\ j + 1 \in 1..n /\ j + 1 # i
      BY <2>2, <1>1
    <3>5. r[j] = s[j + 1]
      BY <3>1, <3>2, <3>3
    <3> QED
      BY <3>4, <3>5
  <2> QED
    BY <2>1, <2>2
<1>8. \A j, k \in DOMAIN r : at(j) = at(k) => j = k
  BY <1>1, <1>6
<1>9. \A j \in DOMAIN r : \E k \in DOMAIN s : k # i /\ r[j] = s[k]
  BY <1>7
<1> HIDE DEF at
<1>10. \A j, k \in DOMAIN r : r[j] = r[k] => j = k
  BY <1>7, <1>8
<1> QED
  BY <1>9, <1>10

\* An attempt on the mutex: the task is on the list when it sleeps, and off it
\* when it has the mutex.
LEMMA TryUsable ==
  ASSUME IdleInv, NEW t \in Task, NEW queue \in Seq(Task), Try(t, queue),
         op[t] \in {"write", "clear"}, op' = op, with_mutex, with_mutex',
         \A k \in DOMAIN queue : queue[k] = t \/ pc[queue[k]] = "asleep",
         \A j, k \in DOMAIN queue : queue[j] = queue[k] => j = k
  PROVE  Usable'
<1> USE DEF IdleInv, MemInv, TypeOK, Goto
<1>1. CASE cnt = 1
  <2>1. PICK i \in DOMAIN queue : queue[i] = t /\ wait_list' = RemoveAt(queue, i)
    BY <1>1 DEF Try
  <2>2. pc' = [pc EXCEPT ![t] = "use"]
    BY <1>1 DEF Try
  <2>3. /\ \A j \in DOMAIN wait_list' :
             \E k \in DOMAIN queue : k # i /\ wait_list'[j] = queue[k]
        /\ \A j, k \in DOMAIN wait_list' : wait_list'[j] = wait_list'[k] => j = k
    <3> DEFINE r == RemoveAt(queue, i)
    <3>1. /\ \A j \in DOMAIN r : \E k \in DOMAIN queue : k # i /\ r[j] = queue[k]
          /\ \A j, k \in DOMAIN r : r[j] = r[k] => j = k
      <4>1. i \in DOMAIN queue /\ queue \in Seq(Task)
        BY <2>1
      <4> HIDE DEF r
      <4>2. r = RemoveAt(queue, i)
        BY DEF r
      <4> QED
        BY ONLY <4>1, <4>2, RemoveAtOnce,
           \A j, k \in DOMAIN queue : queue[j] = queue[k] => j = k
    <3>2. wait_list' = r
      BY <2>1
    <3> QED
      BY <3>1, <3>2
  <2>4. \A j \in DOMAIN wait_list' : pc'[wait_list'[j]] = "asleep"
    BY <2>1, <2>2, <2>3
  <2>5. \A u \in Task : pc'[u] \in {"lock", "slow", "asleep"} =>
          op'[u] \in {"write", "clear"}
    BY <2>2 DEF Usable
  <2>6. Cause(t)'
    BY <2>2 DEF Cause, Owners
  <2> QED
    BY <2>3, <2>4, <2>5, <2>6 DEF Usable
<1>2. CASE cnt # 1
  <2>1. pc' = [pc EXCEPT ![t] = "asleep"] /\ wait_list' = queue
    BY <1>2 DEF Try
  <2>2. \A j \in DOMAIN wait_list' : pc'[wait_list'[j]] = "asleep"
    <3>1. \A j \in DOMAIN queue : queue[j] \in Task
      BY LenProperties
    <3> QED
      BY <2>1, <3>1
  <2>3. \A u \in Task : pc'[u] \in {"lock", "slow", "asleep"} =>
          op'[u] \in {"write", "clear"}
    BY <2>1 DEF Usable
  <2>4. Cause(t)'
    BY <2>1 DEF Cause
  <2> QED
    BY <2>1, <2>2, <2>3, <2>4 DEF Usable
<1> QED
  BY <1>1, <1>2

\* A step that is not about the mutex.
LEMMA ApartUsable ==
  ASSUME IdleInv, NEW t \in Task, ~Cause(t),
         cnt' = cnt, wait_list' = wait_list, with_mutex' = with_mutex,
         \A u \in Task : u # t => pc'[u] = pc[u] /\ op'[u] = op[u],
         pc'[t] \in {"lock", "slow", "asleep"} => op'[t] \in {"write", "clear"}
  PROVE  Usable'
<1> USE DEF IdleInv, MemInv, TypeOK
<1>1. \A u \in Task : Cause(u) => Cause(u)'
  BY DEF Cause, Owners
<1>2. \A i \in DOMAIN wait_list : wait_list[i] \in Task /\ wait_list[i] # t
  <2>1. \A i \in DOMAIN wait_list : wait_list[i] \in Task
    BY LenProperties
  <2> QED
    BY <2>1 DEF Usable, Cause
<1> QED
  BY <1>1, <1>2 DEF Usable

\* Every step leaves the mutex usable.
LEMMA UsableStep ==
  ASSUME IdleInv, NEW t \in Task, Call(t) \/ Step(t)
  PROVE  Usable'
<1> USE DEF Goto
<1>0. /\ TypeOK /\ Handling /\ Usable
      /\ wait_list \in Seq(Task) /\ pc \in [Task -> Labels] /\ op \in [Task -> Handlers]
      /\ cnt \in Int
  BY DEF IdleInv, MemInv, TypeOK
<1>1. CASE Lock(t)
  <2>1. /\ pc[t] = "lock" /\ cnt' = cnt - 1 /\ op' = op /\ wait_list' = wait_list
        /\ with_mutex' = with_mutex
        /\ pc' = [pc EXCEPT ![t] = IF cnt > 0 THEN "use" ELSE "slow"]
    BY <1>1 DEF Lock, local
  <2>2. op[t] \in {"write", "clear"} /\ with_mutex
    BY <1>0, <2>1 DEF Usable, Handling
  <2>3. Cause(t)'
    BY <1>0, <2>1, <2>2 DEF Cause, Owners
  <2>4. \A i \in DOMAIN wait_list : wait_list[i] # t
    BY <1>0, <2>1 DEF Usable
  <2>5. \A i \in DOMAIN wait_list : pc'[wait_list[i]] = "asleep"
    <3>1. \A i \in DOMAIN wait_list : wait_list[i] \in Task
      BY <1>0, LenProperties
    <3> QED
      BY <1>0, <2>1, <2>4, <3>1 DEF Usable
  <2>6. \A u \in Task : pc'[u] \in {"lock", "slow", "asleep"} =>
          op'[u] \in {"write", "clear"}
    BY <1>0, <2>1, <2>2 DEF Usable
  <2> QED
    BY <1>0, <2>1, <2>3, <2>5, <2>6 DEF Usable
<1>2. CASE LockSlow(t)
  <2>1. /\ pc[t] = "slow" /\ op' = op /\ with_mutex' = with_mutex
    BY <1>2 DEF LockSlow, local
  <2>2. op[t] \in {"write", "clear"} /\ with_mutex
    BY <1>0, <2>1 DEF Usable, Handling
  <2>3. \A i \in DOMAIN wait_list : wait_list[i] # t /\ wait_list[i] \in Task
    <3>1. \A i \in DOMAIN wait_list : wait_list[i] \in Task
      BY <1>0, LenProperties
    <3> QED
      BY <1>0, <2>1, <3>1 DEF Usable
  <2>4. CASE Try(t, Append(wait_list, t))
    <3> DEFINE q == Append(wait_list, t)
    <3>1. /\ q \in Seq(Task) /\ DOMAIN q = 1..Len(wait_list) + 1
          /\ Len(wait_list) \in Nat /\ DOMAIN wait_list = 1..Len(wait_list)
          /\ q[Len(wait_list) + 1] = t
          /\ \A k \in 1..Len(wait_list) : q[k] = wait_list[k]
      BY <1>0, LenProperties
    <3>2. \A k \in DOMAIN q : k \in DOMAIN wait_list \/ k = Len(wait_list) + 1
      BY <3>1
    <3> HIDE DEF q
    <3>3. \A k \in DOMAIN q : q[k] = t \/ pc[q[k]] = "asleep"
      BY <1>0, <3>1, <3>2 DEF Usable
    <3>4. \A j, k \in DOMAIN q : q[j] = q[k] => j = k
      BY <1>0, <2>3, <3>1, <3>2 DEF Usable
    <3> QED
      BY <2>1, <2>2, <2>4, <3>1, <3>3, <3>4, TryUsable DEF q
  <2>5. CASE ~Try(t, Append(wait_list, t))
    <3>1. /\ pc' = [pc EXCEPT ![t] = "use"] /\ wait_list' = wait_list
      BY <1>2, <2>5 DEF LockSlow
    <3>2. Cause(t)'
      BY <1>0, <2>1, <2>2, <3>1 DEF Cause, Owners
    <3>3. \A u \in Task : pc'[u] \in {"lock", "slow", "asleep"} =>
            op'[u] \in {"write", "clear"}
      BY <1>0, <2>1, <3>1 DEF Usable
    <3>4. \A i \in DOMAIN wait_list : pc'[wait_list[i]] = "asleep"
      BY <1>0, <2>3, <3>1 DEF Usable
    <3> QED
      BY <1>0, <3>1, <3>2, <3>3, <3>4 DEF Usable
  <2> QED
    BY <2>4, <2>5
<1>3. CASE LockRetry(t)
  <2>1. /\ pc[t] = "asleep" /\ op' = op /\ with_mutex' = with_mutex
        /\ Try(t, wait_list)
    BY <1>3 DEF LockRetry, local
  <2>2. op[t] \in {"write", "clear"} /\ with_mutex
    BY <1>0, <2>1 DEF Usable, Handling
  <2> QED
    BY <1>0, <2>1, <2>2, TryUsable DEF Usable
<1>4. CASE Copy(t)
  <2>1. /\ pc[t] = "use" /\ op' = op /\ with_mutex' = with_mutex /\ cnt' = cnt
        /\ wait_list' = wait_list /\ pc' = [pc EXCEPT ![t] = "unlock"]
    BY <1>4 DEF Copy, mutex
  <2>2. \A u \in Task : Cause(u) => Cause(u)'
    BY <1>0, <2>1 DEF Cause, Owners
  <2>3. \A i \in DOMAIN wait_list : wait_list[i] # t /\ wait_list[i] \in Task
    <3>1. \A i \in DOMAIN wait_list : wait_list[i] \in Task
      BY <1>0, LenProperties
    <3> QED
      BY <1>0, <2>1, <3>1 DEF Usable
  <2>4. \A u \in Task : pc'[u] \in {"lock", "slow", "asleep"} =>
          op'[u] \in {"write", "clear"}
    BY <1>0, <2>1 DEF Usable
  <2> QED
    BY <1>0, <2>1, <2>2, <2>3, <2>4 DEF Usable
<1>5. CASE Unlock(t) \/ UnlockSlow(t)
  <2>1. /\ pc[t] \in {"unlock", "wake"} /\ wait_list' = wait_list
        /\ with_mutex' = with_mutex
        /\ \A u \in Task : u # t => pc'[u] = pc[u] /\ op'[u] = op[u]
        /\ pc'[t] \in {"idle", "pos", "wake"}
        /\ cnt' > 0 \/ pc'[t] = "wake"
    BY <1>0, <1>5 DEF Unlock, UnlockSlow, AfterUnlock, Return, local
  <2>2. cnt' <= 0 => Cause(t)'
    <3>1. cnt' \in Int
      BY <1>0, <1>5 DEF Unlock, UnlockSlow
    <3> QED
      BY <2>1, <3>1 DEF Cause
  <2>3. \A i \in DOMAIN wait_list : wait_list[i] # t /\ wait_list[i] \in Task
    <3>1. \A i \in DOMAIN wait_list : wait_list[i] \in Task
      BY <1>0, LenProperties
    <3> QED
      BY <1>0, <2>1, <3>1 DEF Usable
  <2> QED
    BY <1>0, <2>1, <2>2, <2>3 DEF Usable
\* The other steps.
<1>6. CASE \/ Read(t) \/ Write(t) \/ Ioctl(t) \/ SeekCur(t) \/ StorePos(t)
           \/ SeekAdd(t) \/ CopyPlain(t)
  <2>1. /\ cnt' = cnt /\ wait_list' = wait_list /\ with_mutex' = with_mutex
        /\ \A u \in Task : u # t => pc'[u] = pc[u] /\ op'[u] = op[u]
    BY <1>0, <1>6 DEF Read, Write, Begin, Ioctl, SeekCur, StorePos, SeekAdd, CopyPlain,
       Return, mutex
  <2>2. pc[t] \in {"idle", "pos", "add"} \/ (pc[t] = "use" /\ ~with_mutex)
    BY <1>6 DEF Read, Write, Begin, Ioctl, SeekCur, StorePos, SeekAdd, CopyPlain
  <2>3. ~Cause(t)
    BY <2>2 DEF Cause, Owners
  <2>4. pc'[t] \in {"lock", "slow", "asleep"} => op'[t] \in {"write", "clear"}
    BY <1>0, <1>6 DEF Read, Write, Begin, Ioctl, SeekCur, StorePos, SeekAdd, CopyPlain,
       Return, Enter
  <2> QED
    BY <2>1, <2>3, <2>4, ApartUsable
<1>7. CASE SeekSet(t)
  <2>1. /\ cnt' = cnt /\ wait_list' = wait_list /\ with_mutex' = with_mutex
        /\ pc' = pc /\ op' = op /\ pc[t] = "idle"
    BY <1>7 DEF SeekSet, mutex, local
  <2>2. ~Cause(t)
    BY <2>1 DEF Cause, Owners
  <2> QED
    BY <2>1, <2>2, ApartUsable
<1> QED
  BY <1>1, <1>2, <1>3, <1>4, <1>5, <1>6, <1>7 DEF Call, Step

-----------------------------------------------------------------------------
(* The theorems *)

LEMMA StutterInv ==
  ASSUME MemInv, UNCHANGED vars
  PROVE  MemInv'
<1> USE DEF MemInv, vars, mutex, local
<1>1. TypeOK'
  BY DEF TypeOK
<1>2. Handling' /\ Ranges'
  BY DEF Handling, Ranges, Alone
<1>3. Permits'
  BY DEF Permits, Free, Owners, Wakers
<1> QED
  BY <1>1, <1>2, <1>3

\* MemInv is inductive.
THEOREM MemInvariant == Spec => []MemInv
<1>1. MemInv /\ [Next]_vars => MemInv'
  <2> SUFFICES ASSUME MemInv, [Next]_vars PROVE MemInv'
    OBVIOUS
  <2>1. CASE UNCHANGED vars
    BY <2>1, StutterInv
  <2>2. ASSUME NEW t \in Task, Call(t) \/ Step(t)
        PROVE  MemInv'
    BY <2>2, TypeStep, HandlingStep, RangesStep, PermitsStep DEF MemInv
  <2> QED
    BY <2>1, <2>2 DEF Next
<1> QED
  BY <1>1, InitInv, PTL DEF Spec

\* The model is well typed, and no count exceeds the memory.
THEOREM MemTypeCorrect == Spec => []TypeOK
<1>1. MemInv => TypeOK
  BY DEF MemInv
<1> QED
  BY <1>1, MemInvariant, PTL

\* globalmem_read and globalmem_write copy inside dev->mem, however the tasks
\* that share an open file race on its position.
THEOREM CopiesStayInside == Spec => []InBounds
<1>1. MemInv => InBounds
  BY MemAssumption DEF MemInv, TypeOK, Ranges, InBounds
<1> QED
  BY <1>1, MemInvariant, PTL

\* llseek, read and write keep the position of a file that one task uses
\* inside the memory, or just behind it.
THEOREM PositionsStayInside == Spec => []PosInRange
<1>1. MemInv => PosInRange
  BY DEF MemInv, Ranges, PosInRange
<1> QED
  BY <1>1, MemInvariant, PTL

\* The unlock without a lock in globalmem_read lets in at most one more task
\* each time: without it write and MEM_CLEAR exclude each other.
THEOREM ReadsAdmitWriters == Spec => []OwnersBounded
<1>1. MemInv => OwnersBounded
  <2> SUFFICES ASSUME MemInv PROVE OwnersBounded
    OBVIOUS
  <2>1. Free \in Nat /\ reads \in Nat
    BY DEF MemInv, TypeOK, Free
  <2> QED
    BY <2>1, Sizes DEF MemInv, Permits, OwnersBounded
<1> QED
  BY <1>1, MemInvariant, PTL

\* When no call is under way dev->mutex can be locked: what the error paths and
\* the unlocks of read did to it has not made it unusable.
THEOREM IdleMutexIsFree == Spec => []FreeWhenIdle
<1>1. Init => Usable
  BY DEF Init, Usable
<1>2. IdleInv /\ [Next]_vars => IdleInv'
  <2> SUFFICES ASSUME IdleInv, [Next]_vars PROVE IdleInv'
    OBVIOUS
  <2>1. CASE UNCHANGED vars
    <3>1. MemInv'
      BY <2>1, StutterInv DEF IdleInv
    <3>2. Usable'
      BY <2>1 DEF IdleInv, Usable, Cause, Owners, vars, mutex, local
    <3> QED
      BY <3>1, <3>2 DEF IdleInv
  <2>2. ASSUME NEW t \in Task, Call(t) \/ Step(t)
        PROVE  IdleInv'
    <3>1. MemInv'
      BY <2>2, TypeStep, HandlingStep, RangesStep, PermitsStep DEF IdleInv, MemInv
    <3>2. Usable'
      BY <2>2, UsableStep
    <3> QED
      BY <3>1, <3>2 DEF IdleInv
  <2> QED
    BY <2>1, <2>2 DEF Next
<1>3. Init => IdleInv
  BY <1>1, InitInv DEF IdleInv
<1>4. IdleInv => FreeWhenIdle
  <2> SUFFICES ASSUME IdleInv, \A t \in Task : pc[t] = "idle"
               PROVE  cnt \in 1..1 + reads /\ wait_list = <<>>
    BY DEF FreeWhenIdle
  <2>0. wait_list \in Seq(Task) /\ cnt \in Int /\ reads \in Nat
    BY DEF IdleInv, MemInv, TypeOK
  <2>1. cnt > 0
    BY <2>0 DEF IdleInv, Usable, Cause, Owners
  <2>2. cnt <= 1 + reads
    <3>1. Free = cnt
      BY <2>1 DEF Free
    <3>2. Cardinality(Owners) \in Nat /\ Cardinality(Wakers) \in Nat
      BY Sizes DEF IdleInv, MemInv
    <3> QED
      BY <2>0, <3>1, <3>2 DEF IdleInv, MemInv, Permits
  <2>3. \A i \in DOMAIN wait_list : FALSE
    <3>1. \A i \in DOMAIN wait_list : wait_list[i] \in Task
      BY <2>0, LenProperties
    <3> QED
      BY <3>1 DEF IdleInv, Usable
  <2>4. wait_list = <<>>
    <3>1. Len(wait_list) \in Nat /\ DOMAIN wait_list = 1..Len(wait_list)
      BY <2>0, LenProperties
    <3>2. Len(wait_list) = 0
      BY <2>3, <3>1
    <3> QED
      BY <2>0, <3>2, EmptySeq
  <2> QED
    BY <2>0, <2>1, <2>2, <2>4
<1> QED
  BY <1>2, <1>3, <1>4, PTL DEF Spec

==============================================================================
