-------------------------- MODULE FifoProgramsProofs --------------------------
(***************************************************************************)
(* What is proved of the programs that use globalfifo, for any number of   *)
(* processes, any cast of programs and any sizes.                          *)
(*                                                                         *)
(* That no data is forgotten in epoll_wait rests on Announced: data in the *)
(* fifo is on the ready list or among the events at hand, wherever the     *)
(* program is.  That epoll.c and event-exam.c sleep in read only when      *)
(* robbed rests on who can empty the fifo between an event and its read.   *)
(***************************************************************************)
EXTENDS FifoPrograms, TLAPS

\* Data in the fifo was announced to every program that watches it.
Announced == \A p \in Proc :
  "fifo" \in watch[p] /\ len # 0 => "fifo" \in ready[p] \union todo[p]

\* The event that a loop has at hand is true, or others have taken the data;
\* and a loop sleeps only in the read of such an event, for want of data.
Truthful == \A p \in Proc : prog[p] \in Loops =>
  /\ "fifo" \in todo[p] => len # 0 \/ p \in robbed
  /\ asleep[p] # "none" =>
       asleep[p] = "r_wait" /\ len = 0 /\ "fifo" \in todo[p]

\* sigio.c sets its handler first, then the owner, then FASYNC.
Armed == \A p \in Proc :
  /\ pc[p] \in {"setown", "fasync", "sleep"} => p \in handler
  /\ pc[p] \in {"fasync", "sleep"} => p \in owner
  /\ pc[p] = "sleep" /\ driver = "ch9" => p \in async_queue
  /\ p \in owner \union pending => p \in handler
  /\ pc[p] # "killed"

\* A writer or a reader opens nothing.
Opening == \A p \in Proc :
  pc[p] = "open" => prog[p] \notin {"writer", "reader"}

FullInv == TypeOK /\ Announced /\ Truthful /\ Armed /\ Opening

-----------------------------------------------------------------------------

\* The labels used as arguments of Goto.
LEMMA KnownLabels ==
  /\ "add" \in Label /\ "addside" \in Label /\ "wait" \in Label
  /\ "handle" \in Label /\ "clear" \in Label /\ "select" \in Label
  /\ "signal" \in Label /\ "setown" \in Label /\ "fasync" \in Label
  /\ "sleep" \in Label /\ "use" \in Label /\ "exited" \in Label
  /\ "killed" \in Label /\ "open" \in Label
  BY DEF Label

\* Cut(count, room) is the smaller of the two.
LEMMA CutBounds ==
  ASSUME NEW count \in Nat, NEW room \in Nat
  PROVE  Cut(count, room) \in 0 .. room
  BY DEF Cut

\* The programs start in their types, with nothing to tell.
LEMMA InitInv == Init => FullInv
<1> SUFFICES ASSUME Init PROVE FullInv
  OBVIOUS
<1> USE DEF Init, FifoInit, AsyncInit
<1>1. TypeOK
  BY ProgramsAssumption, KnownLabels DEF TypeOK, FifoType, AsyncType
<1>2. Announced /\ Truthful /\ Armed /\ Opening
  BY DEF Announced, Truthful, Armed, Opening
<1> QED
  BY <1>1, <1>2 DEF FullInv

\* What a read and a write do to the fifo, with the numbers in range.
LEMMA ReadStep ==
  ASSUME FifoType, NEW p \in Proc, NEW n \in Nat, Read(p, n)
  PROVE  /\ len' \in 0 .. len /\ watch' = watch
         /\ len = 0 => /\ asleep' = [asleep EXCEPT ![p] = "r_wait"]
                       /\ len' = 0 /\ ready' = ready
         /\ len # 0 =>
              /\ asleep' = [q \in Proc |->
                   IF asleep[q] = "w_wait" THEN "none" ELSE asleep[q]]
              /\ ready' = [q \in Proc |->
                   ready[q] \union {t \in {"fifo"} : t \in watch[q]}]
<1>1. len \in Nat /\ Cut(n, len) \in 0 .. len
  BY ProgramsAssumption, CutBounds DEF FifoType
<1> QED
  BY <1>1 DEF Read, Sleep, Wake, PollQueues

\* The same for a write.
LEMMA WriteStep ==
  ASSUME FifoType, NEW p \in Proc, NEW n \in Nat, Write(p, n)
  PROVE  /\ len' \in len .. GLOBALFIFO_SIZE /\ watch' = watch
         /\ \/ /\ asleep' = [asleep EXCEPT ![p] = "w_wait"]
               /\ len' = len /\ ready' = ready
            \/ /\ asleep' = [q \in Proc |->
                    IF asleep[q] = "r_wait" THEN "none" ELSE asleep[q]]
               /\ ready' = [q \in Proc |->
                    ready[q] \union {t \in {"fifo"} : t \in watch[q]}]
<1>1. len \in Nat /\ GLOBALFIFO_SIZE - len \in Nat
  BY ProgramsAssumption DEF FifoType
<1>2. Cut(n, GLOBALFIFO_SIZE - len) \in 0 .. (GLOBALFIFO_SIZE - len)
  BY <1>1, CutBounds
<1> QED
  BY <1>1, <1>2, ProgramsAssumption DEF Write, Sleep, Wake, PollQueues

\* An amount that is read is a positive number.
LEMMA Amounts ==
  ASSUME NEW p \in Proc
  PROVE  Amount(p) \in Nat
  BY ProgramsAssumption DEF Amount

\* Every step keeps the types.
LEMMA TypeStep ==
  ASSUME FullInv, NEW p \in Proc,
         \/ Program(p) \/ WaitOnce(p) \/ WriterWrites(p)
         \/ ReaderReads(p) \/ SideWrite(p)
  PROVE  TypeOK'
<1>a. \A q \in Proc : (pc[q] = "handle") = (todo[q] # {})
  BY DEF FullInv, TypeOK
<1>p. prog[p] \in Programs
  BY ProgramsAssumption DEF FullInv, TypeOK
<1> USE KnownLabels, ProgramsAssumption DEF FullInv, TypeOK, FifoType,
   AsyncType,
      Goto, At, fifo, async, local
<1>1. CASE OpenFifo(p)
  <2>1. FirstLabel(p) \in Label /\ FirstLabel(p) # "handle"
    BY <1>1, <1>p DEF OpenFifo, FirstLabel, Opening, Programs, Loops
  <2> QED
    BY <1>1, <2>1 DEF OpenFifo
<1>2. CASE ClearFifo(p)
  BY <1>2 DEF ClearFifo, Clear, Robs
<1>3. CASE AddFifo(p)
  BY <1>3 DEF AddFifo, Add
<1>4. CASE AddSide(p)
  BY <1>4 DEF AddSide
<1>5. CASE Wait(p)
  BY <1>5 DEF Wait, Available, Kept
<1>6. CASE ReadFifo(p)
  <2>1. Read(p, Amount(p)) /\ Robs(p)
    BY <1>6 DEF ReadFifo
  <2>2. Amount(p) \in Nat
    BY Amounts
  <2>3. FifoType'
    <3>1. /\ len' \in 0 .. GLOBALFIFO_SIZE
          /\ asleep' \in [Proc -> Queue \union {"none"}] /\ watch' = watch
      BY <2>1, <2>2, ReadStep DEF Queue
    <3>2. ready' \in [Proc -> SUBSET {"fifo", "side"}]
      BY <2>1, <2>2, ReadStep
    <3> QED
      BY <3>1, <3>2
  <2>4. AsyncType'
    BY <1>6, <2>1 DEF ReadFifo, WriteSignals
  <2>5. robbed' \subseteq Proc
    BY <2>1 DEF Robs
  <2>6. /\ todo' \in [Proc -> SUBSET {"fifo", "side"}] /\ pc' \in [Proc -> Label]
        /\ \A q \in Proc : (pc'[q] = "handle") = (todo'[q] # {})
    <3>1. CASE len = 0
      BY <1>6, <3>1 DEF ReadFifo
    <3>2. CASE len # 0
      <4>1. /\ todo' = [todo EXCEPT ![p] = @ \ {"fifo"}]
            /\ pc' = [pc EXCEPT ![p] = IF todo[p] = {"fifo"} THEN "wait" ELSE "handle"]
            /\ "fifo" \in todo[p]
        BY <1>6, <3>2 DEF ReadFifo, Done
      <4>2. (pc'[p] = "handle") = (todo'[p] # {})
        BY <4>1
      <4> QED
        BY <4>1, <4>2, <1>a
    <3> QED
      BY <3>1, <3>2
  <2> QED
    BY <1>6, <2>3, <2>4, <2>5, <2>6 DEF ReadFifo
<1>7. CASE ReadSide(p)
  <2>1. side' \in [Proc -> 0 .. 2]
    <3>1. side[p] \in Nat /\ side[p] \in 0 .. 2
      OBVIOUS
    <3>2. Cut(Amount(p), side[p]) \in 0 .. side[p]
      BY <3>1, Amounts, CutBounds
    <3> QED
      BY <1>7, <3>1, <3>2 DEF ReadSide
  <2>2. CASE side[p] = 0 /\ prog[p] = "event"
    <3>1. (pc'[p] = "handle") = (todo'[p] # {})
      BY <1>7, <2>2 DEF ReadSide
    <3> QED
      BY <1>7, <2>1, <2>2, <3>1, <1>a DEF ReadSide
  <2>3. CASE ~(side[p] = 0 /\ prog[p] = "event")
    <3>1. /\ todo' = [todo EXCEPT ![p] = @ \ {"side"}]
          /\ pc' = [pc EXCEPT ![p] = IF todo[p] = {"side"} THEN "wait" ELSE "handle"]
          /\ "side" \in todo[p]
      BY <1>7, <2>3 DEF ReadSide, Done
    <3>2. (pc'[p] = "handle") = (todo'[p] # {})
      BY <3>1
    <3> QED
      BY <1>7, <2>1, <2>3, <3>1, <3>2, <1>a DEF ReadSide
  <2> QED
    BY <2>2, <2>3
<1>8. CASE Signal(p)
  BY <1>8 DEF Signal
<1>9. CASE SetOwner(p)
  BY <1>9 DEF SetOwner, SetOwn
<1>10. CASE SetFasync(p)
  BY <1>10 DEF SetFasync, Fasync
<1>11. CASE Sigio(p)
  <2>1. p \in handler
    BY <1>11 DEF Sigio, Armed
  <2> QED
    BY <1>11, <2>1 DEF Sigio
<1>12. CASE WaitOnce(p)
  BY <1>12 DEF WaitOnce
<1>13. CASE WriterWrites(p)
  <2>1. PICK n \in 1 .. MaxWrite : WriteSignals(p, n)
    BY <1>13 DEF WriterWrites
  <2>2. n \in Nat /\ Write(p, n)
    BY <2>1 DEF WriteSignals
  <2>3. FifoType'
    <3>1. /\ len' \in 0 .. GLOBALFIFO_SIZE
          /\ asleep' \in [Proc -> Queue \union {"none"}] /\ watch' = watch
      BY <2>1, <2>2, WriteStep DEF Queue
    <3>2. ready' \in [Proc -> SUBSET {"fifo", "side"}]
      BY <2>1, <2>2, WriteStep
    <3> QED
      BY <3>1, <3>2
  <2>4. AsyncType'
    BY <1>13, <2>1 DEF WriterWrites, WriteSignals
  <2> QED
    BY <1>13, <2>3, <2>4 DEF WriterWrites
<1>14. CASE ReaderReads(p)
  <2>1. PICK n \in 1 .. MaxWrite : Read(p, n) /\ Robs(p)
    BY <1>14 DEF ReaderReads
  <2>2. n \in Nat
    OBVIOUS
  <2>3. FifoType'
    <3>1. /\ len' \in 0 .. GLOBALFIFO_SIZE
          /\ asleep' \in [Proc -> Queue \union {"none"}] /\ watch' = watch
      BY <2>1, <2>2, ReadStep DEF Queue
    <3>2. ready' \in [Proc -> SUBSET {"fifo", "side"}]
      BY <2>1, <2>2, ReadStep
    <3> QED
      BY <3>1, <3>2
  <2>4. AsyncType'
    BY <1>14, <2>1 DEF ReaderReads, WriteSignals
  <2> QED
    BY <1>14, <2>1, <2>3, <2>4 DEF ReaderReads, Robs
<1>15. CASE SideWrite(p)
  BY <1>15 DEF SideWrite
<1> QED
  BY <1>1, <1>2, <1>3, <1>4, <1>5, <1>6, <1>7, <1>8, <1>9, <1>10, <1>11,
     <1>12, <1>13, <1>14, <1>15 DEF Program

\* Data stays announced.
LEMMA AnnouncedStep ==
  ASSUME FullInv, NEW p \in Proc,
         \/ Program(p) \/ WaitOnce(p) \/ WriterWrites(p)
         \/ ReaderReads(p) \/ SideWrite(p)
  PROVE  Announced'
<1>t. TypeOK /\ Announced
  BY ProgramsAssumption DEF FullInv, TypeOK
<1> USE <1>t DEF TypeOK, FifoType, AsyncType, Goto, At, fifo, async, local
<1>1. CASE OpenFifo(p)
  BY <1>1 DEF OpenFifo, Announced, Mask, SideReady
<1>2. CASE ClearFifo(p)
  BY <1>2 DEF ClearFifo, Clear, Robs, Announced, Mask, SideReady
<1>3. CASE AddFifo(p)
  BY <1>3 DEF AddFifo, Add, Announced, Mask, SideReady
<1>4. CASE AddSide(p)
  BY <1>4 DEF AddSide, Announced, Mask, SideReady
<1>5. CASE Wait(p)
  BY <1>5 DEF Wait, Available, Kept, Announced, Mask, SideReady
<1>6. CASE ReadFifo(p)
  BY <1>6, ReadStep, Amounts DEF ReadFifo, Robs, Done, Announced, Mask,
     SideReady
<1>7. CASE ReadSide(p)
  BY <1>7 DEF ReadSide, Done, Announced, Mask, SideReady
<1>8. CASE Signal(p)
  BY <1>8 DEF Signal, Announced, Mask, SideReady
<1>9. CASE SetOwner(p)
  BY <1>9 DEF SetOwner, SetOwn, Announced, Mask, SideReady
<1>10. CASE SetFasync(p)
  BY <1>10 DEF SetFasync, Fasync, Announced, Mask, SideReady
<1>11. CASE Sigio(p)
  BY <1>11 DEF Sigio, Announced, Mask, SideReady
<1>12. CASE WaitOnce(p)
  BY <1>12 DEF WaitOnce, Announced, Mask, SideReady
<1>13. CASE WriterWrites(p)
  <2>1. PICK n \in 1 .. MaxWrite : WriteSignals(p, n)
    BY <1>13 DEF WriterWrites
  <2>2. n \in Nat /\ Write(p, n)
    BY <2>1, ProgramsAssumption DEF WriteSignals
  <2> QED
    BY <1>13, <2>1, <2>2, WriteStep DEF WriterWrites, WriteSignals, local,
       Announced
<1>14. CASE ReaderReads(p)
  <2>1. PICK n \in 1 .. MaxWrite : Read(p, n) /\ Robs(p)
    BY <1>14 DEF ReaderReads
  <2>2. n \in Nat
    BY ProgramsAssumption
  <2> QED
    BY <1>14, <2>1, <2>2, ReadStep DEF ReaderReads, Robs, Announced
<1>15. CASE SideWrite(p)
  BY <1>15 DEF SideWrite, Announced, Mask, SideReady
<1> QED
  BY <1>1, <1>2, <1>3, <1>4, <1>5, <1>6, <1>7, <1>8, <1>9, <1>10, <1>11,
     <1>12, <1>13, <1>14, <1>15 DEF Program

\* Events stay true, or somebody has robbed.
LEMMA TruthfulStep ==
  ASSUME FullInv, NEW p \in Proc,
         \/ Program(p) \/ WaitOnce(p) \/ WriterWrites(p)
         \/ ReaderReads(p) \/ SideWrite(p)
  PROVE  Truthful'
<1>t. TypeOK /\ Truthful
  BY ProgramsAssumption DEF FullInv, TypeOK
<1> USE <1>t DEF TypeOK, FifoType, AsyncType, Goto, At, fifo, async, local
<1>1. CASE OpenFifo(p)
  BY <1>1 DEF OpenFifo, Truthful, Mask, SideReady, Loops
<1>2. CASE ClearFifo(p)
  BY <1>2 DEF ClearFifo, Clear, Robs, Truthful, Mask, SideReady, Loops
<1>3. CASE AddFifo(p)
  BY <1>3 DEF AddFifo, Add, Truthful, Mask, SideReady, Loops
<1>4. CASE AddSide(p)
  BY <1>4 DEF AddSide, Truthful, Mask, SideReady, Loops
<1>5. CASE Wait(p)
  BY <1>5 DEF Wait, Available, Kept, Truthful, Mask, SideReady, Loops
<1>6. CASE ReadFifo(p)
  BY <1>6, ReadStep, Amounts DEF ReadFifo, Robs, Done, Truthful, Mask,
     SideReady, Loops
<1>7. CASE ReadSide(p)
  BY <1>7 DEF ReadSide, Done, Truthful, Mask, SideReady, Loops
<1>8. CASE Signal(p)
  BY <1>8 DEF Signal, Truthful, Mask, SideReady, Loops
<1>9. CASE SetOwner(p)
  BY <1>9 DEF SetOwner, SetOwn, Truthful, Mask, SideReady, Loops
<1>10. CASE SetFasync(p)
  BY <1>10 DEF SetFasync, Fasync, Truthful, Mask, SideReady, Loops
<1>11. CASE Sigio(p)
  BY <1>11 DEF Sigio, Truthful, Mask, SideReady, Loops
<1>12. CASE WaitOnce(p)
  BY <1>12 DEF WaitOnce, Truthful, Mask, SideReady, Loops
<1>13. CASE WriterWrites(p)
  <2>1. PICK n \in 1 .. MaxWrite : WriteSignals(p, n)
    BY <1>13 DEF WriterWrites
  <2>2. n \in Nat /\ Write(p, n)
    BY <2>1, ProgramsAssumption DEF WriteSignals
  <2> QED
    BY <1>13, <2>1, <2>2, WriteStep DEF WriterWrites, WriteSignals, local,
       Truthful, Loops
<1>14. CASE ReaderReads(p)
  <2>1. PICK n \in 1 .. MaxWrite : Read(p, n) /\ Robs(p)
    BY <1>14 DEF ReaderReads
  <2>2. n \in Nat
    BY ProgramsAssumption
  <2> QED
    BY <1>14, <2>1, <2>2, ReadStep DEF ReaderReads, Robs, Truthful, Loops
<1>15. CASE SideWrite(p)
  BY <1>15 DEF SideWrite, Truthful, Mask, SideReady, Loops
<1> QED
  BY <1>1, <1>2, <1>3, <1>4, <1>5, <1>6, <1>7, <1>8, <1>9, <1>10, <1>11,
     <1>12, <1>13, <1>14, <1>15 DEF Program

\* The order in which sigio.c arms itself is kept.
LEMMA ArmedStep ==
  ASSUME FullInv, NEW p \in Proc,
         \/ Program(p) \/ WaitOnce(p) \/ WriterWrites(p)
         \/ ReaderReads(p) \/ SideWrite(p)
  PROVE  Armed' /\ Opening'
<1>t. TypeOK /\ Armed /\ Opening /\ prog[p] \in Programs
  BY ProgramsAssumption DEF FullInv, TypeOK
<1> USE <1>t DEF TypeOK, FifoType, AsyncType, Goto, At, fifo, async, local
<1>1. CASE OpenFifo(p)
  BY <1>1 DEF OpenFifo, Armed, Opening, Programs, Loops, FirstLabel
<1>2. CASE ClearFifo(p)
  BY <1>2 DEF ClearFifo, Clear, Robs, Armed, Opening, Programs, Loops,
     FirstLabel
<1>3. CASE AddFifo(p)
  BY <1>3 DEF AddFifo, Add, Armed, Opening, Programs, Loops, FirstLabel
<1>4. CASE AddSide(p)
  BY <1>4 DEF AddSide, Armed, Opening, Programs, Loops, FirstLabel
<1>5. CASE Wait(p)
  BY <1>5 DEF Wait, Available, Kept, Armed, Opening, Programs, Loops,
     FirstLabel
<1>6. CASE ReadFifo(p)
  BY <1>6, ReadStep, Amounts DEF ReadFifo, Robs, Done, Armed, Opening,
     Programs, Loops, FirstLabel
<1>7. CASE ReadSide(p)
  BY <1>7 DEF ReadSide, Done, Armed, Opening, Programs, Loops, FirstLabel
<1>8. CASE Signal(p)
  BY <1>8 DEF Signal, Armed, Opening, Programs, Loops, FirstLabel
<1>9. CASE SetOwner(p)
  BY <1>9 DEF SetOwner, SetOwn, Armed, Opening, Programs, Loops, FirstLabel
<1>10. CASE SetFasync(p)
  BY <1>10 DEF SetFasync, Fasync, Armed, Opening, Programs, Loops, FirstLabel
<1>11. CASE Sigio(p)
  BY <1>11 DEF Sigio, Armed, Opening, Programs, Loops, FirstLabel
<1>12. CASE WaitOnce(p)
  BY <1>12 DEF WaitOnce, Armed, Opening, Programs, Loops, FirstLabel
<1>13. CASE WriterWrites(p)
  <2>1. PICK n \in 1 .. MaxWrite : WriteSignals(p, n)
    BY <1>13 DEF WriterWrites
  <2>2. n \in Nat /\ Write(p, n)
    BY <2>1, ProgramsAssumption DEF WriteSignals
  <2> QED
    BY <1>13, <2>1, <2>2, WriteStep DEF WriterWrites, WriteSignals, local,
       Armed, Opening
<1>14. CASE ReaderReads(p)
  <2>1. PICK n \in 1 .. MaxWrite : Read(p, n) /\ Robs(p)
    BY <1>14 DEF ReaderReads
  <2>2. n \in Nat
    BY ProgramsAssumption
  <2> QED
    BY <1>14, <2>1, <2>2, ReadStep DEF ReaderReads, Robs, Armed, Opening
<1>15. CASE SideWrite(p)
  BY <1>15 DEF SideWrite, Armed, Opening, Programs, Loops, FirstLabel
<1> QED
  BY <1>1, <1>2, <1>3, <1>4, <1>5, <1>6, <1>7, <1>8, <1>9, <1>10, <1>11,
     <1>12, <1>13, <1>14, <1>15 DEF Program

\* Every step keeps the invariant.
LEMMA InvStep == FullInv /\ [Next]_vars => FullInv'
<1> SUFFICES ASSUME FullInv, [Next]_vars PROVE FullInv'
  OBVIOUS
<1>1. CASE Next
  <2>1. PICK p \in Proc : \/ Program(p) \/ WaitOnce(p) \/ WriterWrites(p)
                         \/ ReaderReads(p) \/ SideWrite(p)
    BY <1>1 DEF Next
  <2> QED
    BY <2>1, TypeStep, AnnouncedStep, TruthfulStep, ArmedStep DEF FullInv
<1>2. CASE UNCHANGED vars
  BY <1>2 DEF vars, fifo, async, local, FullInv, TypeOK, FifoType, AsyncType,
    Announced, Truthful, Armed, Opening
<1> QED
  BY <1>1, <1>2

\* What is in the fifo grows by writes alone.
LEMMA OnlyWritersStore ==
  ASSUME FullInv, NEW p \in Proc, len' > len,
         \/ Program(p) \/ WaitOnce(p) \/ WriterWrites(p)
         \/ ReaderReads(p) \/ SideWrite(p)
  PROVE  WriterWrites(p)
<1>1. FifoType /\ len \in Nat /\ ~(len' = len)
  BY ProgramsAssumption DEF FullInv, TypeOK, FifoType
<1>2. CASE ReadFifo(p)
  <2>1. len' \in 0 .. len
    BY <1>1, <1>2, Amounts, ReadStep DEF ReadFifo
  <2> QED
    BY <1>1, <2>1
<1>3. CASE ReaderReads(p)
  <2>1. PICK n \in 1 .. MaxWrite : Read(p, n)
    BY <1>3 DEF ReaderReads
  <2>2. len' \in 0 .. len
    BY <1>1, <2>1, ReadStep, ProgramsAssumption
  <2> QED
    BY <1>1, <2>2
<1>4. CASE ClearFifo(p)
  BY <1>1, <1>4 DEF ClearFifo, Clear
<1>5. CASE AddFifo(p)
  BY <1>1, <1>5 DEF AddFifo, Add
<1> QED
  BY <1>1, <1>2, <1>3, <1>4, <1>5 DEF Program, OpenFifo, AddSide, Wait,
     WaitOnce,
     ReadSide, Signal, SetOwner, SetFasync, Sigio, SideWrite, fifo

\* The inductive invariant of the programs.
LEMMA ProgramsInvariance == Spec => []FullInv
  BY InitInv, InvStep, PTL DEF Spec

\* Types, and that no program waits in epoll_wait for data that is there: its
\* ready list names the fifo, edge-triggered or not.
THEOREM ProgramsNothingForgotten == Spec => []Inv
<1>1. FullInv => Inv
  BY DEF FullInv, Inv, TypeOK, Announced, NothingForgotten
<1> QED
  BY <1>1, ProgramsInvariance, PTL

\* epoll.c and event-exam.c sleep in a read only if others emptied the fifo
\* between the event and the read.
THEOREM ProgramsSleepsOnlyIfRobbed == Spec => []SleepsOnlyIfRobbed
<1>1. FullInv => SleepsOnlyIfRobbed
  BY DEF FullInv, Truthful, SleepsOnlyIfRobbed
<1> QED
  BY <1>1, ProgramsInvariance, PTL

\* Every write that stores data signals a program that sleeps in sigio.c with
\* the driver of ch9, and the signal kills no program.
THEOREM ProgramsEveryWriteSignals == Spec => EveryWriteSignals
<1> DEFINE A == \A p \in Proc :
                  /\ driver = "ch9" /\ pc[p] = "sleep" /\ len' > len => p \in pending'
                  /\ pc'[p] # "killed"
<1>1. FullInv /\ FullInv' /\ [Next]_vars => [A]_vars
  <2> SUFFICES ASSUME FullInv, FullInv', Next PROVE A
    OBVIOUS
  <2>1. \A q \in Proc : pc'[q] # "killed"
    BY DEF FullInv, Armed
  <2>2. PICK r \in Proc : \/ Program(r) \/ WaitOnce(r) \/ WriterWrites(r)
                         \/ ReaderReads(r) \/ SideWrite(r)
    BY DEF Next
  <2>3. CASE len' > len
    <3>1. WriterWrites(r)
      BY <2>2, <2>3, OnlyWritersStore
    <3>2. PICK n \in 1 .. MaxWrite : WriteSignals(r, n)
      BY <3>1 DEF WriterWrites
    <3>3. \A q \in Proc : driver = "ch9" /\ pc[q] = "sleep" =>
            q \in async_queue /\ q \in owner
      BY DEF FullInv, Armed
    <3>4. \A q \in Proc : driver = "ch9" /\ pc[q] = "sleep" => q \in pending'
      BY <2>3, <3>2, <3>3 DEF WriteSignals
    <3> QED
      BY <3>4, <2>1
  <2>4. CASE ~(len' > len)
    BY <2>4, <2>1
  <2> QED
    BY <2>3, <2>4
<1> QED
  BY <1>1, ProgramsInvariance, InvStep, PTL DEF Spec, EveryWriteSignals
=============================================================================
