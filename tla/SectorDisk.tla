------------------------------ MODULE SectorDisk ------------------------------
(***************************************************************************)
(* What the users of a disk are promised: a bio is carried out at once and *)
(* completely, then reported as done; or reported as failed and not        *)
(* carried out.  Nothing is said of the data of a bio whose segments are   *)
(* not all of one length (vmem_disk_xfer_bio treats them as if they were), *)
(* except that it changes no other disk and no other bio's buffer.         *)
(***************************************************************************)
EXTENDS Naturals, Sequences

CONSTANTS
  Disk, Sector,
  Bio,          \* the bios
  io            \* their disk, first sector, the ends of their segments (in
                \* sectors from the start of their data), direction

VARIABLES
  store,        \* the data of each disk; <<>> when there is no disk
  buffer,       \* the data of each bio, by offset
  done,         \* the bios carried out
  report        \* what was reported of each bio

vars == <<store, buffer, done, report>>

Even(b) == \A i \in DOMAIN io[b].ends : io[b].ends[i] = i * io[b].ends[1]

Size(b) == IF io[b].ends = <<>> THEN 0 ELSE io[b].ends[Len(io[b].ends)]
Span(b) == {s \in Sector : io[b].sector <= s /\ s < io[b].sector + Size(b)}

Written(b, old) ==
  [s \in Sector |-> IF s \in Span(b) THEN buffer[b][s - io[b].sector] ELSE old[s]]

Fetched(b, old) == [j \in DOMAIN buffer[b] |-> old[io[b].sector + j]]

Init ==
  /\ store = [d \in Disk |-> <<>>]
  /\ done = {}
  /\ report = [b \in Bio |-> "none"]

Appear(d) ==
  /\ store[d] = <<>> /\ DOMAIN store'[d] = Sector
  /\ store' = [store EXCEPT ![d] = store'[d]]
  /\ UNCHANGED <<buffer, done, report>>

Vanish(d) ==
  /\ store' = [store EXCEPT ![d] = <<>>]
  /\ UNCHANGED <<buffer, done, report>>

Write(b) == LET d == io[b].dev IN
  /\ io[b].dir = "write" /\ store[d] # <<>>
  /\ store' = [store EXCEPT ![d] = IF Even(b) THEN Written(b, @) ELSE store'[d]]
  /\ UNCHANGED buffer

Read(b) == LET d == io[b].dev IN
  /\ io[b].dir = "read" /\ store[d] # <<>>
  /\ buffer' = [buffer EXCEPT ![b] = IF Even(b) THEN Fetched(b, store[d])
                                                ELSE buffer'[b]]
  /\ UNCHANGED store

Do(b) ==
  /\ b \notin done /\ report[b] = "none"
  /\ Write(b) \/ Read(b)
  /\ done' = done \union {b}
  /\ UNCHANGED report

\* What goes on in a bio with uneven segments.
Muddle(b) ==
  /\ b \in done /\ ~Even(b) /\ report[b] = "none"
  /\ store' = [store EXCEPT ![io[b].dev] = store'[io[b].dev]]
  /\ buffer' = [buffer EXCEPT ![b] = buffer'[b]]
  /\ UNCHANGED <<done, report>>

\* Several bios of one request are reported together.
Report ==
  /\ report' \in [Bio -> {"none", "ok", "error"}]
  /\ \A b \in Bio : report'[b] # report[b] =>
       /\ report[b] = "none"
       /\ report'[b] = IF b \in done THEN "ok" ELSE "error"
  /\ UNCHANGED <<store, buffer, done>>

Next ==
  \/ \E d \in Disk : Appear(d) \/ Vanish(d)
  \/ \E b \in Bio : Do(b) \/ Muddle(b)
  \/ Report

Spec == Init /\ [][Next]_vars
===============================================================================
