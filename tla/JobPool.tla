------------------------------- MODULE JobPool -------------------------------
(***************************************************************************)
(* What the thread pool promises, with no slots, locks or signals: a job   *)
(* that is handed over is either taken, if fewer than Capacity jobs are    *)
(* held, or turned away, and a job that was taken is run at most once.     *)
(* ThreadPool implements this specification when its size is fixed.        *)
(***************************************************************************)
EXTENDS Naturals, FiniteSets

CONSTANTS Job,        \* the jobs
          Capacity    \* max_th_num

VARIABLES offered,    \* jobs a caller is handing over
          held,       \* jobs taken and not yet run
          ran         \* how often each job was run

vars == <<offered, held, ran>>

Init == offered = {} /\ held = {} /\ ran = [j \in Job |-> 0]

Offer(j) ==
  /\ j \notin offered \union held /\ ran[j] = 0
  /\ offered' = offered \union {j}
  /\ UNCHANGED <<held, ran>>

Take(j) ==
  /\ j \in offered /\ Cardinality(held) < Capacity
  /\ offered' = offered \ {j} /\ held' = held \union {j}
  /\ UNCHANGED ran

TurnAway(j) ==
  /\ j \in offered
  /\ offered' = offered \ {j}
  /\ UNCHANGED <<held, ran>>

Run(j) ==
  /\ j \in held
  /\ held' = held \ {j} /\ ran' = [ran EXCEPT ![j] = @ + 1]
  /\ UNCHANGED offered

Next == \E j \in Job : Offer(j) \/ Take(j) \/ TurnAway(j) \/ Run(j)

Spec == Init /\ [][Next]_vars
==============================================================================
