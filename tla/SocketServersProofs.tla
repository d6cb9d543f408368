------------------------- MODULE SocketServersProofs -------------------------
(***************************************************************************)
(* What is proved of the two echo servers, for any number of clients, any  *)
(* FD_SETSIZE and limits.                                                  *)
(*                                                                         *)
(* The select server keeps its table, its set and its descriptors in step  *)
(* (Table), and nready counts the entries of the round still to serve      *)
(* (Round).  That only a client that leaves more than one read's worth     *)
(* unanswered can raise SIGPIPE rests on Answers: a RST that is not told   *)
(* by the next error is one that an earlier answer has met, or bounced.    *)
(***************************************************************************)
EXTENDS SocketServers, FiniteSetTheorems, SequenceTheorems, WellFoundedInduction, TLAPS

\* Only the process of the server that runs is there.
Halves ==
  /\ server = "select" => /\ pc \in {"select", "listen", "loop", "write", "ended"}
                          /\ \A c \in Client : child[c] = "none"
  /\ server = "fork" => pc \in {"accept", "fork", "close"}
  /\ ended # "no" => pc = "ended"

\* The table and the descriptors are one to one; the set has their bits, that
\* of listenfd, and at most the one that a failed accept has set.
Table == server = "select" /\ ended = "no" =>
  /\ \A n \in Entries : client[n] \in Clients /\ n <= maxi /\ client[n] <= maxfd
  /\ \A m \in Clients : \E n \in Entries : client[n] = m
  /\ \A m, n \in Entries : client[m] = client[n] => m = n
  /\ \A m \in Clients : listenfd < m /\ m < FD_SETSIZE
  /\ Clients \union {listenfd} \subseteq allset
  /\ allset \subseteq Clients \union {listenfd} \union (IF failed THEN {Wild} ELSE {})

\* nready counts what select found and the loop has not dealt with.
Round ==
  /\ pc = "listen" => /\ backlog # <<>>
                      /\ listenfd \in rset
                      /\ rset \subseteq Clients \union {listenfd}
                      /\ nready = Cardinality(rset)
  /\ pc \in {"loop", "write"} => nready = Cardinality(Due) /\ nready > 0
  /\ pc = "write" => i \in Due

Accepted == {fd[n] : n \in Clients}

Waiting == {backlog[n] : n \in DOMAIN backlog}

\* A client waits at most once, before it is accepted; what has not connected is
\* nowhere; and the parent forks for a client that has no child.
Queue ==
  /\ \A c \in Client : conn[c].up = "no" =>
       c \notin Waiting /\ child[c] = "none" /\ c \notin Accepted
  /\ \A m, n \in DOMAIN backlog : backlog[m] = backlog[n] => m = n
  /\ \A c \in Waiting : child[c] = "none" /\ c \notin Accepted
  /\ pc \in {"fork", "close"} /\ connfd # -1 => connfd \in Clients
  /\ pc = "fork" /\ connfd # -1 => child[fd[connfd]] = "none"

\* What was read and not yet written back is in the hands of the one process
\* that is about to write it.
Hands == \A c \in Client :
  conn[c].hand <=> \/ child[c] = "write"
                   \/ pc = "write" /\ c = fd[client[i]]

\* Only a client that went has reset or ended its connection, and what is
\* unanswered then was so when it went.  Once an answer has met the reset, or
\* is bounced, there is less of it, or nothing.
Answered(k) ==
  /\ k.rst \/ k.fin \/ k.bounce \/ k.err # "no" => k.up = "gone"
  /\ k.up = "gone" => Unanswered(k) <= k.left
  /\ k.bounce \/ (k.rst /\ k.err # "reset") =>
       Unanswered(k) < k.left \/ Unanswered(k) = 0

Answers == \A c \in Client :
  Answered(conn[c]) /\ (child[c] = "SIGPIPE" => conn[c].up = "gone")

FullInv ==
  /\ TypeOK /\ Halves /\ Table /\ Round /\ Queue /\ Hands /\ Answers /\ EndsOnlyBy

-----------------------------------------------------------------------------
(* Least and greatest numbers. *)

\* Min of a set of naturals that is not empty is its least element.
LEMMA MinProps ==
  ASSUME NEW S \in SUBSET Nat, S # {}
  PROVE  Min(S) \in S /\ \A y \in S : Min(S) <= y
<1> DEFINE R == {ss \in Nat \X Nat : ss[1] < ss[2]}
<1>1. IsWellFoundedOn(R, Nat)
  BY NatLessThanWellFounded, SMT DEF OpToRel
<1>2. \A x, y \in Nat : <<y, x>> \in R <=> y < x
  OBVIOUS
<1> HIDE DEF R
<1>3. PICK x \in S : \A y \in S : ~(<<y, x>> \in R)
  BY <1>1, WFMin
<1>4. \E z \in S : \A y \in S : z =< y
  <2>1. x \in Nat /\ \A y \in S : ~(y < x)
    BY <1>2, <1>3
  <2>2. \A y \in S : x =< y
    BY <2>1
  <2> QED
    BY <2>2
<1> QED
  BY <1>4 DEF Min

\* Max of two integers.
LEMMA MaxOfTwo ==
  ASSUME NEW a \in Int, NEW b \in Int
  PROVE  Max({a, b}) = IF a >= b THEN a ELSE b
<1>1. \A x \in {a, b} : (\A y \in {a, b} : x >= y) <=> x = (IF a >= b THEN a ELSE b)
  OBVIOUS
<1> QED
  BY <1>1 DEF Max

\* The descriptors that can be: up to the largest limit.
LEMMA DescriptorRange ==
  /\ Max(Limits) \in Limits /\ \A l \in Limits : l <= Max(Limits)
  /\ Max(Limits) \in Nat /\ Max(Limits) > listenfd
  /\ listenfd \in Fds /\ Fds \subseteq Nat /\ -1 \notin Fds
<1>1. \E x \in Limits : \A y \in Limits : x >= y
  <2>1. PICK h \in Limits : \A l \in Limits : l <= h
    BY ServerAssumption
  <2>2. \A l \in Limits : h >= l
    BY <2>1, ServerAssumption
  <2> QED
    BY <2>2
<1>2. Max(Limits) \in Limits /\ \A y \in Limits : Max(Limits) >= y
  BY <1>1 DEF Max
<1>3. Max(Limits) \in Nat /\ Max(Limits) > listenfd /\ \A l \in Limits : l \in Nat
  BY <1>2, ServerAssumption
<1> QED
  BY <1>2, <1>3 DEF listenfd, Fds

-----------------------------------------------------------------------------
(* Counting. *)

\* The bits of a set of descriptors are finite in number.
LEMMA SlotsFinite ==
  /\ IsFiniteSet(Slot) /\ Cardinality(Slot) = FD_SETSIZE
  /\ \A S : S \subseteq Slot => /\ IsFiniteSet(S)
                                /\ Cardinality(S) \in 0 .. FD_SETSIZE
<1>1. FD_SETSIZE \in Nat /\ FD_SETSIZE > 0
  BY ServerAssumption DEF listenfd
<1>2. IsFiniteSet(Slot) /\ Cardinality(Slot) = FD_SETSIZE
  BY <1>1, FS_Interval DEF Slot
<1>3. ASSUME NEW S, S \subseteq Slot
      PROVE  IsFiniteSet(S) /\ Cardinality(S) \in 0 .. FD_SETSIZE
  <2>1. IsFiniteSet(S) /\ Cardinality(S) <= FD_SETSIZE
    BY <1>2, <1>3, FS_Subset
  <2> QED
    BY <2>1, <1>1, FS_CardinalityType
<1> QED
  BY <1>2, <1>3

\* As many entries as descriptors, if an injective table names each.
LEMMA SameCount ==
  ASSUME NEW E, NEW D, NEW f, IsFiniteSet(E),
         \A n \in E : f[n] \in D,
         \A m \in D : \E n \in E : f[n] = m,
         \A m, n \in E : f[m] = f[n] => m = n
  PROVE  Cardinality(E) = Cardinality(D)
<1> DEFINE g == [n \in E |-> f[n]]
<1>1. g \in [E -> D] /\ \A n \in E : g[n] = f[n]
  OBVIOUS
<1> HIDE DEF g
<1>2. g \in Bijection(E, D)
  BY <1>1 DEF Bijection, Injection, Surjection, IsInjective
<1>3. ExistsBijection(E, D)
  BY <1>2 DEF ExistsBijection
<1> QED
  BY <1>3, FS_Bijection

\* Without one of its elements a set counts one less.
LEMMA OneLess ==
  ASSUME NEW S, S \subseteq Slot, NEW x \in S
  PROVE  /\ Cardinality(S \ {x}) = Cardinality(S) - 1 /\ Cardinality(S) > 0
         /\ Cardinality(S) = 1 <=> S \ {x} = {}
<1>1. /\ IsFiniteSet(S) /\ IsFiniteSet(S \ {x}) /\ Cardinality(S) \in Nat
      /\ Cardinality(S \ {x}) \in Nat
  BY SlotsFinite, FS_RemoveElement, FS_CardinalityType
<1>2. Cardinality(S \ {x}) = Cardinality(S) - 1
  BY <1>1, FS_RemoveElement
<1>3. Cardinality(S \ {x}) = 0 <=> S \ {x} = {}
  BY <1>1, FS_EmptySet
<1> QED
  BY <1>1, <1>2, <1>3

-----------------------------------------------------------------------------
(* Connections. *)

\* A connection with one field changed is a connection.
LEMMA FieldTypes ==
  \A k \in Connection :
    /\ \A n \in Nat : [k EXCEPT !.in = n] \in Connection
                      /\ [k EXCEPT !.left = n] \in Connection
    /\ \A b \in BOOLEAN : /\ [k EXCEPT !.hand = b] \in Connection
                          /\ [k EXCEPT !.fin = b] \in Connection
                          /\ [k EXCEPT !.rst = b] \in Connection
                          /\ [k EXCEPT !.bounce = b] \in Connection
    /\ \A u \in {"no", "yes", "gone"} : [k EXCEPT !.up = u] \in Connection
    /\ \A e \in {"no", "reset", "pipe"} : [k EXCEPT !.err = e] \in Connection
    /\ \A o \in 0 .. Window : [k EXCEPT !.out = o] \in Connection
  BY SMT DEF Connection

\* Gone clears the answers and keeps what is unanswered.
LEMMA GoneFields ==
  ASSUME NEW k \in Connection
  PROVE  /\ Gone(k) \in Connection /\ Unanswered(k) \in Nat
         /\ Gone(k).up = "gone" /\ Gone(k).in = k.in /\ Gone(k).hand = k.hand
         /\ Gone(k).left = Unanswered(k) /\ Gone(k).fin = k.fin
         /\ Gone(k).rst = k.rst /\ Gone(k).err = k.err /\ Gone(k).bounce = k.bounce
<1> DEFINE x == Unanswered(k)
           a == [k EXCEPT !.up = "gone"]
           b == [a EXCEPT !.out = 0]
<1>1. x \in Nat /\ 0 \in 0 .. Window
  BY ServerAssumption DEF Connection, Unanswered
<1>2. a \in Connection
  BY FieldTypes
<1>3. b \in Connection
  BY <1>1, <1>2, FieldTypes
<1>4. [b EXCEPT !.left = x] \in Connection
  BY <1>1, <1>3, FieldTypes
<1>5. Gone(k) = [b EXCEPT !.left = x]
  BY DEF Connection, Gone
<1>6. /\ Gone(k).up = "gone" /\ Gone(k).in = k.in /\ Gone(k).hand = k.hand
      /\ Gone(k).left = Unanswered(k) /\ Gone(k).fin = k.fin
      /\ Gone(k).rst = k.rst /\ Gone(k).err = k.err /\ Gone(k).bounce = k.bounce
  BY DEF Connection, Gone
<1> QED
  BY <1>1, <1>4, <1>5, <1>6

\* Reset sets the error that a RST leaves.
LEMMA ResetFields ==
  ASSUME NEW k \in Connection
  PROVE  /\ Reset(k) \in Connection
         /\ Reset(k).up = k.up /\ Reset(k).in = k.in /\ Reset(k).hand = k.hand
         /\ Reset(k).left = k.left /\ Reset(k).fin = k.fin /\ Reset(k).rst = TRUE
         /\ Reset(k).err = (IF k.fin THEN "pipe" ELSE "reset")
         /\ Reset(k).bounce = FALSE
<1> DEFINE e == IF k.fin THEN "pipe" ELSE "reset"
           a == [k EXCEPT !.rst = TRUE]
           b == [a EXCEPT !.bounce = FALSE]
<1>1. a \in Connection
  BY FieldTypes
<1>2. b \in Connection
  BY <1>1, FieldTypes
<1>3. [b EXCEPT !.err = e] \in Connection
  BY <1>2, FieldTypes
<1>4. Reset(k) = [b EXCEPT !.err = e]
  BY DEF Connection, Reset
<1>5. /\ Reset(k).up = k.up /\ Reset(k).in = k.in /\ Reset(k).hand = k.hand
      /\ Reset(k).left = k.left /\ Reset(k).fin = k.fin /\ Reset(k).rst = TRUE
      /\ Reset(k).err = (IF k.fin THEN "pipe" ELSE "reset")
      /\ Reset(k).bounce = FALSE
  BY DEF Connection, Reset
<1> QED
  BY <1>3, <1>4, <1>5

\* What the clients' steps do to a connection.
LEMMA ClientSide ==
  ASSUME NEW k \in Connection, Answered(k)
  PROVE  /\ k.up = "no" => [k EXCEPT !.up = "yes"] \in Connection
                           /\ Answered([k EXCEPT !.up = "yes"])
         /\ k.up = "yes" => [k EXCEPT !.in = @ + 1] \in Connection
                            /\ Answered([k EXCEPT !.in = @ + 1])
         /\ k.up = "yes" /\ k.out > 0 => [k EXCEPT !.out = @ - 1] \in Connection
                                         /\ Answered([k EXCEPT !.out = @ - 1])
         /\ k.up = "yes" => [Gone(k) EXCEPT !.fin = TRUE] \in Connection
                            /\ Answered([Gone(k) EXCEPT !.fin = TRUE])
         /\ k.up = "yes" => Reset(Gone(k)) \in Connection
                            /\ Answered(Reset(Gone(k)))
         /\ k.bounce => Reset(k) \in Connection /\ Answered(Reset(k))
<1>0. k.in \in Nat /\ k.left \in Nat /\ k.up \in {"no", "yes", "gone"}
  BY DEF Connection
<1>1. ASSUME k.up = "no"
      PROVE  [k EXCEPT !.up = "yes"] \in Connection
             /\ Answered([k EXCEPT !.up = "yes"])
  <2>1. [k EXCEPT !.up = "yes"] \in Connection
    BY FieldTypes
  <2>2. Answered([k EXCEPT !.up = "yes"])
    BY <1>1 DEF Connection, Answered
  <2> QED
    BY <2>1, <2>2
<1>2. ASSUME k.up = "yes"
      PROVE  [k EXCEPT !.in = @ + 1] \in Connection
             /\ Answered([k EXCEPT !.in = @ + 1])
  <2>1. [k EXCEPT !.in = @ + 1] \in Connection
    <3> DEFINE n == k.in + 1
    <3>1. n \in Nat
      BY <1>0
    <3>2. [k EXCEPT !.in = n] \in Connection
      BY <3>1, FieldTypes
    <3> QED
      BY <3>2
  <2>2. Answered([k EXCEPT !.in = @ + 1])
    BY <1>2 DEF Connection, Answered
  <2> QED
    BY <2>1, <2>2
<1>3. ASSUME k.up = "yes", k.out > 0
      PROVE  [k EXCEPT !.out = @ - 1] \in Connection
             /\ Answered([k EXCEPT !.out = @ - 1])
  <2>1. k.out - 1 \in 0 .. Window
    BY <1>3, ServerAssumption DEF Connection
  <2>2. [k EXCEPT !.out = @ - 1] \in Connection
    BY <2>1, FieldTypes
  <2>3. Answered([k EXCEPT !.out = @ - 1])
    BY <1>3 DEF Connection, Answered
  <2> QED
    BY <2>2, <2>3
<1>4. ASSUME k.up = "yes"
      PROVE  [Gone(k) EXCEPT !.fin = TRUE] \in Connection
             /\ Answered([Gone(k) EXCEPT !.fin = TRUE])
  <2> DEFINE r == [Gone(k) EXCEPT !.fin = TRUE]
  <2>1. r \in Connection
    BY FieldTypes, GoneFields
  <2>2. /\ r.up = "gone" /\ r.in = k.in /\ r.hand = k.hand
        /\ r.left = Unanswered(k) /\ r.rst = k.rst /\ r.err = k.err
        /\ r.bounce = k.bounce /\ Unanswered(k) \in Nat
    BY GoneFields DEF Connection
  <2> HIDE DEF r
  <2>3. Answered(r)
    BY <1>4, <2>2 DEF Answered, Unanswered
  <2> QED
    BY <2>1, <2>3 DEF r
<1>5. ASSUME k.up = "yes"
      PROVE  Reset(Gone(k)) \in Connection /\ Answered(Reset(Gone(k)))
  <2> DEFINE r == Reset(Gone(k))
  <2>1. /\ r \in Connection /\ r.up = "gone" /\ r.in = k.in /\ r.hand = k.hand
        /\ r.left = Unanswered(k) /\ r.bounce = FALSE /\ Unanswered(k) \in Nat
        /\ r.err = (IF k.fin THEN "pipe" ELSE "reset")
    <3> DEFINE g == Gone(k)
    <3>1. /\ g \in Connection /\ g.up = "gone" /\ g.in = k.in /\ g.hand = k.hand
          /\ g.left = Unanswered(k) /\ Unanswered(k) \in Nat /\ g.fin = k.fin
      BY GoneFields
    <3> HIDE DEF g
    <3>2. /\ Reset(g) \in Connection /\ Reset(g).up = g.up /\ Reset(g).in = g.in
          /\ Reset(g).hand = g.hand /\ Reset(g).left = g.left
          /\ Reset(g).bounce = FALSE
          /\ Reset(g).err = (IF g.fin THEN "pipe" ELSE "reset")
      BY <3>1, ResetFields
    <3> QED
      BY <3>1, <3>2 DEF g
  <2> HIDE DEF r
  <2>2. Answered(r)
    BY <1>5, <2>1 DEF Answered, Unanswered
  <2> QED
    BY <2>1, <2>2 DEF r
<1>6. ASSUME k.bounce PROVE Reset(k) \in Connection /\ Answered(Reset(k))
  <2> DEFINE r == Reset(k)
  <2>1. /\ r \in Connection /\ r.up = k.up /\ r.in = k.in /\ r.hand = k.hand
        /\ r.left = k.left /\ r.bounce = FALSE
    BY ResetFields
  <2> HIDE DEF r
  <2>2. Answered(r)
    BY <1>6, <2>1 DEF Answered, Unanswered
  <2> QED
    BY <2>1, <2>2 DEF r
<1> QED
  BY <1>1, <1>2, <1>3, <1>4, <1>5, <1>6

\* A step of a client touches its connection alone, not what is in hand, and
\* after it went away no longer what was unanswered then.
LEMMA PeersConn ==
  ASSUME conn \in [Client -> Connection], NEW c \in Client, Answered(conn[c]),
         Peers(c)
  PROVE  /\ conn' \in [Client -> Connection]
         /\ \A d \in Client : d # c => conn'[d] = conn[d]
         /\ Answered(conn'[c]) /\ conn'[c].hand = conn[c].hand
         /\ conn'[c].up # "no"
         /\ conn[c].up = "gone" => conn'[c].up = "gone"
                                   /\ conn'[c].left = conn[c].left
         /\ \/ backlog' = backlog /\ conn[c].up # "no"
            \/ backlog' = Append(backlog, c) /\ conn[c].up = "no"
<1> DEFINE k == conn[c]
<1>0. k \in Connection /\ Answered(k)
  OBVIOUS
<1>1. CASE Connect(c)
  <2>1. k.up = "no" /\ conn' = [conn EXCEPT ![c] = [k EXCEPT !.up = "yes"]]
        /\ backlog' = Append(backlog, c)
    BY <1>1 DEF Connect
  <2>2. [k EXCEPT !.up = "yes"].hand = k.hand /\ [k EXCEPT !.up = "yes"].up = "yes"
    BY <1>0 DEF Connection
  <2> QED
    BY <1>0, <2>1, <2>2, ClientSide
<1>2. CASE Send(c)
  <2>1. k.up = "yes" /\ conn' = [conn EXCEPT ![c] = [k EXCEPT !.in = @ + 1]]
        /\ backlog' = backlog
    BY <1>2 DEF Send
  <2>2. [k EXCEPT !.in = @ + 1].hand = k.hand /\ [k EXCEPT !.in = @ + 1].up = k.up
    BY <1>0 DEF Connection
  <2> QED
    BY <1>0, <2>1, <2>2, ClientSide
<1>3. CASE Receive(c)
  <2>1. k.up = "yes" /\ k.out > 0
        /\ conn' = [conn EXCEPT ![c] = [k EXCEPT !.out = @ - 1]]
        /\ backlog' = backlog
    BY <1>3 DEF Receive
  <2>2. [k EXCEPT !.out = @ - 1].hand = k.hand /\ [k EXCEPT !.out = @ - 1].up = k.up
    BY <1>0 DEF Connection
  <2> QED
    BY <1>0, <2>1, <2>2, ClientSide
<1>4. CASE Leave(c)
  <2>1. k.up = "yes" /\ backlog' = backlog
        /\ \/ conn' = [conn EXCEPT ![c] = [Gone(k) EXCEPT !.fin = TRUE]]
           \/ conn' = [conn EXCEPT ![c] = Reset(Gone(k))]
    BY <1>4 DEF Leave
  <2>2. /\ [Gone(k) EXCEPT !.fin = TRUE].hand = k.hand
        /\ [Gone(k) EXCEPT !.fin = TRUE].up = "gone"
    BY <1>0 DEF Connection, Gone
  <2>3. Reset(Gone(k)).hand = k.hand /\ Reset(Gone(k)).up = "gone"
    BY <1>0 DEF Connection, Gone, Reset
  <2>4. CASE conn' = [conn EXCEPT ![c] = [Gone(k) EXCEPT !.fin = TRUE]]
    BY <1>0, <2>1, <2>2, <2>4, ClientSide
  <2>5. CASE conn' = [conn EXCEPT ![c] = Reset(Gone(k))]
    BY <1>0, <2>1, <2>3, <2>5, ClientSide
  <2> QED
    BY <2>1, <2>4, <2>5
<1>5. CASE Bounce(c)
  <2>1. k.bounce /\ conn' = [conn EXCEPT ![c] = Reset(k)] /\ backlog' = backlog
    BY <1>5 DEF Bounce
  <2>2. k.up = "gone"
    BY <1>0, <2>1 DEF Answered
  <2>3. Reset(k).hand = k.hand /\ Reset(k).up = k.up /\ Reset(k).left = k.left
    BY <1>0 DEF Connection, Reset
  <2> QED
    BY <1>0, <2>1, <2>2, <2>3, ClientSide
<1> QED
  BY <1>1, <1>2, <1>3, <1>4, <1>5 DEF Peers

\* What a read does to the connection: data come into hand, an error is told
\* and cleared, at the end the connection is closed.
LEMMA ReadConn ==
  ASSUME conn \in [Client -> Connection], NEW c \in Client, Answered(conn[c]),
         ~conn[c].hand, conn' = AfterRead(c)
  PROVE  /\ conn' \in [Client -> Connection]
         /\ \A d \in Client : d # c => conn'[d] = conn[d]
         /\ Answered(conn'[c]) /\ conn'[c].hand = (ReadGives(c) = "data")
         /\ ReadGives(c) \in {"data", "error", "end"}
         /\ conn'[c].up = conn[c].up \/ conn'[c].up = "gone"
<1> DEFINE k == conn[c]
<1>0. k \in Connection /\ Answered(k) /\ k.hand = FALSE
  BY DEF Connection
<1>1. CASE k.in > 0
  <2> DEFINE r == [k EXCEPT !.in = @ - 1, !.hand = TRUE]
  <2>1. ReadGives(c) = "data"
    BY <1>0, <1>1, SMT DEF ReadGives, Connection
  <2>2. conn' = [conn EXCEPT ![c] = r]
    <3>1. conn' = [conn EXCEPT ![c] = Taken(k)]
      BY <2>1 DEF AfterRead
    <3> QED
      BY <3>1 DEF Taken
  <2>3. /\ r.hand = TRUE /\ r.up = k.up /\ r.in = k.in - 1
        /\ r.rst = k.rst /\ r.err = k.err /\ r.bounce = k.bounce
        /\ r.fin = k.fin /\ r.left = k.left
    BY <1>0, <1>1, SMT DEF Connection
  <2>7. r \in Connection
    <3> DEFINE n == k.in - 1
               a == [k EXCEPT !.in = n]
    <3>1. n \in Nat
      BY <1>0, <1>1 DEF Connection
    <3>2. a \in Connection
      BY <1>0, <3>1, FieldTypes
    <3>3. [a EXCEPT !.hand = TRUE] \in Connection
      BY <3>2, FieldTypes
    <3>4. r = [a EXCEPT !.hand = TRUE]
      BY <1>0 DEF Connection
    <3> QED
      BY <3>3, <3>4
  <2>4. k.in \in Nat /\ k.left \in Nat
    BY <1>0 DEF Connection
  <2>5. Unanswered(r) = Unanswered(k)
    BY <1>0, <2>3, <2>4 DEF Unanswered
  <2> HIDE DEF r
  <2>6. Answered(r)
    BY <1>0, <2>3, <2>5 DEF Answered
  <2> QED
    BY <2>1, <2>2, <2>3, <2>6, <2>7
<1>2. CASE k.in = 0 /\ ~k.fin /\ k.err # "no"
  <2> DEFINE r == [k EXCEPT !.err = "no"]
  <2>1. ReadGives(c) = "error"
    BY <1>2, SMT DEF ReadGives
  <2>3. conn' = [conn EXCEPT ![c] = r]
    BY <2>1 DEF AfterRead
  <2>2. r \in Connection /\ r.hand = FALSE /\ r.up = k.up /\ Answered(r)
    BY <1>0, <1>2 DEF Connection, Answered, Unanswered
  <2> HIDE DEF r
  <2> QED
    BY <2>1, <2>2, <2>3
<1>3. CASE k.in = 0 /\ (k.fin \/ k.err = "no")
  <2> DEFINE r == Blank("gone")
  <2>1. ReadGives(c) = "end"
    BY <1>3, SMT DEF ReadGives
  <2>3. conn' = [conn EXCEPT ![c] = r]
    BY <2>1 DEF AfterRead
  <2>2. r \in Connection /\ r.hand = FALSE /\ r.up = "gone" /\ Answered(r)
    BY ServerAssumption DEF Connection, Answered, Unanswered, Blank
  <2> HIDE DEF r
  <2> QED
    BY <2>1, <2>2, <2>3
<1>4. k.in \in Nat
  BY <1>0 DEF Connection
<1> QED
  BY <1>1, <1>2, <1>3, <1>4

\* A write answers what is in hand.  It kills only if the client went with
\* more than one read's worth unanswered.
LEMMA WriteConn ==
  ASSUME conn \in [Client -> Connection], NEW c \in Client, Answered(conn[c]),
         conn[c].hand, conn[c].up # "no", WriteReturns(c), conn' = AfterWrite(c)
  PROVE  /\ conn' \in [Client -> Connection]
         /\ \A d \in Client : d # c => conn'[d] = conn[d]
         /\ Answered(conn'[c]) /\ conn'[c].hand = FALSE
         /\ conn'[c].up = conn[c].up
         /\ WriteKills(c) => conn'[c].up = "gone" /\ conn'[c].left > 1
<1> DEFINE k == conn[c]
           r == CASE k.rst                   -> [k EXCEPT !.hand = FALSE, !.err = "no"]
                  [] ~k.rst /\ k.up = "gone" -> [k EXCEPT !.hand = FALSE, !.bounce = TRUE]
                  [] ~k.rst /\ k.up = "yes"  -> [k EXCEPT !.hand = FALSE, !.out = @ + 1]
<1>0. k \in Connection /\ Answered(k) /\ k.hand = TRUE /\ k.up \in {"yes", "gone"}
  BY DEF Connection
<1>1. k.rst \/ k.up = "gone" \/ k.out < Window
  BY DEF WriteReturns
<1>2. conn' = [conn EXCEPT ![c] = r]
  <2>1. CASE k.rst
    BY <1>0, <2>1 DEF AfterWrite, Connection
  <2>2. CASE ~k.rst /\ k.up = "gone"
    BY <1>0, <2>2 DEF AfterWrite, Connection
  <2>3. CASE ~k.rst /\ k.up = "yes"
    BY <1>0, <2>3 DEF AfterWrite, Connection
  <2> QED
    BY <1>0, <2>1, <2>2, <2>3
<1>3. /\ r \in Connection /\ r.hand = FALSE /\ r.up = k.up /\ r.left = k.left
      /\ r.in = k.in /\ r.rst = k.rst /\ r.fin = k.fin
      /\ r.err = (IF k.rst THEN "no" ELSE k.err)
      /\ r.bounce \in BOOLEAN /\ k.bounce => r.bounce
      /\ r.bounce => k.bounce \/ k.up = "gone"
  <2>1. CASE k.rst
    BY <1>0, <2>1 DEF Connection
  <2>2. CASE ~k.rst /\ k.up = "gone"
    BY <1>0, <2>2 DEF Connection
  <2>3. CASE ~k.rst /\ k.up = "yes"
    <3> DEFINE a == [k EXCEPT !.hand = FALSE]
               n == k.out + 1
    <3>1. n \in 0 .. Window
      BY <1>0, <1>1, <2>3, ServerAssumption DEF Connection
    <3>2. a \in Connection
      BY <1>0, FieldTypes
    <3>3. [a EXCEPT !.out = n] \in Connection
      BY <3>1, <3>2, FieldTypes
    <3>4. r = [a EXCEPT !.out = n]
      BY <1>0, <2>3 DEF Connection
    <3>5. /\ r.hand = FALSE /\ r.up = k.up /\ r.left = k.left
          /\ r.in = k.in /\ r.rst = k.rst /\ r.fin = k.fin
          /\ r.err = k.err /\ r.bounce = k.bounce
      BY <1>0, <2>3 DEF Connection
    <3>6. k.bounce \in BOOLEAN
      BY <1>0 DEF Connection
    <3> HIDE DEF r
    <3> QED
      BY <2>3, <3>3, <3>4, <3>5, <3>6
  <2> QED
    BY <1>0, <2>1, <2>2, <2>3
<1>5. k.in \in Nat /\ k.left \in Nat /\ Unanswered(k) = k.in + 1 /\ Unanswered(r) = k.in
  BY <1>0, <1>3 DEF Connection, Unanswered
<1>6. Answered(r)
  <2> HIDE DEF r
  <2>1. r.rst \/ r.fin \/ r.bounce \/ r.err # "no" => r.up = "gone"
    BY <1>0, <1>3 DEF Answered
  <2>2. r.up = "gone" => Unanswered(r) < r.left
    BY <1>0, <1>3, <1>5 DEF Answered
  <2> QED
    BY <2>1, <2>2, <1>3, <1>5 DEF Answered
<1>4. ASSUME WriteKills(c) PROVE k.up = "gone" /\ k.left > 1
  BY <1>0, <1>4 DEF WriteKills, Connection, Answered, Unanswered
<1> HIDE DEF r
<1> QED
  BY <1>2, <1>3, <1>4, <1>6

-----------------------------------------------------------------------------
(* The backlog. *)

\* Nobody waits twice.
Once == \A m, n \in DOMAIN backlog : backlog[m] = backlog[n] => m = n

\* A client that connects is the last of those that wait.
LEMMA Joins ==
  ASSUME backlog \in Seq(Client), Once, NEW c \in Client, c \notin Waiting,
         backlog' = Append(backlog, c)
  PROVE  /\ backlog' \in Seq(Client) /\ Once' /\ backlog' # <<>>
         /\ Waiting' = Waiting \union {c}
<1>1. /\ backlog' \in Seq(Client) /\ Len(backlog') = Len(backlog) + 1
      /\ Len(backlog) \in Nat /\ DOMAIN backlog = 1 .. Len(backlog)
      /\ DOMAIN backlog' = 1 .. Len(backlog) + 1
      /\ backlog'[Len(backlog) + 1] = c
      /\ \A n \in 1 .. Len(backlog) : backlog'[n] = backlog[n]
  BY LenProperties
<1>2. backlog' # <<>>
  BY <1>1, EmptySeq
<1>3. \A n \in DOMAIN backlog' : n \in DOMAIN backlog \/ n = Len(backlog) + 1
  BY <1>1
<1>4. \A n \in DOMAIN backlog : n \in DOMAIN backlog' /\ backlog[n] # c
  BY <1>1 DEF Waiting
<1>5. Len(backlog) + 1 \in DOMAIN backlog'
  BY <1>1
<1>6. Once'
  BY <1>1, <1>3, <1>4 DEF Once
<1>7. Waiting' = Waiting \union {c}
  BY <1>1, <1>3, <1>4, <1>5 DEF Waiting
<1> QED
  BY <1>1, <1>2, <1>6, <1>7

\* The client that accept takes waits no longer.
LEMMA FirstTaken ==
  ASSUME backlog \in Seq(Client), Once, backlog # <<>>, backlog' = Tail(backlog)
  PROVE  /\ backlog' \in Seq(Client) /\ Once'
         /\ Head(backlog) \in Waiting /\ Head(backlog) \in Client
         /\ Waiting' = Waiting \ {Head(backlog)}
<1> DEFINE len == Len(backlog)
<1>1. /\ len \in Nat /\ DOMAIN backlog = 1 .. len /\ len > 0
      /\ Head(backlog) = backlog[1] /\ Head(backlog) \in Client
  BY EmptySeq, LenProperties, HeadTailProperties
<1>2. /\ backlog' \in Seq(Client) /\ Len(backlog') = len - 1
      /\ \A n \in 1 .. Len(backlog') : backlog'[n] = backlog[n + 1]
  BY HeadTailProperties
<1>3. DOMAIN backlog' = 1 .. (len - 1)
  BY <1>2, LenProperties
<1> HIDE DEF len
<1>4. /\ 1 \in DOMAIN backlog
      /\ \A n \in DOMAIN backlog' : n \in Nat /\ n + 1 \in DOMAIN backlog /\ n + 1 # 1
                                    /\ backlog'[n] = backlog[n + 1]
      /\ \A m, n \in DOMAIN backlog' : m + 1 = n + 1 => m = n
      /\ \A n \in DOMAIN backlog : n # 1 => \E m \in DOMAIN backlog' : n = m + 1
  <2>1. \A n \in 1 .. len : n # 1 => n - 1 \in 1 .. (len - 1) /\ n = (n - 1) + 1
    BY <1>1
  <2>2. \A n \in 1 .. (len - 1) : n \in Nat /\ n + 1 \in 1 .. len /\ n + 1 # 1
    BY <1>1
  <2>3. \A m, n \in 1 .. (len - 1) : m + 1 = n + 1 => m = n
    BY <1>1
  <2>4. 1 \in 1 .. len
    BY <1>1
  <2> QED
    BY <1>1, <1>2, <1>3, <2>1, <2>2, <2>3, <2>4
<1>5. Once'
  BY <1>4 DEF Once
<1>6. Head(backlog) \in Waiting
  BY <1>1, <1>4 DEF Waiting
<1>7. \A x \in Waiting' : x \in Waiting /\ x # Head(backlog)
  BY <1>1, <1>4 DEF Waiting, Once
<1>8. \A x \in Waiting : x # Head(backlog) => x \in Waiting'
  BY <1>1, <1>4 DEF Waiting
<1> QED
  BY <1>1, <1>2, <1>5, <1>6, <1>7, <1>8

-----------------------------------------------------------------------------
(* The clients' steps. *)

\* Whatever a client does, the servers' state is as it was.
LEMMA PeersStep ==
  ASSUME FullInv, ended = "no", NEW c \in Client, Peers(c), Outside
  PROVE  FullInv'
<1>0. /\ server' = server /\ limit' = limit /\ fd' = fd /\ pc' = pc
      /\ client' = client /\ maxi' = maxi /\ maxfd' = maxfd /\ allset' = allset
      /\ rset' = rset /\ nready' = nready /\ i' = i /\ failed' = failed
      /\ ended' = ended /\ connfd' = connfd /\ child' = child /\ lost' = lost
  BY DEF Outside, select, forks
<1>1. /\ conn' \in [Client -> Connection]
      /\ \A d \in Client : d # c => conn'[d] = conn[d]
      /\ Answered(conn'[c]) /\ conn'[c].hand = conn[c].hand
      /\ conn'[c].up # "no"
      /\ conn[c].up = "gone" => conn'[c].up = "gone" /\ conn'[c].left = conn[c].left
      /\ \/ backlog' = backlog /\ conn[c].up # "no"
         \/ backlog' = Append(backlog, c) /\ conn[c].up = "no"
  BY PeersConn DEF FullInv, TypeOK, Answers
<1>2. /\ backlog' \in Seq(Client) /\ Once'
      /\ backlog # <<>> => backlog' # <<>>
      /\ \/ Waiting' = Waiting /\ conn[c].up # "no"
         \/ Waiting' = Waiting \union {c} /\ conn[c].up = "no"
  <2>1. CASE backlog' = backlog /\ conn[c].up # "no"
    BY <2>1 DEF FullInv, TypeOK, Queue, Once, Waiting
  <2>2. CASE backlog' = Append(backlog, c) /\ conn[c].up = "no"
    BY <2>2, Joins DEF FullInv, TypeOK, Queue, Once
  <2> QED
    BY <1>1, <2>1, <2>2
<1>3. Clients' = Clients /\ Entries' = Entries /\ Due' = Due /\ Accepted' = Accepted
  BY <1>0 DEF Clients, Entries, Due, Accepted
<1>4. TypeOK'
  BY <1>0, <1>1, <1>2, <1>3 DEF FullInv, TypeOK
<1>5. Halves' /\ Table'
  BY <1>0, <1>3 DEF FullInv, Halves, Table
<1>6. Round'
  BY <1>0, <1>2, <1>3 DEF FullInv, Round
<1>7. Queue'
  <2>1. \A d \in Client : conn'[d].up = "no" => conn[d].up = "no" /\ d # c
    BY <1>1
  <2>2. conn[c].up = "no" => child[c] = "none" /\ c \notin Accepted
    BY DEF FullInv, Queue
  <2>3. \A d \in Client : conn'[d].up = "no" =>
          d \notin Waiting' /\ child'[d] = "none" /\ d \notin Accepted'
    BY <1>0, <1>2, <1>3, <2>1 DEF FullInv, Queue
  <2>4. \A d \in Waiting' : child'[d] = "none" /\ d \notin Accepted'
    BY <1>0, <1>2, <1>3, <2>2 DEF FullInv, Queue
  <2> QED
    BY <1>0, <1>2, <1>3, <2>3, <2>4 DEF FullInv, Queue, Once
<1>8. Hands'
  BY <1>0, <1>1 DEF FullInv, Hands
<1>9. Answers'
  BY <1>0, <1>1 DEF FullInv, Answers
<1>10. EndsOnlyBy'
  BY <1>0, <1>1 DEF FullInv, EndsOnlyBy, Answers
<1> QED
  BY <1>4, <1>5, <1>6, <1>7, <1>8, <1>9, <1>10 DEF FullInv

-----------------------------------------------------------------------------
(* The rounds of select-model.c. *)

\* While the select server runs there are no children.
LEMMA AloneInSelect ==
  ASSUME FullInv, pc \in {"select", "listen", "loop", "write"}
  PROVE  /\ server = "select" /\ \A c \in Client : child[c] = "none"
         /\ FD_SETSIZE \in Nat /\ Slot \subseteq Nat
         /\ maxi \in Int /\ -1 \notin Slot /\ -1 \notin rset
         /\ \A n \in Slot : client[n] \in Fds \/ client[n] = -1
         /\ Clients \subseteq Fds
         /\ listenfd \notin Clients \/ ended # "no"
<1>1. server = "select" /\ \A c \in Client : child[c] = "none"
  BY DEF FullInv, TypeOK, Halves
<1>2. FD_SETSIZE \in Nat /\ Slot \subseteq Nat /\ -1 \notin Slot /\ Wild \in Slot
  BY ServerAssumption DEF Slot
<1>3. -1 \notin rset /\ maxi \in Int
  BY <1>2 DEF FullInv, TypeOK
<1>4. \A n \in Slot : client[n] \in Fds \/ client[n] = -1
  BY DEF FullInv, TypeOK
<1>5. Clients \subseteq Fds /\ (listenfd \notin Clients \/ ended # "no")
  <2>1. ended = "no" => \A m \in Clients : listenfd < m
    BY <1>1 DEF FullInv, Table
  <2>2. ~(listenfd < listenfd)
    BY DEF listenfd
  <2> QED
    BY <2>1, <2>2 DEF FullInv, TypeOK
<1> QED
  BY <1>1, <1>2, <1>3, <1>4, <1>5

\* As many entries are ready as descriptors, if each of these has one entry
\* within the bound.
LEMMA AsManyReady ==
  ASSUME NEW t, NEW hi, NEW R, hi \in Slot \/ hi = -1,
         \A m \in R : \E n \in Slot : t[n] = m /\ n <= hi,
         \A m, n \in Slot : t[m] = t[n] /\ t[m] \in R => m = n
  PROVE  LET D == {j \in 0 .. hi : t[j] \in R} IN
         Cardinality(D) = Cardinality(R) /\ D \subseteq Slot
<1> DEFINE D == {j \in 0 .. hi : t[j] \in R}
<1>1. D \subseteq Slot /\ \A n \in Slot : n <= hi => n \in 0 .. hi
  BY ServerAssumption DEF Slot
<1>2. IsFiniteSet(D)
  BY <1>1, SlotsFinite
<1>3. /\ \A n \in D : t[n] \in R
      /\ \A m \in R : \E n \in D : t[n] = m
      /\ \A m, n \in D : t[m] = t[n] => m = n
  BY <1>1
<1> HIDE DEF D
<1>4. Cardinality(D) = Cardinality(R)
  BY <1>2, <1>3, SameCount
<1> QED
  BY <1>1, <1>4 DEF D

\* select finds what is ready; the entries of the round are the clients' bits.
LEMMA SelectStepS ==
  ASSUME FullInv, ended = "no", S_Select
  PROVE  FullInv'
<1>0. /\ pc = "select" /\ Asked \subseteq Clients \union {listenfd}
      /\ \E n \in Asked : FdReady(n)
      /\ rset' = {n \in Asked : FdReady(n)} /\ nready' = Cardinality(rset')
      /\ pc' = (IF listenfd \in rset' THEN "listen" ELSE "loop") /\ i' = 0
      /\ server' = server /\ limit' = limit /\ fd' = fd
      /\ client' = client /\ maxi' = maxi /\ maxfd' = maxfd /\ allset' = allset
      /\ failed' = failed /\ ended' = ended
      /\ connfd' = connfd /\ child' = child /\ lost' = lost
      /\ conn' = conn /\ backlog' = backlog
  BY DEF S_Select, forks, peers
<1>1. /\ server = "select" /\ Slot \subseteq Nat /\ listenfd \notin Clients
      /\ -1 \notin Clients /\ \A c \in Client : child[c] = "none"
  BY <1>0, AloneInSelect, DescriptorRange
<1>2. /\ rset' \subseteq Slot /\ rset' \subseteq Clients \union {listenfd}
      /\ rset' # {} /\ listenfd \in rset' => backlog # <<>>
  BY <1>0 DEF Asked, FullInv, TypeOK, FdReady
<1>3. nready' \in 0 .. FD_SETSIZE /\ nready' > 0
  <2>1. IsFiniteSet(rset') /\ nready' \in 0 .. FD_SETSIZE
    BY <1>0, <1>2, SlotsFinite
  <2>2. nready' # 0
    BY <1>0, <1>2, <2>1, FS_EmptySet
  <2> QED
    BY <2>1, <2>2
<1>4. Clients' = Clients /\ Entries' = Entries /\ Accepted' = Accepted
      /\ Waiting' = Waiting
  BY <1>0 DEF Clients, Entries, Accepted, Waiting
<1>5. TypeOK'
  <2>1. pc' \in {"listen", "loop"} /\ i' \in 0 .. FD_SETSIZE
    BY <1>0, ServerAssumption
  <2>2. rset' \subseteq allset' \union {Wild} \union Slot
    BY <1>2
  <2> QED
    BY <1>0, <1>3, <1>4, <2>1, <2>2 DEF FullInv, TypeOK
<1>6. Halves' /\ Table'
  BY <1>0, <1>1, <1>4 DEF FullInv, Halves, Table
<1>7. Round'
  <2>1. CASE listenfd \in rset'
    BY <1>0, <1>2, <1>4, <2>1 DEF Round
  <2>2. CASE listenfd \notin rset'
    <3>1. rset' \subseteq Clients
      BY <1>2, <2>2
    <3>2. /\ \A m \in rset' : \E n \in Slot : client[n] = m /\ n <= maxi
          /\ \A m, n \in Slot : client[m] = client[n] /\ client[m] \in rset' => m = n
      BY <1>0, <1>1, <3>1 DEF FullInv, Table, Entries
    <3>3. Cardinality({j \in 0 .. maxi : client[j] \in rset'}) = Cardinality(rset')
      BY <3>2, AsManyReady, SMTT(30) DEF FullInv, TypeOK
    <3>4. nready' = Cardinality(Due')
      BY <1>0, <3>3 DEF Due
    <3> QED
      BY <1>0, <1>3, <2>2, <3>4 DEF Round
  <2> QED
    BY <2>1, <2>2
<1>8. Queue' /\ Answers'
  BY <1>0, <1>4 DEF FullInv, Queue, Answers
<1>9. Hands'
  BY <1>0 DEF FullInv, Hands
<1>10. EndsOnlyBy'
  BY <1>0, <1>1 DEF FullInv, EndsOnlyBy
<1> QED
  BY <1>5, <1>6, <1>7, <1>8, <1>9, <1>10 DEF FullInv

\* select refuses only the bit that a failed accept has set.
LEMMA SelectErrorStep ==
  ASSUME FullInv, ended = "no", S_SelectError
  PROVE  FullInv'
<1>0. /\ pc = "select" /\ ~(Asked \subseteq Clients \union {listenfd})
      /\ ended' = "EBADF" /\ pc' = "ended"
      /\ server' = server /\ limit' = limit /\ fd' = fd
      /\ client' = client /\ maxi' = maxi /\ maxfd' = maxfd /\ allset' = allset
      /\ rset' = rset /\ nready' = nready /\ i' = i
      /\ failed' = failed
      /\ connfd' = connfd /\ child' = child /\ lost' = lost
      /\ conn' = conn /\ backlog' = backlog
  BY DEF S_SelectError, End, forks, peers
<1>1. server = "select" /\ \A c \in Client : child[c] = "none"
  BY <1>0, AloneInSelect
<1>2. failed
  BY <1>0, <1>1 DEF FullInv, Table, Asked
<1>3. Clients' = Clients /\ Accepted' = Accepted /\ Waiting' = Waiting
  BY <1>0 DEF Clients, Accepted, Waiting
<1>4. TypeOK'
  BY <1>0, <1>3 DEF FullInv, TypeOK
<1>5. Halves' /\ Table' /\ Round'
  BY <1>0, <1>1 DEF Halves, Table, Round
<1>6. Queue' /\ Answers'
  BY <1>0, <1>3 DEF FullInv, Queue, Answers
<1>7. Hands'
  BY <1>0 DEF FullInv, Hands
<1>8. EndsOnlyBy'
  BY <1>0, <1>1, <1>2 DEF EndsOnlyBy
<1> QED
  BY <1>4, <1>5, <1>6, <1>7, <1>8 DEF FullInv

-----------------------------------------------------------------------------
(* accept in select-model.c. *)

\* There is always an entry for one more client: descriptors that fit the set
\* are fewer than entries.
LEMMA NeverFull ==
  ASSUME FullInv, ended = "no", server = "select"
  PROVE  /\ FreeSlots # {} /\ Min(FreeSlots) \in Slot
         /\ client[Min(FreeSlots)] = -1
<1> DEFINE Fit == listenfd + 1 .. FD_SETSIZE - 1
<1>1. FD_SETSIZE \in Nat /\ FD_SETSIZE > listenfd /\ Slot \subseteq Nat
  BY ServerAssumption DEF Slot
<1>2. FreeSlots # {}
  <2> SUFFICES ASSUME FreeSlots = {} PROVE FALSE
    OBVIOUS
  <2>1. \A n \in Slot : n \in Entries
    BY DescriptorRange DEF FreeSlots, Entries, FullInv, TypeOK
  <2>2. \A m \in Clients : m \in Int /\ listenfd < m /\ m < FD_SETSIZE
    BY DescriptorRange DEF FullInv, TypeOK, Table
  <2>3. \A n \in Slot : client[n] \in Clients
    BY <2>1 DEF FullInv, Table
  <2>4. \A m, n \in Slot : client[m] = client[n] => m = n
    BY <2>1 DEF FullInv, Table
  <2>5. Clients \subseteq Fit
    BY <1>1, <2>2 DEF listenfd
  <2>6. client \in [Slot -> Fit]
    BY <2>3, <2>5 DEF FullInv, TypeOK
  <2>7. IsFiniteSet(Fit) /\ Cardinality(Fit) < FD_SETSIZE
    <3> DEFINE b == FD_SETSIZE - 1
               a == listenfd + 1
    <3>1. a \in Int /\ b \in Int /\ a = 4 /\ b < FD_SETSIZE
      BY <1>1 DEF listenfd
    <3> HIDE DEF a, b
    <3>2. IsFiniteSet(a .. b) /\ Cardinality(a .. b) = IF a > b THEN 0 ELSE b - a + 1
      BY <3>1, FS_Interval
    <3>3. Cardinality(a .. b) < FD_SETSIZE
      BY <1>1, <3>1, <3>2 DEF listenfd
    <3> QED
      BY <3>2, <3>3 DEF a, b
  <2> HIDE DEF Fit
  <2> QED
    BY <2>4, <2>6, <2>7, SlotsFinite, FS_PigeonHole
<1>3. Min(FreeSlots) \in FreeSlots
  BY <1>1, <1>2, MinProps DEF FreeSlots
<1>4. client[Min(FreeSlots)] = -1
  <2>1. \A n \in Slot : client[n] < 0 => client[n] = -1
    <3>1. \A n \in Slot : client[n] \in Nat \/ client[n] = -1
      BY DescriptorRange DEF FullInv, TypeOK
    <3>2. \A x : x \in Nat => ~(x < 0)
      OBVIOUS
    <3> QED
      BY <3>1, <3>2
  <2> QED
    BY <1>3, <2>1 DEF FreeSlots
<1> QED
  BY <1>2, <1>3, <1>4 DEF FreeSlots

\* The round goes on after what accept returned is entered: a new descriptor
\* that fits the set, or the -1 of a failure.
LEMMA AddStep ==
  ASSUME FullInv, ended = "no", pc = "listen", NEW n, S_Add(n),
         \/ n = -1 /\ Clients' = Clients /\ failed'
         \/ /\ n \in Fds /\ listenfd < n /\ n < FD_SETSIZE /\ n \notin Clients
            /\ Clients' = Clients \union {n} /\ failed' = failed
  PROVE  /\ Table' /\ Round' /\ ended' = "no"
         /\ client' \in [Slot -> Fds \union {-1}]
         /\ maxi' \in Slot \union {-1} /\ maxfd' \in Fds /\ i' \in 0 .. FD_SETSIZE
         /\ allset' \subseteq Slot
         /\ rset' \subseteq allset' \union {Wild} \union Slot
         /\ nready' \in 0 .. FD_SETSIZE /\ pc' \in {"select", "loop"}
<1> DEFINE m == Min(FreeSlots)
           bit == IF n = -1 THEN Wild ELSE n
<1>0. /\ client' = [client EXCEPT ![m] = n]
      /\ allset' = allset \union {bit}
      /\ maxfd' = Max({maxfd, n}) /\ maxi' = Max({maxi, m})
      /\ Counted(0) /\ ended' = ended
  BY DEF S_Add
<1>1. /\ server = "select" /\ FD_SETSIZE \in Nat /\ Slot \subseteq Nat
      /\ listenfd \notin Clients /\ -1 \notin Clients /\ Wild \in Slot
      /\ Fds \subseteq Nat /\ listenfd \in Slot /\ -1 \notin Fds /\ listenfd # -1
  BY AloneInSelect, DescriptorRange, ServerAssumption DEF Slot, listenfd
<1>2. m \in Slot /\ client[m] = -1
  BY <1>1, NeverFull
<1>3. /\ client \in [Slot -> Fds \union {-1}] /\ maxi \in Slot \union {-1}
      /\ maxfd \in Fds /\ allset \subseteq Slot
      /\ rset \subseteq allset \union {Wild} \union Slot /\ nready \in 0 .. FD_SETSIZE
  BY DEF FullInv, TypeOK
<1>4. n \in Int /\ bit \in Slot
  <2>1. CASE n = -1
    BY <1>1, <2>1
  <2>2. CASE n \in Fds /\ n < FD_SETSIZE
    BY <1>1, <2>2 DEF Slot
  <2> QED
    BY <2>1, <2>2
<1> HIDE DEF m
<1>5. /\ client' \in [Slot -> Fds \union {-1}] /\ client'[m] = n
      /\ \A x \in Slot : x # m => client'[x] = client[x]
  BY <1>0, <1>2, <1>3
<1>6. maxfd' = IF maxfd >= n THEN maxfd ELSE n
  BY <1>0, <1>1, <1>3, <1>4, MaxOfTwo
<1>7. maxi' = IF maxi >= m THEN maxi ELSE m
  BY <1>0, <1>1, <1>2, <1>3, MaxOfTwo
<1>8. /\ maxfd' \in Fds /\ maxfd <= maxfd' /\ n <= maxfd'
  BY <1>1, <1>3, <1>4, <1>6
<1>9. /\ maxi' \in Slot /\ maxi <= maxi' /\ m <= maxi' /\ maxi \in Int
  BY <1>1, <1>2, <1>3, <1>7
<1>10. /\ allset' \subseteq Slot
  BY <1>0, <1>3, <1>4
<1>11. /\ \A x \in Entries : client[x] \in Clients /\ x <= maxi /\ client[x] <= maxfd
       /\ \A y \in Clients : \E x \in Entries : client[x] = y
       /\ \A x, y \in Entries : client[x] = client[y] => x = y
       /\ \A y \in Clients : listenfd < y /\ y < FD_SETSIZE
       /\ Clients \union {listenfd} \subseteq allset
       /\ allset \subseteq Clients \union {listenfd}
                             \union (IF failed THEN {Wild} ELSE {})
  BY <1>1 DEF FullInv, Table
<1>12. /\ \A x \in Entries : x \in Slot /\ x # m /\ client[x] # -1
       /\ \A x \in Slot : x \notin Entries => client[x] = -1
  BY <1>2 DEF Entries
<1>13. \A x \in Slot : x \in Entries' <=> (x \in Entries \/ (x = m /\ n # -1))
  BY <1>2, <1>5 DEF Entries
<1>14. Entries' \subseteq Slot
  BY DEF Entries
<1>15. Table'
  <2>1. ASSUME NEW x \in Entries'
        PROVE  client'[x] \in Clients' /\ x <= maxi' /\ client'[x] <= maxfd'
    <3>1. CASE x \in Entries
      <4>1. client'[x] = client[x] /\ client[x] \in Clients' /\ x <= maxi
            /\ client[x] <= maxfd /\ x \in Int /\ client[x] \in Int
        <5>1. x \in Slot /\ x # m /\ client[x] \in Clients /\ Clients \subseteq Fds
          BY <3>1, <1>11, <1>12 DEF FullInv, TypeOK
        <5>2. client'[x] = client[x] /\ client[x] \in Clients'
          BY <5>1, <1>5
        <5>3. x \in Nat /\ client[x] \in Nat
          BY <5>1, <1>1
        <5> QED
          BY <5>2, <5>3, <3>1, <1>11
      <4>2. maxfd \in Int /\ maxfd' \in Int /\ maxi' \in Int
        BY <1>1, <1>3, <1>8, <1>9
      <4> QED
        BY <4>1, <4>2, <1>8, <1>9
    <3>2. CASE x = m /\ n # -1
      BY <3>2, <1>5, <1>8, <1>9
    <3> QED
      BY <3>1, <3>2, <1>13, <1>14
  <2>2. ASSUME NEW y \in Clients'
        PROVE  \E x \in Entries' : client'[x] = y
    <3>1. CASE y \in Clients
      BY <3>1, <1>5, <1>11, <1>12, <1>13
    <3>2. CASE y = n /\ n # -1
      BY <3>2, <1>2, <1>5, <1>13
    <3> QED
      BY <3>1, <3>2, <1>1
  <2>3. ASSUME NEW x \in Entries', NEW y \in Entries', client'[x] = client'[y]
        PROVE  x = y
    <3>1. \A z \in Entries : client'[z] # n \/ n = -1
      BY <1>5, <1>11, <1>12
    <3> QED
      BY <2>3, <3>1, <1>5, <1>11, <1>12, <1>13, <1>14
  <2>4. \A y \in Clients' : listenfd < y /\ y < FD_SETSIZE
    BY <1>11
  <2>5. Clients' \union {listenfd} \subseteq allset'
    BY <1>0, <1>1, <1>11
  <2>6. allset' \subseteq Clients' \union {listenfd}
                            \union (IF failed' THEN {Wild} ELSE {})
    <3>1. CASE n = -1
      <4>1. bit = Wild /\ Clients' = Clients /\ failed'
        BY <1>1, <3>1
      <4> QED
        BY <4>1, <1>0, <1>11
    <3>2. CASE n # -1
      <4>1. bit = n /\ Clients' = Clients \union {n} /\ failed' = failed
        BY <3>2
      <4> QED
        BY <4>1, <1>0, <1>11
    <3> QED
      BY <3>1, <3>2
  <2> QED
    BY <2>1, <2>2, <2>3, <2>4, <2>5, <2>6 DEF Table
<1>16. /\ listenfd \in rset /\ rset \subseteq Clients \union {listenfd}
       /\ nready = Cardinality(rset)
  BY DEF FullInv, Round
<1>17. /\ rset \subseteq Slot
  BY <1>3, <1>11, <1>16, <1>1
<1>18. /\ Cardinality(rset \ {listenfd}) = nready - 1 /\ nready > 0
  BY <1>16, <1>17, OneLess
<1>19. \/ pc' = "select" /\ rset' = {} /\ nready' = 0 /\ i' = 0
       \/ pc' = "loop" /\ nready # 1 /\ nready' = nready - 1 /\ i' = 0 /\ rset' = rset
  BY <1>0 DEF Counted
<1>20. CASE pc' = "select" /\ rset' = {} /\ nready' = 0 /\ i' = 0
  <2>1. Round'
    BY <1>20 DEF Round
  <2> QED
    BY <2>1, <1>20, <1>0, <1>1, <1>5, <1>8, <1>9, <1>10, <1>15
<1>21. CASE pc' = "loop" /\ nready # 1 /\ nready' = nready - 1 /\ i' = 0 /\ rset' = rset
  <2> DEFINE R == rset \ {listenfd}
  <2>1. R \subseteq Clients /\ \A x \in Slot : client'[x] # listenfd
    <3>1. n # listenfd
      BY <1>1 DEF listenfd
    <3>2. \A x \in Entries : client[x] # listenfd
      BY <1>1, <1>11
    <3> QED
      BY <3>1, <3>2, <1>1, <1>5, <1>12, <1>16
  <2>2. n \notin R /\ -1 \notin R
    BY <2>1, <1>1
  <2>3. \A y \in R : \E x \in Slot : client'[x] = y /\ x <= maxi'
    <3> SUFFICES ASSUME NEW y \in R PROVE \E x \in Slot : client'[x] = y /\ x <= maxi'
      OBVIOUS
    <3>1. PICK x \in Entries : client[x] = y
      BY <2>1, <1>11
    <3>2. x \in Slot /\ x # m /\ x <= maxi
      BY <1>11, <1>12
    <3>4. x \in Int
      BY <1>1, <3>2
    <3>3. x <= maxi'
      BY <3>2, <3>4, <1>1, <1>9
    <3> QED
      BY <3>1, <3>2, <3>3, <1>5
  <2>4. \A x, y \in Slot : client'[x] = client'[y] /\ client'[x] \in R => x = y
    BY <2>2, <1>5, <1>11, <1>12
  <2> HIDE DEF R
  <2>5. Cardinality({j \in 0 .. maxi' : client'[j] \in R}) = Cardinality(R)
        /\ 0 .. maxi' \subseteq Slot
    <3>1. 0 .. maxi' \subseteq Slot
      BY <1>1, <1>9 DEF Slot
    <3> QED
      BY <3>1, <2>3, <2>4, <1>9, AsManyReady
  <2>6. Due' = {j \in 0 .. maxi' : client'[j] \in R}
    <3>1. \A x \in Slot : client'[x] \in rset <=> client'[x] \in R
      BY <2>1 DEF R
    <3> QED
      BY <1>21, <2>5, <3>1 DEF Due
  <2>7. nready' = Cardinality(Due')
    BY <1>18, <1>21, <2>5, <2>6 DEF R
  <2>8. nready' \in 0 .. FD_SETSIZE /\ nready' > 0
    BY <1>1, <1>3, <1>18, <1>21
  <2>9. Round'
    BY <1>21, <2>7, <2>8 DEF Round
  <2> QED
    BY <2>8, <2>9, <1>21, <1>0, <1>1, <1>5, <1>8, <1>9, <1>10, <1>15, <1>17
<1> QED
  BY <1>19, <1>20, <1>21

\* A descriptor that is opened for a client.
LEMMA Opened ==
  ASSUME NEW n, n \notin Clients, NEW c, fd' = WithFd(n, c)
  PROVE  /\ Clients' = Clients \union {n} /\ fd'[n] = c
         /\ \A m \in Clients : fd'[m] = fd[m]
         /\ Accepted' = Accepted \union {c}
<1>1. Clients' = Clients \union {n} /\ fd'[n] = c /\ \A m \in Clients : fd'[m] = fd[m]
  BY DEF WithFd, Clients
<1> QED
  BY <1>1 DEF Accepted

\* A descriptor that is closed.
LEMMA Shut ==
  ASSUME NEW n, fd' = Without(n)
  PROVE  /\ Clients' = Clients \ {n} /\ \A m \in Clients' : fd'[m] = fd[m]
         /\ Accepted' \subseteq Accepted
<1>1. Clients' = Clients \ {n} /\ \A m \in Clients' : fd'[m] = fd[m]
  BY DEF Without, Clients
<1> QED
  BY <1>1 DEF Accepted

\* The descriptor that accept takes.
LEMMA LowestFree ==
  ASSUME FullInv, Free # {}
  PROVE  /\ Min(Free) \in Fds /\ listenfd < Min(Free) /\ Min(Free) < limit
         /\ Min(Free) \notin Clients
<1>1. Free \subseteq Nat
  BY DescriptorRange DEF Free
<1>2. Min(Free) \in Free
  BY <1>1, MinProps
<1> QED
  BY <1>2 DEF Free

\* accept gives the first that waits the lowest descriptor; it is entered, or
\* does not fit the set.
LEMMA AcceptStepS ==
  ASSUME FullInv, ended = "no", S_Accept
  PROVE  FullInv'
<1> DEFINE n == Min(Free)
           c == Head(backlog)
<1>0. /\ pc = "listen" /\ Free # {}
      /\ fd' = WithFd(n, c) /\ backlog' = Tail(backlog)
      /\ server' = server /\ limit' = limit
      /\ failed' = failed /\ connfd' = connfd /\ child' = child /\ lost' = lost
      /\ conn' = conn
  BY DEF S_Accept, forks
<1>1. /\ server = "select" /\ \A d \in Client : child[d] = "none"
      /\ FreeSlots # {} /\ backlog # <<>>
  <2>1. server = "select" /\ \A d \in Client : child[d] = "none"
    BY <1>0, AloneInSelect
  <2> QED
    BY <2>1, <1>0, NeverFull DEF FullInv, Round
<1>2. /\ backlog' \in Seq(Client) /\ Once' /\ c \in Waiting /\ c \in Client
      /\ Waiting' = Waiting \ {c}
  BY <1>0, <1>1, FirstTaken DEF FullInv, TypeOK, Queue, Once
<1>3. n \in Fds /\ listenfd < n /\ n < limit /\ n \notin Clients
  BY <1>0, LowestFree
<1>4. \/ n < FD_SETSIZE /\ S_Add(n)
      \/ /\ ~(n < FD_SETSIZE) /\ ended' = "overflow" /\ pc' = "ended"
         /\ client' = client /\ maxi' = maxi /\ maxfd' = maxfd /\ allset' = allset
         /\ rset' = rset /\ nready' = nready /\ i' = i
  BY <1>1 DEF S_Accept, End
<1> HIDE DEF n, c
<1>5. /\ Clients' = Clients \union {n} /\ fd'[n] = c
      /\ \A m \in Clients : fd'[m] = fd[m]
      /\ Accepted' = Accepted \union {c}
  BY <1>0, <1>3, Opened
<1>6. /\ Clients' \subseteq Fds /\ \A m \in Clients' : fd'[m] \in Client
  BY <1>2, <1>3, <1>5 DEF FullInv, TypeOK
<1>7. Queue' /\ Hands' /\ Answers' /\ Halves'
        /\ \A d \in Client : child'[d] # "SIGPIPE"
  <2>1. /\ pc' \in {"select", "listen", "loop", "ended"}
        /\ ended' # "no" => pc' = "ended"
    BY <1>0, <1>4 DEF S_Add, Counted
  <2>2. Queue'
    BY <1>0, <1>1, <1>2, <1>5, <2>1 DEF FullInv, Queue, Once
  <2>3. Hands'
    BY <1>0, <1>1, <2>1 DEF FullInv, Hands
  <2>4. Answers' /\ Halves'
    BY <1>0, <1>1, <2>1 DEF FullInv, Answers, Halves
  <2> QED
    BY <2>2, <2>3, <2>4, <1>0, <1>1
<1>8. CASE n < FD_SETSIZE /\ S_Add(n)
  <2>1. /\ Table' /\ Round' /\ ended' = "no"
        /\ client' \in [Slot -> Fds \union {-1}]
        /\ maxi' \in Slot \union {-1} /\ maxfd' \in Fds /\ i' \in 0 .. FD_SETSIZE
        /\ allset' \subseteq Slot
        /\ rset' \subseteq allset' \union {Wild} \union Slot
        /\ nready' \in 0 .. FD_SETSIZE /\ pc' \in {"select", "loop"}
    BY <1>0, <1>3, <1>5, <1>8, AddStep
  <2>2. TypeOK'
    BY <2>1, <1>0, <1>2, <1>6 DEF FullInv, TypeOK
  <2>3. EndsOnlyBy'
    BY <2>1, <1>0, <1>7 DEF FullInv, EndsOnlyBy
  <2> QED
    BY <2>1, <2>2, <2>3, <1>7 DEF FullInv
<1>9. CASE /\ ~(n < FD_SETSIZE) /\ ended' = "overflow" /\ pc' = "ended"
           /\ client' = client /\ maxi' = maxi /\ maxfd' = maxfd
           /\ allset' = allset /\ rset' = rset /\ nready' = nready /\ i' = i
  <2>1. limit > FD_SETSIZE
    <3>1. n \in Nat /\ FD_SETSIZE \in Nat /\ limit \in Nat
      BY <1>3, DescriptorRange, ServerAssumption DEF FullInv, TypeOK
    <3> QED
      BY <3>1, <1>3, <1>9
  <2>2. TypeOK'
    BY <1>0, <1>2, <1>6, <1>9 DEF FullInv, TypeOK
  <2>3. Table' /\ Round'
    BY <1>9 DEF Table, Round
  <2>4. EndsOnlyBy'
    BY <2>1, <1>0, <1>7, <1>9 DEF EndsOnlyBy
  <2> QED
    BY <2>2, <2>3, <2>4, <1>7 DEF FullInv
<1> QED
  BY <1>4, <1>8, <1>9

\* The -1 of a failed accept is entered where no client is: the table stays,
\* and the set can get the bit of another descriptor.
LEMMA AcceptFailsStepS ==
  ASSUME FullInv, ended = "no", S_AcceptFails
  PROVE  FullInv'
<1>1. /\ pc = "listen" /\ failed' = TRUE
      /\ server' = server /\ limit' = limit /\ fd' = fd
      /\ connfd' = connfd /\ child' = child /\ lost' = lost
      /\ conn' = conn /\ backlog' = backlog
  BY DEF S_AcceptFails, forks, peers
<1>2. server = "select" /\ \A d \in Client : child[d] = "none"
  BY <1>1, AloneInSelect
<1>3. S_Add(-1)
  BY <1>2, NeverFull DEF S_AcceptFails
<1>4. Clients' = Clients /\ Accepted' = Accepted /\ Waiting' = Waiting
  BY <1>1 DEF Clients, Accepted, Waiting
<1>5. /\ Table' /\ Round' /\ ended' = "no"
      /\ client' \in [Slot -> Fds \union {-1}]
      /\ maxi' \in Slot \union {-1} /\ maxfd' \in Fds /\ i' \in 0 .. FD_SETSIZE
      /\ allset' \subseteq Slot
      /\ rset' \subseteq allset' \union {Wild} \union Slot
      /\ nready' \in 0 .. FD_SETSIZE /\ pc' \in {"select", "loop"}
  BY <1>1, <1>3, <1>4, AddStep
<1>6. TypeOK'
  BY <1>1, <1>4, <1>5 DEF FullInv, TypeOK
<1>7. Halves' /\ Queue' /\ Answers'
  BY <1>1, <1>2, <1>4, <1>5 DEF FullInv, Halves, Queue, Answers
<1>8. Hands'
  BY <1>1, <1>2, <1>5 DEF FullInv, Hands
<1>9. EndsOnlyBy'
  BY <1>1, <1>2, <1>5 DEF EndsOnlyBy
<1> QED
  BY <1>5, <1>6, <1>7, <1>8, <1>9 DEF FullInv

-----------------------------------------------------------------------------
(* The loop of select-model.c. *)

\* The entries of a round.
LEMMA DueEntries ==
  ASSUME FullInv, ended = "no", pc \in {"loop", "write"}
  PROVE  /\ Due \subseteq Slot /\ Due \subseteq Entries /\ Due # {}
         /\ \A j \in Due : j \in Nat /\ i <= j /\ j <= maxi /\ client[j] \in Clients
                           /\ fd[client[j]] \in Client
         /\ nready = Cardinality(Due) /\ nready > 0
<1>1. /\ i \in 0 .. FD_SETSIZE /\ maxi \in Slot \union {-1} /\ -1 \notin rset
      /\ FD_SETSIZE \in Nat /\ server = "select"
  BY AloneInSelect DEF FullInv, TypeOK
<1>2. Due \subseteq Slot
  BY <1>1 DEF Due, Slot
<1>3. Due \subseteq Entries
  BY <1>1, <1>2 DEF Due, Entries
<1>4. \A j \in Due : j \in Nat /\ i <= j /\ j <= maxi
  BY <1>1 DEF Due, Slot
<1>5. \A j \in Due : client[j] \in Clients
  BY <1>1, <1>3 DEF FullInv, Table
<1>6. \A j \in Due : fd[client[j]] \in Client
  BY <1>5 DEF FullInv, TypeOK
<1>7. nready = Cardinality(Due) /\ nready > 0
  BY DEF FullInv, Round
<1>8. Due # {}
  <2>1. Cardinality({}) = 0
    BY FS_EmptySet
  <2> QED
    BY <1>7, <2>1
<1> QED
  BY <1>2, <1>3, <1>4, <1>5, <1>6, <1>7, <1>8

\* When the first entry of the round is dealt with, one less is to be served.
LEMMA GoesOn ==
  ASSUME FullInv, ended = "no", pc \in {"loop", "write"}, NEW j \in Due,
         \A x \in Due : j <= x, Counted(j + 1), maxi' = maxi,
         \A x \in Slot : x # j => client'[x] = client[x]
  PROVE  /\ Round' /\ pc' \in {"select", "loop"} /\ i' \in 0 .. FD_SETSIZE
         /\ nready' \in 0 .. FD_SETSIZE /\ rset' \subseteq rset
<1>1. /\ Due \subseteq Slot
      /\ \A x \in Due : x \in Nat /\ i <= x /\ x <= maxi
      /\ nready = Cardinality(Due) /\ nready > 0
  BY DueEntries
<1>2. /\ FD_SETSIZE \in Nat /\ j \in 0 .. FD_SETSIZE - 1 /\ i \in Nat
      /\ maxi \in Slot \union {-1} /\ nready \in 0 .. FD_SETSIZE
  BY <1>1, ServerAssumption DEF FullInv, TypeOK, Slot
<1>3. Cardinality(Due \ {j}) = nready - 1
  BY <1>1, OneLess
<1>4. \/ pc' = "select" /\ rset' = {} /\ nready' = 0 /\ i' = 0
      \/ /\ pc' = "loop" /\ nready # 1 /\ nready' = nready - 1 /\ i' = j + 1
         /\ rset' = rset
  BY DEF Counted
<1>5. CASE pc' = "select" /\ rset' = {} /\ nready' = 0 /\ i' = 0
  BY <1>2, <1>5 DEF Round
<1>6. CASE /\ pc' = "loop" /\ nready # 1 /\ nready' = nready - 1 /\ i' = j + 1
           /\ rset' = rset
  <2>1. \A x \in j + 1 .. maxi : x \in Slot /\ x # j /\ x \in i .. maxi
    BY <1>1, <1>2 DEF Slot
  <2>2. \A x \in Due \ {j} : x \in j + 1 .. maxi
    BY <1>1, <1>2
  <2>3. Due' = Due \ {j}
    <3>1. Due' = {x \in j + 1 .. maxi : client'[x] \in rset}
      BY <1>6 DEF Due
    <3>2. \A x \in j + 1 .. maxi : client'[x] \in rset <=> x \in Due
      BY <2>1 DEF Due
    <3> QED
      BY <3>1, <3>2, <2>1, <2>2
  <2>4. nready' = Cardinality(Due') /\ nready' > 0 /\ nready' \in 0 .. FD_SETSIZE
        /\ i' \in 0 .. FD_SETSIZE
    BY <1>1, <1>2, <1>3, <1>6, <2>3
  <2> QED
    BY <1>6, <2>4 DEF Round
<1> QED
  BY <1>4, <1>5, <1>6

\* A client's descriptor is closed and leaves the table and the set together.
LEMMA CloseKeepsTable ==
  ASSUME FullInv, ended = "no", server = "select", NEW j \in Entries, S_Close(j),
         maxi' = maxi, maxfd' = maxfd, failed' = failed
  PROVE  /\ Table' /\ client' \in [Slot -> Fds \union {-1}]
         /\ Clients' \subseteq Clients /\ \A m \in Clients' : fd'[m] = fd[m]
         /\ Accepted' \subseteq Accepted /\ allset' \subseteq allset
         /\ \A x \in Slot : x # j => client'[x] = client[x]
<1>1. /\ fd' = Without(client[j]) /\ client' = [client EXCEPT ![j] = -1]
      /\ allset' = allset \ {client[j]}
  BY DEF S_Close
<1>2. /\ Clients' = Clients \ {client[j]} /\ \A m \in Clients' : fd'[m] = fd[m]
      /\ Accepted' \subseteq Accepted
  BY <1>1, Shut
<1>3. /\ \A n \in Entries : client[n] \in Clients /\ n <= maxi /\ client[n] <= maxfd
      /\ \A m \in Clients : \E n \in Entries : client[n] = m
      /\ \A m, n \in Entries : client[m] = client[n] => m = n
      /\ \A m \in Clients : listenfd < m /\ m < FD_SETSIZE
      /\ Clients \union {listenfd} \subseteq allset
      /\ allset \subseteq Clients \union {listenfd}
                            \union (IF failed THEN {Wild} ELSE {})
  BY DEF FullInv, Table
<1>4. /\ client' \in [Slot -> Fds \union {-1}] /\ client'[j] = -1
      /\ \A x \in Slot : x # j => client'[x] = client[x]
  BY <1>1 DEF FullInv, TypeOK, Entries
<1>5. /\ Entries' \subseteq Entries /\ j \notin Entries'
      /\ \A x \in Entries : x # j => x \in Entries' /\ client'[x] = client[x]
  BY <1>4 DEF Entries
<1>6. listenfd # client[j]
  BY <1>3 DEF listenfd
<1>7. /\ \A n \in Entries' : client'[n] \in Clients' /\ n <= maxi' /\ client'[n] <= maxfd'
      /\ \A m \in Clients' : \E n \in Entries' : client'[n] = m
      /\ \A m, n \in Entries' : client'[m] = client'[n] => m = n
  <2>1. \A n \in Entries' : /\ n \in Entries /\ n # j /\ client'[n] = client[n]
                            /\ client[n] # client[j]
    BY <1>3, <1>5
  <2> QED
    BY <2>1, <1>2, <1>3, <1>5
<1>8. /\ \A m \in Clients' : listenfd < m /\ m < FD_SETSIZE
      /\ Clients' \union {listenfd} \subseteq allset'
      /\ allset' \subseteq Clients' \union {listenfd}
                             \union (IF failed' THEN {Wild} ELSE {})
  BY <1>1, <1>2, <1>3, <1>6
<1>9. Table'
  BY <1>7, <1>8 DEF Table
<1> QED
  BY <1>1, <1>2, <1>4, <1>9

\* A read puts data in hand, tells an error, or closes at the end.
LEMMA ReadStepS ==
  ASSUME FullInv, ended = "no", S_Read
  PROVE  FullInv'
<1> DEFINE j == Min(Due)
           c == fd[client[j]]
<1>0. /\ pc = "loop" /\ Due # {} /\ conn' = AfterRead(c)
      /\ IF ReadGives(c) = "end" THEN S_Close(j)
         ELSE fd' = fd /\ client' = client /\ allset' = allset
      /\ IF ReadGives(c) = "data"
         THEN pc' = "write" /\ i' = j /\ rset' = rset /\ nready' = nready
         ELSE Counted(j + 1)
      /\ server' = server /\ limit' = limit /\ backlog' = backlog
      /\ maxi' = maxi /\ maxfd' = maxfd /\ failed' = failed /\ ended' = ended
      /\ connfd' = connfd /\ child' = child /\ lost' = lost
  BY DEF S_Read, forks
<1>1. /\ server = "select" /\ \A d \in Client : child[d] = "none"
  BY <1>0, AloneInSelect
<1>2. /\ Due \subseteq Slot /\ Due \subseteq Entries
      /\ \A x \in Due : x \in Nat /\ i <= x /\ x <= maxi /\ client[x] \in Clients
                        /\ fd[client[x]] \in Client
      /\ nready = Cardinality(Due) /\ nready > 0
  BY <1>0, DueEntries
<1>3. j \in Due /\ \A x \in Due : j <= x
  <2>1. Due \subseteq Nat
    BY <1>2
  <2> QED
    BY <1>0, <2>1, MinProps
<1> HIDE DEF j
<1>4. c \in Client /\ j \in Slot /\ j \in Entries
  BY <1>2, <1>3
<1>5. \A d \in Client : conn[d].hand = FALSE
  <2>1. \A d \in Client : ~conn[d].hand
    BY <1>0, <1>1 DEF FullInv, Hands
  <2>2. \A d \in Client : conn[d].hand \in BOOLEAN
    BY DEF FullInv, TypeOK, Connection
  <2> QED
    BY <2>1, <2>2
<1> HIDE DEF c
<1>6. /\ conn' \in [Client -> Connection]
      /\ \A d \in Client : d # c => conn'[d] = conn[d]
      /\ Answered(conn'[c]) /\ conn'[c].hand = (ReadGives(c) = "data")
      /\ ReadGives(c) \in {"data", "error", "end"}
      /\ conn'[c].up = conn[c].up \/ conn'[c].up = "gone"
  BY <1>0, <1>4, <1>5, ReadConn DEF FullInv, TypeOK, Answers
<1>7. Waiting' = Waiting
  BY <1>0 DEF Waiting
<1>8. /\ Table' /\ client' \in [Slot -> Fds \union {-1}]
      /\ Clients' \subseteq Clients /\ \A m \in Clients' : fd'[m] = fd[m]
      /\ Accepted' \subseteq Accepted /\ allset' \subseteq allset
      /\ \A x \in Slot : x # j => client'[x] = client[x]
  <2>1. CASE ReadGives(c) = "end"
    BY <2>1, <1>0, <1>1, <1>4, CloseKeepsTable
  <2>2. CASE ReadGives(c) # "end"
    <3>1. /\ Clients' = Clients /\ Entries' = Entries /\ Accepted' = Accepted
          /\ fd' = fd /\ client' = client /\ allset' = allset
      BY <2>2, <1>0 DEF Clients, Entries, Accepted
    <3> QED
      BY <3>1, <1>0 DEF FullInv, Table, TypeOK
  <2> QED
    BY <2>1, <2>2
<1>9. /\ Round' /\ pc' \in {"select", "loop", "write"} /\ i' \in 0 .. FD_SETSIZE
      /\ nready' \in 0 .. FD_SETSIZE /\ rset' \subseteq rset
      /\ pc' = "write" <=> ReadGives(c) = "data"
  <2>1. CASE ReadGives(c) = "data"
    <3>1. /\ pc' = "write" /\ i' = j /\ rset' = rset /\ nready' = nready
          /\ client' = client
      BY <2>1, <1>0
    <3>2. \A x : x \in j .. maxi /\ client[x] \in rset => x \in Due
      <4>1. i \in Nat /\ j \in Nat /\ maxi \in Int /\ i <= j
        BY <1>2, <1>3, ServerAssumption DEF FullInv, TypeOK, Slot
      <4> QED
        BY <4>1 DEF Due
    <3>3. \A x \in Due : x \in j .. maxi /\ client[x] \in rset
      <4>1. j \in Nat /\ maxi \in Int
        BY <1>2, <1>3, ServerAssumption DEF FullInv, TypeOK, Slot
      <4>2. \A x \in Due : x \in j .. maxi
        BY <4>1, <1>2, <1>3
      <4> QED
        BY <4>2 DEF Due
    <3>4. Due' = Due
      <4>1. Due' = {x \in j .. maxi : client[x] \in rset}
        BY <3>1, <1>0 DEF Due
      <4> QED
        BY <4>1, <3>2, <3>3
    <3>5. Round'
      BY <3>1, <3>4, <1>2, <1>3 DEF Round
    <3>6. i' \in 0 .. FD_SETSIZE
      BY <3>1, <1>4, ServerAssumption DEF Slot
    <3> QED
      BY <2>1, <3>1, <3>5, <3>6 DEF FullInv, TypeOK
  <2>2. CASE ReadGives(c) # "data"
    <3>1. Counted(j + 1)
      BY <2>2, <1>0
    <3>2. /\ Round' /\ pc' \in {"select", "loop"} /\ i' \in 0 .. FD_SETSIZE
          /\ nready' \in 0 .. FD_SETSIZE /\ rset' \subseteq rset
      BY <3>1, <1>0, <1>3, <1>8, GoesOn
    <3> QED
      BY <2>2, <3>2
  <2> QED
    BY <2>1, <2>2
<1>10. TypeOK'
  <2>1. rset \subseteq Slot
    BY ServerAssumption DEF FullInv, TypeOK, Slot
  <2>2. Clients' \subseteq Fds /\ \A m \in Clients' : fd'[m] \in Client
    BY <1>8 DEF FullInv, TypeOK
  <2>3. allset' \subseteq Slot /\ rset' \subseteq allset' \union {Wild} \union Slot
    BY <2>1, <1>8, <1>9 DEF FullInv, TypeOK
  <2> QED
    BY <2>2, <2>3, <1>0, <1>6, <1>8, <1>9 DEF FullInv, TypeOK
<1>11. Halves'
  BY <1>0, <1>1, <1>9 DEF Halves
<1>12. Queue'
  <2>1. \A d \in Client : conn'[d].up = "no" => conn[d].up = "no"
    BY <1>6
  <2> QED
    BY <2>1, <1>0, <1>7, <1>8, <1>9 DEF FullInv, Queue
<1>13. Hands'
  <2>1. ASSUME pc' = "write" PROVE fd'[client'[i']] = c
    <3>1. ReadGives(c) = "data"
      BY <2>1, <1>9
    <3>2. fd' = fd /\ client' = client /\ i' = j
      BY <3>1, <1>0
    <3> QED
      BY <3>2 DEF c
  <2>2. \A d \in Client : conn'[d].hand <=> (d = c /\ pc' = "write")
    BY <1>5, <1>6, <1>9
  <2> QED
    BY <2>1, <2>2, <1>0, <1>1 DEF Hands
<1>14. Answers'
  BY <1>0, <1>1, <1>6 DEF FullInv, Answers
<1>15. EndsOnlyBy'
  BY <1>0, <1>1 DEF EndsOnlyBy
<1> QED
  BY <1>8, <1>9, <1>10, <1>11, <1>12, <1>13, <1>14, <1>15 DEF FullInv

\* A write gives back what is in hand.
LEMMA WriteStepS ==
  ASSUME FullInv, ended = "no", S_Write
  PROVE  FullInv'
<1> DEFINE c == fd[client[i]]
<1>0. /\ pc = "write" /\ WriteReturns(c) /\ conn' = AfterWrite(c)
      /\ \/ /\ WriteKills(c) /\ ended' = "SIGPIPE" /\ pc' = "ended"
            /\ rset' = rset /\ nready' = nready /\ i' = i
         \/ Counted(i + 1) /\ ended' = ended
      /\ server' = server /\ limit' = limit /\ fd' = fd /\ client' = client
      /\ maxi' = maxi /\ maxfd' = maxfd /\ allset' = allset
      /\ failed' = failed /\ backlog' = backlog
      /\ connfd' = connfd /\ child' = child /\ lost' = lost
  BY DEF S_Write, End, forks
<1>1. /\ server = "select" /\ \A d \in Client : child[d] = "none"
  BY <1>0, AloneInSelect
<1>2. /\ i \in Due /\ \A x \in Due : i <= x
      /\ c \in Client
  BY <1>0, DueEntries DEF FullInv, Round
<1>3. conn[c].hand /\ conn[c].up # "no"
      /\ \A d \in Client : d # c => ~conn[d].hand
  <2>1. conn[c].hand /\ \A d \in Client : d # c => ~conn[d].hand
    BY <1>0, <1>1, <1>2 DEF FullInv, Hands
  <2>2. c \in Accepted
    BY <1>0, <1>2, DueEntries DEF Accepted
  <2> QED
    BY <2>1, <2>2, <1>2 DEF FullInv, Queue
<1>4. c = fd'[client'[i]]
  BY <1>0
<1> HIDE DEF c
<1>5. /\ conn' \in [Client -> Connection]
      /\ \A d \in Client : d # c => conn'[d] = conn[d]
      /\ Answered(conn'[c]) /\ conn'[c].hand = FALSE
      /\ conn'[c].up = conn[c].up
      /\ WriteKills(c) => conn'[c].up = "gone" /\ conn'[c].left > 1
  BY <1>0, <1>2, <1>3, WriteConn DEF FullInv, TypeOK, Answers
<1>6. /\ Clients' = Clients /\ Entries' = Entries /\ Accepted' = Accepted
      /\ Waiting' = Waiting
  BY <1>0 DEF Clients, Entries, Accepted, Waiting
<1>7. /\ Round' /\ pc' \in {"select", "loop", "ended"} /\ i' \in 0 .. FD_SETSIZE
      /\ nready' \in 0 .. FD_SETSIZE /\ rset' \subseteq rset
      /\ ended' = "no" \/ /\ WriteKills(c) /\ ended' = "SIGPIPE" /\ pc' = "ended"
                          /\ i' = i
      /\ ended' = "no" => pc' # "ended"
  <2>1. CASE Counted(i + 1) /\ ended' = ended
    <3>1. /\ Round' /\ pc' \in {"select", "loop"} /\ i' \in 0 .. FD_SETSIZE
          /\ nready' \in 0 .. FD_SETSIZE /\ rset' \subseteq rset
      BY <2>1, <1>0, <1>2, GoesOn
    <3> QED
      BY <2>1, <3>1
  <2>2. CASE /\ WriteKills(c) /\ ended' = "SIGPIPE" /\ pc' = "ended"
             /\ rset' = rset /\ nready' = nready /\ i' = i
    <3>1. Round'
      BY <2>2 DEF Round
    <3> QED
      BY <2>2, <3>1 DEF FullInv, TypeOK
  <2> QED
    BY <1>0, <2>1, <2>2
<1>8. TypeOK'
  <2>1. rset' \subseteq allset' \union {Wild} \union Slot
    BY <1>0, <1>7 DEF FullInv, TypeOK
  <2> QED
    BY <2>1, <1>0, <1>5, <1>6, <1>7 DEF FullInv, TypeOK
<1>9. Halves' /\ Table'
  BY <1>0, <1>1, <1>6, <1>7 DEF FullInv, Halves, Table
<1>10. Queue'
  <2>1. \A d \in Client : conn'[d].up = conn[d].up
    BY <1>5
  <2> QED
    BY <2>1, <1>0, <1>6, <1>7 DEF FullInv, Queue
<1>11. Hands'
  BY <1>0, <1>1, <1>3, <1>5, <1>7 DEF Hands
<1>12. Answers'
  BY <1>0, <1>1, <1>5 DEF FullInv, Answers
<1>13. EndsOnlyBy'
  BY <1>0, <1>1, <1>4, <1>5, <1>7 DEF EndsOnlyBy
<1> QED
  BY <1>7, <1>8, <1>9, <1>10, <1>11, <1>12, <1>13 DEF FullInv

-----------------------------------------------------------------------------
(* multi-process-model.c *)

\* accept gives the parent the lowest descriptor for the first that waits.
LEMMA AcceptStepF ==
  ASSUME FullInv, ended = "no", F_Accept
  PROVE  FullInv'
<1> DEFINE n == Min(Free)
           c == Head(backlog)
<1>0. /\ pc = "accept" /\ Free # {} /\ backlog # <<>>
      /\ connfd' = n /\ fd' = WithFd(n, c) /\ backlog' = Tail(backlog)
      /\ pc' = "fork"
      /\ server' = server /\ limit' = limit /\ client' = client /\ maxi' = maxi
      /\ maxfd' = maxfd /\ allset' = allset /\ rset' = rset /\ nready' = nready
      /\ i' = i /\ failed' = failed /\ ended' = ended
      /\ child' = child /\ lost' = lost /\ conn' = conn
  BY DEF F_Accept, select
<1>1. server = "fork"
  BY <1>0 DEF FullInv, TypeOK, Halves
<1>2. /\ backlog' \in Seq(Client) /\ Once' /\ c \in Waiting /\ c \in Client
      /\ Waiting' = Waiting \ {c}
  BY <1>0, FirstTaken DEF FullInv, TypeOK, Queue, Once
<1>3. n \in Fds /\ n \notin Clients
  BY <1>0, LowestFree
<1> HIDE DEF n, c
<1>4. /\ Clients' = Clients \union {n} /\ fd'[n] = c
      /\ \A m \in Clients : fd'[m] = fd[m]
      /\ Accepted' = Accepted \union {c}
  BY <1>0, <1>3, Opened
<1>5. TypeOK'
  <2>1. Clients' \subseteq Fds /\ \A m \in Clients' : fd'[m] \in Client
    BY <1>2, <1>3, <1>4 DEF FullInv, TypeOK
  <2> QED
    BY <2>1, <1>0, <1>2, <1>3 DEF FullInv, TypeOK
<1>6. Halves' /\ Table' /\ Round'
  BY <1>0, <1>1 DEF Halves, Table, Round
<1>7. Queue'
  BY <1>0, <1>2, <1>4 DEF FullInv, Queue, Once
<1>8. Hands' /\ Answers' /\ EndsOnlyBy'
  BY <1>0 DEF FullInv, Hands, Answers, EndsOnlyBy
<1> QED
  BY <1>5, <1>6, <1>7, <1>8 DEF FullInv

\* What changes in the parent alone, and the descriptors it closes.
LEMMA ParentKeeps ==
  ASSUME FullInv, ended = "no", pc \in {"accept", "fork", "close"},
         pc' \in {"accept", "fork", "close"}, connfd' \in Fds \union {-1},
         Clients' \subseteq Clients, \A m \in Clients' : fd'[m] = fd[m],
         Accepted' \subseteq Accepted,
         pc' \in {"fork", "close"} /\ connfd' # -1 => connfd' \in Clients',
         pc' = "fork" => connfd' = -1,
         server' = server, limit' = limit, conn' = conn, backlog' = backlog,
         UNCHANGED select, child' = child, lost' = lost
  PROVE  FullInv'
<1>1. /\ client' = client /\ maxi' = maxi /\ maxfd' = maxfd /\ allset' = allset
      /\ rset' = rset /\ nready' = nready /\ i' = i /\ failed' = failed
      /\ ended' = ended /\ server = "fork" /\ Waiting' = Waiting
  BY DEF select, FullInv, TypeOK, Halves, Waiting
<1>2. TypeOK'
  BY <1>1 DEF FullInv, TypeOK
<1>3. Halves' /\ Table' /\ Round'
  BY <1>1 DEF Halves, Table, Round
<1>4. Queue'
  BY <1>1 DEF FullInv, Queue
<1>5. Hands' /\ Answers' /\ EndsOnlyBy'
  BY <1>1 DEF FullInv, Hands, Answers, EndsOnlyBy
<1> QED
  BY <1>2, <1>3, <1>4, <1>5 DEF FullInv

\* A failed accept, a failed fork and the close change nothing that matters to
\* the children.
LEMMA ParentStepF ==
  ASSUME FullInv, ended = "no", F_AcceptFails \/ F_ForkFails \/ F_Close
  PROVE  FullInv'
<1>1. CASE F_AcceptFails \/ F_ForkFails
  <2>1. /\ pc \in {"accept", "fork"} /\ pc' \in {"accept", "fork"} /\ connfd' = -1
        /\ fd' = fd /\ server' = server /\ limit' = limit
        /\ conn' = conn /\ backlog' = backlog
        /\ UNCHANGED select /\ child' = child /\ lost' = lost
    BY <1>1 DEF F_AcceptFails, F_ForkFails, peers
  <2>2. Clients' = Clients /\ Accepted' = Accepted
    BY <2>1 DEF Clients, Accepted
  <2> QED
    BY <2>1, <2>2, ParentKeeps
<1>2. CASE F_Close
  <2>1. /\ pc = "close" /\ pc' = "accept" /\ connfd' = -1
        /\ fd' = Without(connfd) /\ server' = server /\ limit' = limit
        /\ conn' = conn /\ backlog' = backlog
        /\ UNCHANGED select /\ child' = child /\ lost' = lost
    BY <1>2 DEF F_Close, peers
  <2>2. /\ Clients' \subseteq Clients /\ \A m \in Clients' : fd'[m] = fd[m]
        /\ Accepted' \subseteq Accepted
    BY <2>1, Shut
  <2> QED
    BY <2>1, <2>2, ParentKeeps
<1> QED
  BY <1>1, <1>2

\* A child is made for a client that had none, or for nobody.
LEMMA ForkStepF ==
  ASSUME FullInv, ended = "no", F_Fork
  PROVE  FullInv'
<1> DEFINE c == fd[connfd]
<1>0. /\ pc = "fork" /\ Processes < ProcLimit /\ pc' = "close"
      /\ \/ connfd = -1 /\ lost' = lost + 1 /\ child' = child
         \/ connfd # -1 /\ child' = [child EXCEPT ![c] = "read"] /\ lost' = lost
      /\ server' = server /\ limit' = limit /\ fd' = fd /\ client' = client
      /\ maxi' = maxi /\ maxfd' = maxfd /\ allset' = allset /\ rset' = rset
      /\ nready' = nready /\ i' = i /\ failed' = failed /\ ended' = ended
      /\ connfd' = connfd /\ conn' = conn /\ backlog' = backlog
  BY DEF F_Fork, select, peers
<1>1. server = "fork"
  BY <1>0 DEF FullInv, TypeOK, Halves
<1>2. lost' \in 0 .. ProcLimit
  <2> DEFINE P == {d \in Client : child[d] # "none"}
  <2>1. IsFiniteSet(P)
    BY ServerAssumption, FS_Subset
  <2>2. Cardinality(P) \in Nat
    BY <2>1, FS_CardinalityType
  <2>3. Cardinality(P) + lost < ProcLimit
    BY <1>0 DEF Processes
  <2> HIDE DEF P
  <2>4. lost \in Nat /\ ProcLimit \in Nat /\ lost <= ProcLimit
    BY ServerAssumption DEF FullInv, TypeOK
  <2>5. lost + 1 <= ProcLimit
    BY <2>2, <2>3, <2>4
  <2> QED
    BY <2>4, <2>5, <1>0
<1>3. Clients' = Clients /\ Accepted' = Accepted /\ Waiting' = Waiting
  BY <1>0 DEF Clients, Accepted, Waiting
<1>4. connfd # -1 => /\ connfd \in Clients /\ c \in Client /\ child[c] = "none"
                     /\ c \in Accepted
  BY <1>0 DEF FullInv, TypeOK, Queue, Accepted
<1> HIDE DEF c
<1>5. /\ child' \in [Client -> {"none", "read", "write", "exited", "SIGPIPE"}]
      /\ \A d \in Client : \/ child'[d] = child[d]
                           \/ /\ connfd # -1 /\ d = c
                              /\ child[d] = "none" /\ child'[d] = "read"
  BY <1>0, <1>4 DEF FullInv, TypeOK
<1>6. TypeOK'
  BY <1>0, <1>2, <1>3, <1>5 DEF FullInv, TypeOK
<1>7. Halves' /\ Table' /\ Round'
  BY <1>0, <1>1 DEF FullInv, Halves, Table, Round
<1>8. Queue'
  <2>1. \A d \in Client : conn[d].up = "no" => d # c \/ connfd = -1
    BY <1>4 DEF FullInv, Queue
  <2>2. \A d \in Waiting : d # c \/ connfd = -1
    BY <1>4 DEF FullInv, Queue
  <2>3. Waiting \subseteq Client
    BY LenProperties DEF FullInv, TypeOK, Waiting
  <2> QED
    BY <2>1, <2>2, <2>3, <1>0, <1>3, <1>4, <1>5 DEF FullInv, Queue
<1>9. Hands'
  BY <1>0, <1>5 DEF FullInv, Hands
<1>10. Answers' /\ EndsOnlyBy'
  BY <1>0, <1>5 DEF FullInv, Answers, EndsOnlyBy
<1> QED
  BY <1>6, <1>7, <1>8, <1>9, <1>10 DEF FullInv

\* A child reads into its hand, goes on after an error, exits at the end; it
\* writes what it has, and is killed only by a client that went early.
LEMMA ChildStepF ==
  ASSUME FullInv, ended = "no", NEW c \in Client, ChildStep(c)
  PROVE  FullInv'
<1>0. /\ child[c] \in {"read", "write"}
      /\ server' = server /\ limit' = limit /\ fd' = fd /\ pc' = pc
      /\ client' = client /\ maxi' = maxi /\ maxfd' = maxfd /\ allset' = allset
      /\ rset' = rset /\ nready' = nready /\ i' = i /\ failed' = failed
      /\ ended' = ended /\ connfd' = connfd /\ lost' = lost /\ backlog' = backlog
  BY DEF ChildStep, C_Read, C_Write, select
<1>1. server = "fork" /\ pc \in {"accept", "fork", "close"}
  BY <1>0 DEF FullInv, TypeOK, Halves
<1>2. conn[c].up # "no" /\ c \notin Waiting
      /\ (pc = "fork" /\ connfd # -1 => fd[connfd] # c)
  BY <1>0 DEF FullInv, Queue
<1>3. conn[c].hand <=> child[c] = "write"
  BY <1>1 DEF FullInv, Hands
<1>4. /\ conn' \in [Client -> Connection]
      /\ \A d \in Client : d # c => conn'[d] = conn[d] /\ child'[d] = child[d]
      /\ child' \in [Client -> {"none", "read", "write", "exited", "SIGPIPE"}]
      /\ Answered(conn'[c]) /\ conn'[c].up # "no"
      /\ conn'[c].hand <=> child'[c] = "write"
      /\ child'[c] = "SIGPIPE" => conn'[c].up = "gone" /\ conn'[c].left > 1
  <2>1. CASE C_Read(c)
    <3> DEFINE s == CASE ReadGives(c) = "data"  -> "write"
                      [] ReadGives(c) = "error" -> "read"
                      [] ReadGives(c) = "end"   -> "exited"
    <3>1. /\ child[c] = "read" /\ conn' = AfterRead(c)
          /\ child' = [child EXCEPT ![c] = s]
      BY <2>1 DEF C_Read
    <3>2. /\ conn' \in [Client -> Connection]
          /\ \A d \in Client : d # c => conn'[d] = conn[d]
          /\ Answered(conn'[c]) /\ conn'[c].hand = (ReadGives(c) = "data")
          /\ ReadGives(c) \in {"data", "error", "end"}
          /\ conn'[c].up = conn[c].up \/ conn'[c].up = "gone"
      BY <3>1, <1>3, ReadConn DEF FullInv, TypeOK, Answers
    <3>3. s \in {"write", "read", "exited"} /\ (s = "write" <=> ReadGives(c) = "data")
      BY <3>2
    <3> HIDE DEF s
    <3>4. /\ child' \in [Client -> {"none", "read", "write", "exited", "SIGPIPE"}]
          /\ child'[c] = s /\ \A d \in Client : d # c => child'[d] = child[d]
      BY <3>1, <3>3 DEF FullInv, TypeOK
    <3> QED
      BY <3>2, <3>3, <3>4, <1>2
  <2>2. CASE C_Write(c)
    <3> DEFINE s == IF WriteKills(c) THEN "SIGPIPE" ELSE "read"
    <3>1. /\ child[c] = "write" /\ WriteReturns(c) /\ conn' = AfterWrite(c)
          /\ child' = [child EXCEPT ![c] = s]
      BY <2>2 DEF C_Write
    <3>2. /\ conn' \in [Client -> Connection]
          /\ \A d \in Client : d # c => conn'[d] = conn[d]
          /\ Answered(conn'[c]) /\ conn'[c].hand = FALSE
          /\ conn'[c].up = conn[c].up
          /\ WriteKills(c) => conn'[c].up = "gone" /\ conn'[c].left > 1
      BY <3>1, <1>2, <1>3, WriteConn DEF FullInv, TypeOK, Answers
    <3>3. s \in {"SIGPIPE", "read"} /\ (s = "SIGPIPE" => WriteKills(c))
      OBVIOUS
    <3> HIDE DEF s
    <3>4. /\ child' \in [Client -> {"none", "read", "write", "exited", "SIGPIPE"}]
          /\ child'[c] = s /\ \A d \in Client : d # c => child'[d] = child[d]
      BY <3>1, <3>3 DEF FullInv, TypeOK
    <3> QED
      BY <3>2, <3>3, <3>4, <1>2
  <2> QED
    BY <2>1, <2>2 DEF ChildStep
<1>5. Clients' = Clients /\ Accepted' = Accepted /\ Waiting' = Waiting
  BY <1>0 DEF Clients, Accepted, Waiting
<1>6. TypeOK'
  BY <1>0, <1>4, <1>5 DEF FullInv, TypeOK
<1>7. Halves' /\ Table' /\ Round'
  BY <1>0, <1>1 DEF FullInv, Halves, Table, Round
<1>8. Queue'
  <2>1. \A d \in Client : conn'[d].up = "no" => d # c /\ conn[d].up = "no"
                                                /\ child'[d] = child[d]
    BY <1>4
  <2>2. \A d \in Waiting : d \in Client /\ d # c /\ child'[d] = child[d]
    BY <1>2, <1>4, LenProperties DEF FullInv, TypeOK, Waiting
  <2>3. pc = "fork" /\ connfd # -1 => child'[fd[connfd]] = "none"
    BY <1>2, <1>4 DEF FullInv, TypeOK, Queue
  <2> QED
    BY <2>1, <2>2, <2>3, <1>0, <1>5 DEF FullInv, Queue
<1>9. Hands'
  BY <1>0, <1>1, <1>4 DEF FullInv, Hands
<1>10. Answers' /\ EndsOnlyBy'
  BY <1>0, <1>4 DEF FullInv, Answers, EndsOnlyBy
<1> QED
  BY <1>6, <1>7, <1>8, <1>9, <1>10 DEF FullInv

-----------------------------------------------------------------------------
(* The invariant. *)

\* The servers start with no client.
LEMMA InitInv == Init => FullInv
<1> SUFFICES ASSUME Init PROVE FullInv
  OBVIOUS
<1>1. /\ conn = [c \in Client |-> Blank("no")] /\ backlog = <<>>
      /\ server \in {"select", "fork"} /\ limit \in Limits /\ fd = <<>>
      /\ pc = (IF server = "select" THEN "select" ELSE "accept")
      /\ client = [n \in Slot |-> -1] /\ maxi = -1 /\ maxfd = listenfd
      /\ allset = {listenfd} /\ rset = {} /\ nready = 0 /\ i = 0
      /\ failed = FALSE /\ ended = "no"
      /\ connfd = -1 /\ child = [c \in Client |-> "none"] /\ lost = 0
  BY DEF Init, PeersInit
<1>2. Clients = {}
  BY <1>1 DEF Clients
<1>3. Entries = {} /\ Accepted = {} /\ Waiting = {}
  BY <1>1, <1>2 DEF Entries, Accepted, Waiting
<1>4. Blank("no") \in Connection /\ Answered(Blank("no"))
  BY ServerAssumption DEF Blank, Connection, Answered, Unanswered
<1>5. listenfd \in Slot /\ listenfd \in Fds /\ FD_SETSIZE \in Nat /\ ProcLimit \in Nat
  BY ServerAssumption, DescriptorRange DEF Slot, listenfd
<1>6. TypeOK
  <2>1. conn \in [Client -> Connection] /\ backlog \in Seq(Client)
    BY <1>1, <1>4, EmptySeq
  <2>2. /\ server \in {"select", "fork"} /\ limit \in Limits /\ Clients \subseteq Fds
        /\ \A n \in Clients : fd[n] \in Client
        /\ pc \in {"select", "accept"}
    BY <1>1, <1>2
  <2>3. /\ client \in [Slot -> Fds \union {-1}]
        /\ maxi \in Slot \union {-1} /\ maxfd \in Fds /\ i \in 0 .. FD_SETSIZE
        /\ allset \subseteq Slot /\ rset \subseteq allset \union {Wild} \union Slot
        /\ nready \in 0 .. FD_SETSIZE
    BY <1>1, <1>5
  <2>4. /\ failed \in BOOLEAN /\ ended \in {"no", "SIGPIPE", "EBADF", "full", "overflow"}
        /\ connfd \in Fds \union {-1}
    BY <1>1
  <2>5. child \in [Client -> {"none", "read", "write", "exited", "SIGPIPE"}]
    BY <1>1
  <2>6. lost \in 0 .. ProcLimit
    BY <1>1, <1>5
  <2> QED
    BY <2>1, <2>2, <2>3, <2>4, <2>5, <2>6 DEF TypeOK
<1>7. Halves /\ Table /\ Round
  BY <1>1, <1>2, <1>3 DEF Halves, Table, Round
<1>8. Queue
  BY <1>1, <1>2, <1>3 DEF Queue
<1>9. Hands
  BY <1>1 DEF Hands, Blank
<1>10. Answers /\ EndsOnlyBy
  BY <1>1, <1>4 DEF Answers, EndsOnlyBy
<1> QED
  BY <1>6, <1>7, <1>8, <1>9, <1>10 DEF FullInv

\* Every step keeps the invariant.
LEMMA InvStep == FullInv /\ [Next]_vars => FullInv'
<1> SUFFICES ASSUME FullInv, [Next]_vars PROVE FullInv'
  OBVIOUS
<1>1. CASE Next
  <2>1. CASE SelectStep
    BY <1>1, <2>1, SelectStepS, SelectErrorStep, AcceptStepS, AcceptFailsStepS,
       ReadStepS, WriteStepS DEF Next, SelectStep
  <2>2. CASE ParentStep
    BY <1>1, <2>2, AcceptStepF, ForkStepF, ParentStepF DEF Next, ParentStep
  <2>3. CASE \E c \in Client : ChildStep(c)
    BY <1>1, <2>3, ChildStepF DEF Next
  <2>4. CASE \E c \in Client : Peers(c) /\ Outside
    BY <1>1, <2>4, PeersStep DEF Next
  <2> QED
    BY <1>1, <2>1, <2>2, <2>3, <2>4 DEF Next
<1>2. CASE UNCHANGED vars
  <2>1. /\ server' = server /\ limit' = limit /\ fd' = fd /\ pc' = pc
        /\ client' = client /\ maxi' = maxi /\ maxfd' = maxfd /\ allset' = allset
        /\ rset' = rset /\ nready' = nready /\ i' = i /\ failed' = failed
        /\ ended' = ended /\ connfd' = connfd /\ child' = child /\ lost' = lost
        /\ conn' = conn /\ backlog' = backlog
    BY <1>2 DEF vars, select, forks, peers
  <2>2. /\ Clients' = Clients /\ Entries' = Entries /\ Accepted' = Accepted
        /\ Waiting' = Waiting /\ Due' = Due
    BY <2>1 DEF Clients, Entries, Accepted, Waiting, Due
  <2>3. TypeOK' /\ Halves' /\ Table'
    BY <2>1, <2>2 DEF FullInv, TypeOK, Halves, Table
  <2>4. Round' /\ Queue' /\ Hands'
    BY <2>1, <2>2 DEF FullInv, Round, Queue, Hands
  <2>5. Answers' /\ EndsOnlyBy'
    BY <2>1 DEF FullInv, Answers, EndsOnlyBy
  <2> QED
    BY <2>3, <2>4, <2>5 DEF FullInv
<1> QED
  BY <1>1, <1>2

\* The inductive invariant of the servers.
LEMMA ServersInvariance == Spec => []FullInv
  BY InitInv, InvStep, PTL DEF Spec

\* Types, and that whenever the select server calls select its table, its set
\* and its descriptors are the same clients, and that nready counts what the
\* loop has still to serve.
THEOREM ServersTableMatchesSet == Spec => []Inv
<1>1. FullInv => Inv
  <2> SUFFICES ASSUME FullInv PROVE TableMatchesSet
    BY DEF FullInv, Inv
  <2>1. ASSUME pc = "select"
        PROVE  /\ {client[n] : n \in Entries} = Clients
               /\ Cardinality(Entries) = Cardinality(Clients)
               /\ allset \ (IF failed THEN {Wild} \ Clients ELSE {})
                    = Clients \union {listenfd}
               /\ \A n \in Entries : n <= maxi /\ client[n] <= maxfd
    <3>1. server = "select" /\ ended = "no"
      BY <2>1, AloneInSelect DEF FullInv, Halves
    <3>2. /\ \A n \in Entries : client[n] \in Clients /\ n <= maxi /\ client[n] <= maxfd
          /\ \A m \in Clients : \E n \in Entries : client[n] = m
          /\ \A m, n \in Entries : client[m] = client[n] => m = n
          /\ Clients \union {listenfd} \subseteq allset
          /\ allset \subseteq Clients \union {listenfd}
                                \union (IF failed THEN {Wild} ELSE {})
      BY <3>1 DEF FullInv, Table
    <3>3. {client[n] : n \in Entries} = Clients
      BY <3>2
    <3>4. IsFiniteSet(Entries)
      BY SlotsFinite DEF Entries
    <3>5. Cardinality(Entries) = Cardinality(Clients)
      BY <3>2, <3>4, SameCount
    <3>6. listenfd # Wild
      BY ServerAssumption DEF listenfd
    <3>7. allset \ (IF failed THEN {Wild} \ Clients ELSE {})
            = Clients \union {listenfd}
      BY <3>2, <3>6
    <3> QED
      BY <3>2, <3>3, <3>5, <3>7
  <2>2. pc = "loop" => nready = Cardinality(Due) /\ nready > 0
    BY DEF FullInv, Round
  <2> QED
    BY <2>1, <2>2 DEF TableMatchesSet
<1> QED
  BY <1>1, ServersInvariance, PTL

\* A client ends the select server, or its child, only by going away with more
\* than one read's worth unanswered; the server never finds its table full, and
\* comes to its end otherwise only after a failed accept or by a descriptor
\* beyond the set.
THEOREM ServersEndOnlyBy == Spec => []EndsOnlyBy
<1>1. FullInv => EndsOnlyBy
  BY DEF FullInv
<1> QED
  BY <1>1, ServersInvariance, PTL
==============================================================================
