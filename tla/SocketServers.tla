---------------------------- MODULE SocketServers ----------------------------
(***************************************************************************)
(* The echo servers of io/io-models: select-model.c serves all clients in  *)
(* one process, multi-process-model.c forks a process for each.  One of    *)
(* them runs: both bind port 8000.                                         *)
(*                                                                         *)
(* External: accept takes the lowest free descriptor; it fails when there  *)
(* is none (RLIMIT_NOFILE) and may fail for lack of other resources, and   *)
(* leaves the connection in the backlog.  fork fails when there are too    *)
(* many processes (zombies included) or no memory.  FD_SET of -1 is        *)
(* undefined; compiled for x86 it sets bit 31 or 63.  FD_SET of            *)
(* FD_SETSIZE or more writes beyond the set: nothing is said after that.   *)
(***************************************************************************)
EXTENDS Integers, FiniteSets, FiniteSetsExt, TcpClients

CONSTANTS
  FD_SETSIZE,
  Limits,       \* the values of RLIMIT_NOFILE
  Wild,         \* the bit that FD_SET(-1) sets
  ProcLimit     \* how many processes fork can make

listenfd == 3

\* The limits let at least listenfd be open, and one of them is the largest.
ASSUME ServerAssumption ==
  /\ FD_SETSIZE \in Nat /\ FD_SETSIZE > listenfd
  /\ Limits \subseteq Nat /\ \A l \in Limits : l > listenfd
  /\ \E h \in Limits : \A l \in Limits : l <= h
  /\ ProcLimit \in Nat
  /\ Wild \in Nat /\ Wild > listenfd /\ Wild < FD_SETSIZE
  /\ IsFiniteSet(Client) /\ MaxIn \in [Client -> Nat] /\ Window \in Nat

VARIABLES
  server,       \* the one that runs
  limit,        \* its RLIMIT_NOFILE
  fd,           \* its (the parent's) descriptors: the client of each
  pc,           \* where its process (the parent) is
  \* of select-model.c:
  client, maxi, maxfd, allset, rset, nready, i,
  failed,       \* an accept has failed
  ended,        \* how the process came to its end
  \* of multi-process-model.c:
  connfd,       \* what accept returned
  child,        \* what the child of each client does
  lost          \* how many children have no connection

select == <<client, maxi, maxfd, allset, rset, nready, i, failed, ended>>
forks == <<connfd, child, lost>>
vars == <<server, limit, fd, pc, select, forks, peers>>

Clients == DOMAIN fd                    \* descriptors of clients
Slot == 0 .. FD_SETSIZE - 1
Fds == listenfd .. Max(Limits)
Free == {n \in Fds : n > listenfd /\ n < limit /\ n \notin Clients}

TypeOK ==
  /\ server \in {"select", "fork"} /\ limit \in Limits
  /\ Clients \subseteq Fds /\ \A n \in Clients : fd[n] \in Client
  /\ conn \in [Client -> Connection] /\ backlog \in Seq(Client)
  /\ pc \in {"select", "listen", "loop", "write", "accept", "fork", "close", "ended"}
  /\ client \in [Slot -> Fds \union {-1}]
  /\ maxi \in Slot \union {-1} /\ maxfd \in Fds /\ i \in 0 .. FD_SETSIZE
  /\ allset \subseteq Slot /\ rset \subseteq allset \union {Wild} \union Slot
  /\ nready \in 0 .. FD_SETSIZE
  /\ failed \in BOOLEAN /\ ended \in {"no", "SIGPIPE", "EBADF", "full", "overflow"}
  /\ connfd \in Fds \union {-1}
  /\ child \in [Client -> {"none", "read", "write", "exited", "SIGPIPE"}]
  /\ lost \in 0 .. ProcLimit

Init ==
  /\ PeersInit
  /\ server \in {"select", "fork"} /\ limit \in Limits
  /\ fd = <<>>
  /\ pc = IF server = "select" THEN "select" ELSE "accept"
  /\ client = [n \in Slot |-> -1]
  /\ maxi = -1 /\ maxfd = listenfd /\ allset = {listenfd} /\ rset = {} /\ nready = 0
  /\ i = 0 /\ failed = FALSE /\ ended = "no"
  /\ connfd = -1 /\ child = [c \in Client |-> "none"] /\ lost = 0

WithFd(n, c) == [m \in Clients \union {n} |-> IF m = n THEN c ELSE fd[m]]
Without(n) == [m \in Clients \ {n} |-> fd[m]]

-----------------------------------------------------------------------------
(* select-model.c *)

FdReady(n) == IF n = listenfd THEN backlog # <<>>
                              ELSE n \in Clients /\ Readable(fd[n])

Asked == {n \in allset : n <= maxfd}

End(how) == /\ ended' = how /\ pc' = "ended"

S_Select ==
  /\ pc = "select" /\ Asked \subseteq Clients \union {listenfd}
  /\ \E n \in Asked : FdReady(n)
  /\ rset' = {n \in Asked : FdReady(n)}
  /\ nready' = Cardinality(rset')
  /\ pc' = IF listenfd \in rset' THEN "listen" ELSE "loop"
  /\ i' = 0
  /\ UNCHANGED <<server, limit, fd, client, maxi, maxfd, allset, failed, ended,
                 forks, peers>>

\* perror, exit(-1)
S_SelectError ==
  /\ pc = "select" /\ ~(Asked \subseteq Clients \union {listenfd})
  /\ End("EBADF")
  /\ UNCHANGED <<server, limit, fd, client, maxi, maxfd, allset, rset, nready, i,
                 failed, forks, peers>>

FreeSlots == {n \in Slot : client[n] < 0}

\* Mutation of Counted: the loop does not end when nready is 0.
Counted_NoBreak(j) ==
  pc' = "loop" /\ nready' = nready - 1 /\ i' = j /\ UNCHANGED rset

\* One ready descriptor is dealt with; the loop goes on at entry j.  What is
\* not used again when select is called is cleared.
Counted(j) ==
  IF nready = 1 THEN pc' = "select" /\ rset' = {} /\ nready' = 0 /\ i' = 0
                ELSE pc' = "loop" /\ nready' = nready - 1 /\ i' = j /\ UNCHANGED rset

\* Mutation of S_Add: the bit is set before the set.
S_Add_Before(n) ==
  /\ client' = [client EXCEPT ![Min(FreeSlots)] = n]
  /\ allset' = allset \union {n}
  /\ maxfd' = Max({maxfd, n})
  /\ maxi' = Max({maxi, Min(FreeSlots)})
  /\ Counted(0)
  /\ UNCHANGED ended

\* Mutation of S_Add: maxi follows only the first client.
S_Add_KeepsMaxi(n) ==
  /\ client' = [client EXCEPT ![Min(FreeSlots)] = n]
  /\ allset' = allset \union {IF n = -1 THEN Wild ELSE n}
  /\ maxfd' = Max({maxfd, n})
  /\ maxi' = Max({maxi, 0})
  /\ Counted(0)
  /\ UNCHANGED ended

\* The rest of the round after accept has returned n.
S_Add(n) ==
  /\ client' = [client EXCEPT ![Min(FreeSlots)] = n]
  /\ allset' = allset \union {IF n = -1 THEN Wild ELSE n}
  /\ maxfd' = Max({maxfd, n})
  /\ maxi' = Max({maxi, Min(FreeSlots)})
  /\ Counted(0)
  /\ UNCHANGED ended

S_Accept == LET n == Min(Free) IN
  /\ pc = "listen" /\ Free # {}
  /\ fd' = WithFd(n, Head(backlog))
  /\ backlog' = Tail(backlog)
  /\ IF FreeSlots # {} /\ n < FD_SETSIZE
     THEN S_Add(n)
     ELSE /\ End(IF FreeSlots = {} THEN "full" ELSE "overflow")
          /\ UNCHANGED <<client, maxi, maxfd, allset, rset, nready, i>>
  /\ UNCHANGED <<server, limit, conn, failed, forks>>

\* -1 is entered like a descriptor.
S_AcceptFails ==
  /\ pc = "listen"
  /\ failed' = TRUE
  /\ IF FreeSlots # {} THEN S_Add(-1)
     ELSE End("full") /\ UNCHANGED <<client, maxi, maxfd, allset, rset, nready, i>>
  /\ UNCHANGED <<server, limit, fd, forks, peers>>

\* The entries that the loop has still to serve.  The loop ends by nready alone:
\* it never gets to maxi (TableMatchesSet).
Due == {j \in i .. maxi : client[j] \in rset}

\* Mutation of S_Close: the descriptor stays in the set.
S_Close_KeepsBit(j) ==
  /\ fd' = Without(client[j])
  /\ client' = [client EXCEPT ![j] = -1]
  /\ UNCHANGED allset

S_Close(j) ==
  /\ fd' = Without(client[j])
  /\ client' = [client EXCEPT ![j] = -1]
  /\ allset' = allset \ {client[j]}

\* A read that fails is taken for data of length -1, which write refuses.
S_Read == LET j == Min(Due) c == fd[client[j]] IN
  /\ pc = "loop" /\ Due # {} /\ Readable(c)
  /\ conn' = AfterRead(c)
  /\ IF ReadGives(c) = "end" THEN S_Close(j) ELSE UNCHANGED <<fd, client, allset>>
  /\ IF ReadGives(c) = "data" THEN pc' = "write" /\ i' = j /\ UNCHANGED <<rset, nready>>
                              ELSE Counted(j + 1)
  /\ UNCHANGED <<server, limit, backlog, maxi, maxfd, failed, ended, forks>>

S_Write == LET c == fd[client[i]] IN
  /\ pc = "write" /\ WriteReturns(c)
  /\ conn' = AfterWrite(c)
  /\ IF WriteKills(c) THEN End("SIGPIPE") /\ UNCHANGED <<rset, nready, i>>
     ELSE Counted(i + 1) /\ UNCHANGED ended
  /\ UNCHANGED <<server, limit, fd, client, maxi, maxfd, allset, failed, backlog,
                 forks>>

SelectStep == S_Select \/ S_SelectError \/ S_Accept \/ S_AcceptFails \/ S_Read
                \/ S_Write

-----------------------------------------------------------------------------
(* multi-process-model.c *)

Processes == Cardinality({c \in Client : child[c] # "none"}) + lost

F_Accept ==
  /\ pc = "accept" /\ Free # {} /\ backlog # <<>>
  /\ connfd' = Min(Free)
  /\ fd' = WithFd(connfd', Head(backlog))
  /\ backlog' = Tail(backlog)
  /\ pc' = "fork"
  /\ UNCHANGED <<server, limit, conn, select, child, lost>>

\* Without a free descriptor accept fails even if nobody waits.
F_AcceptFails ==
  /\ pc = "accept" /\ (Free = {} \/ backlog # <<>>)
  /\ connfd' = -1
  /\ pc' = "fork"
  /\ UNCHANGED <<server, limit, fd, select, child, lost, peers>>

\* A child without connection reads from -1 for ever.
F_Fork ==
  /\ pc = "fork" /\ Processes < ProcLimit
  /\ IF connfd = -1
     THEN lost' = lost + 1 /\ UNCHANGED child
     ELSE child' = [child EXCEPT ![fd[connfd]] = "read"] /\ UNCHANGED lost
  /\ pc' = "close"
  /\ UNCHANGED <<server, limit, fd, select, connfd, peers>>

\* The descriptor stays open, and nobody reads from it.
F_ForkFails ==
  /\ pc = "fork"
  /\ pc' = "accept" /\ connfd' = -1
  /\ UNCHANGED <<server, limit, fd, select, child, lost, peers>>

\* Mutation of F_Close: the parent keeps the descriptor.
F_Close_Kept ==
  /\ pc = "close"
  /\ pc' = "accept" /\ connfd' = -1
  /\ UNCHANGED <<server, limit, fd, select, child, lost, peers>>

F_Close ==
  /\ pc = "close"
  /\ fd' = Without(connfd) /\ connfd' = -1
  /\ pc' = "accept"
  /\ UNCHANGED <<server, limit, select, child, lost, peers>>

C_Read(c) ==
  /\ child[c] = "read" /\ Readable(c)
  /\ conn' = AfterRead(c)
  /\ child' = [child EXCEPT ![c] = CASE ReadGives(c) = "data"  -> "write"
                                     [] ReadGives(c) = "error" -> "read"
                                     [] ReadGives(c) = "end"   -> "exited"]
  /\ UNCHANGED <<server, limit, fd, pc, select, connfd, lost, backlog>>

C_Write(c) ==
  /\ child[c] = "write" /\ WriteReturns(c)
  /\ conn' = AfterWrite(c)
  /\ child' = [child EXCEPT ![c] = IF WriteKills(c) THEN "SIGPIPE" ELSE "read"]
  /\ UNCHANGED <<server, limit, fd, pc, select, connfd, lost, backlog>>

ParentStep == F_Accept \/ F_AcceptFails \/ F_Fork \/ F_ForkFails \/ F_Close

ChildStep(c) == C_Read(c) \/ C_Write(c)

-----------------------------------------------------------------------------

Outside == ended = "no" /\ UNCHANGED <<server, limit, fd, pc, select, forks>>

Next ==
  /\ ended = "no"
  /\ \/ SelectStep \/ ParentStep \/ (\E c \in Client : ChildStep(c))
     \/ \E c \in Client : Peers(c) /\ Outside

Spec == Init /\ [][Next]_vars

\* The processes run, and clients read what they are sent: one that does not
\* stops its own child, or the whole select server, in write.
FairSpec ==
  /\ Spec
  /\ WF_vars(SelectStep) /\ WF_vars(ParentStep)
  /\ \A c \in Client : WF_vars(ChildStep(c)) /\ WF_vars(Receive(c) /\ Outside)

-----------------------------------------------------------------------------
(* Properties *)

Entries == {n \in Slot : client[n] # -1}

\* Whenever it calls select, the client table, the descriptor set and the open
\* descriptors are the same clients, each once, within maxi and maxfd; only a
\* failed accept can have added the bit of another descriptor.  And in the loop
\* nready is the number of entries still to be served.
TableMatchesSet ==
  /\ pc = "select" =>
       /\ {client[n] : n \in Entries} = Clients
       /\ Cardinality(Entries) = Cardinality(Clients)
       /\ allset \ (IF failed THEN {Wild} \ Clients ELSE {}) = Clients \union {listenfd}
       /\ \A n \in Entries : n <= maxi /\ client[n] <= maxfd
  /\ pc = "loop" => nready = Cardinality(Due) /\ nready > 0

\* Types, and TableMatchesSet.
Inv == TypeOK /\ TableMatchesSet

\* A client ends the select server, or its own child, only by going away while
\* more than one read's worth of its data is unanswered.  Else the server ends
\* only by the bit that a failed accept has set, or where the limit lets a
\* descriptor be too big for the set; "too many clients" is never what it finds.
EndsOnlyBy ==
  /\ ended = "SIGPIPE" => conn[fd[client[i]]].left > 1
  /\ ended = "EBADF" => failed
  /\ ended = "overflow" => limit > FD_SETSIZE
  /\ ended # "full"
  /\ \A c \in Client : child[c] = "SIGPIPE" => conn[c].left > 1

\* The process that serves c.
Serving(c) == \/ server = "select" /\ c \in {fd[n] : n \in Clients}
              \/ server = "fork" /\ child[c] \in {"read", "write"}

Over(c) == ended # "no" \/ child[c] = "SIGPIPE"

\* What an accepted client sent is read, unless the process that serves it comes
\* to its end: no client is passed over for others in the rounds of select, and
\* no failed accept or fork stops the service of those accepted before.
EveryClientServed == \A c \in Client :
  Serving(c) /\ conn[c].in > 0 ~> conn[c].hand \/ Over(c)

\* The connection of an accepted client that went away is closed on the server's
\* side, by all processes that have it, with the same exception.
EveryClientReleased == \A c \in Client :
  Serving(c) /\ conn[c].up = "gone" ~>
    Over(c) \/ (c \notin {fd[n] : n \in Clients} /\ ~Serving(c))
===============================================================================
