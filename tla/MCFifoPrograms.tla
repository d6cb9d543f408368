---------------------------- MODULE MCFifoPrograms ----------------------------
(* A program with a writer, a reader and a second program beside it. *)
EXTENDS FifoPrograms

CONSTANTS p1, p2, p3, w

Cast(a, b, c) == [p \in Proc |-> CASE p = p1 -> a [] p = p2 -> b
                                   [] p = p3 -> c [] p = w  -> "writer"]

AllCasts == {Cast("epoll", "reader", "poll"), Cast("event", "reader", "epoll15"),
             Cast("sigio", "epoll", "reader")}
===============================================================================
