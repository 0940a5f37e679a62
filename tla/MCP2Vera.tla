-------------------------------- MODULE MCP2Vera --------------------------------
(***************************************************************************)
(* Two nodes: on one a client that reads and writes and one that only      *)
(* reads, on the other a client that only writes.  Queues hold two         *)
(* messages and pipes two bytes, so overflow and a full pipe happen.       *)
(***************************************************************************)
EXTENDS P2Vera

CONSTANTS A, B,      \* nodes
          ctl, in,   \* queues of A
          peer       \* queue of B

MCHome == [q \in {ctl, in, peer} |-> IF q = peer THEN B ELSE A]
MCDir == [q \in {ctl, in, peer} |-> CASE q = ctl -> "bidir" [] q = in -> "income" [] q = peer -> "outcome"]

\* Bounds on the callers: node B is up and its client linked before node A
\* registers the stream, the reader of A is linked before its network starts,
\* and then both nodes know each other.  The rest of node A is set up in every order, its
\* client possibly under traffic.
MCBound ==
  /\ A \in registered' => B \in polled' /\ Linked(peer)
  /\ A \in active' => Linked(in)
  /\ A \in active' => B \in targets'[A] /\ A \in targets'[B]
================================================================================
