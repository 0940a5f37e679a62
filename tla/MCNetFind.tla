-------------------------------- MODULE MCNetFind --------------------------------
(***************************************************************************)
(* Two programs at one address, one after the other, and memory for two    *)
(* objects, which is free again when the first is deleted.                 *)
(***************************************************************************)
EXTENDS NetFind

CONSTANTS a, b,  \* programs
          host,  \* their address
          o1, o2 \* objects

MCAddr == [i \in {a, b} |-> host]

\* Both programs are alike, and so are both objects: a starts first, and of two
\* free objects o1 is used.  Scans and requests for a list have the network to
\* themselves.
MCBound ==
  /\ b \in started' => a \in started'
  /\ \A i \in Ids : byId[i] = None /\ byId'[i] = o2 => obj'[o1] # Unused
  /\ ListRq \in net' \ net => net' = {ListRq}
  /\ Ping(host, None, None) \in net' \ net => net = {}
================================================================================
