---------------------------------- MODULE MCTcp ----------------------------------
(***************************************************************************)
(* The bytes of one connection and the connections between two nodes.  The *)
(* two meet in whole frames only, so a behaviour is about one of them.     *)
(***************************************************************************)
EXTENDS TcpFrames, TcpStreams

CONSTANTS A, B, \* nodes
          s, t  \* streams

\* Bytes that must be escaped, bytes of an escape, and a message too long for
\* the buffer of the receiver.
MCMessages == {<<1>>, <<251, 254>>, <<252, 203, 206>>, <<1, 251, 1, 1>>}

VARIABLE part

MCVars == <<frameVars, streamVars, part>>

MCInit ==
  /\ part \in {"frames", "streams"}
  /\ FramesInit /\ (part = "frames" \/ blocking)
  /\ StreamsInit

MCNext ==
  /\ UNCHANGED part
  /\ \/ part = "frames" /\ FramesNext /\ UNCHANGED streamVars
     \/ part = "streams" /\ StreamsNext /\ UNCHANGED frameVars

MCSpec == MCInit /\ [][MCNext]_MCVars /\ StreamsFairness

\* Bounds: only B ends, B announces one stream, a server with an announced stream
\* stays in the table, and a second message is written only where there is one
\* connection.
MCBound ==
  /\ A \in up'
  /\ client'[B].pc = "next" => client'[B].todo \subseteq {s}
  /\ asked # {} => \A n \in Nodes : present[n] \subseteq present'[n]
  /\ sent' = 2 => asked' = {<<A, B, 1>>}
================================================================================
