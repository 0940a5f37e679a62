------------------------------- MODULE MCControl -------------------------------
EXTENDS Control

CONSTANTS c1, c2

\* The second client asks once.
MCMaxRequests == [c \in Clients |-> IF c = c1 THEN 2 ELSE 1]

===============================================================================
