------------------------------- MODULE MCApp -------------------------------
EXTENDS App

\* Three words of memory, a packet with room for two behind its head, and a write that
\* carries one, as well as one that carries two; reads of one word and of two, from a
\* count that ends a word and one that does not; two modes besides the first, of which
\* one runs on into the next; of the commands that set registers, one (2, 3, 12, 13 and
\* 14 are like it), and the version of the fabric, which sets the same register, to the
\* same value.
Packet(op, val) == [op |-> op, val |-> val, words |-> <<>>]
MCCommands ==
  {[op |-> 0, val |-> [addr |-> 0], words |-> <<"v">>],
   [op |-> 0, val |-> [addr |-> 1], words |-> <<"w", "x">>]}
  \cup {Packet(1, v) : v \in {[addr |-> 0, bytes |-> 4], [addr |-> 2, bytes |-> 3]}}
  \cup {Packet(6, m) : m \in {2, 4}}
  \cup {Packet(n, 1) : n \in {4, 5, 7, 8, 10, 11}}

\* The hypotheses of the theorem about CommandsObeyed.
ASSUME CommandsAreProper == Unhurried /\ Proper
ASSUME TablesAreRight == Trigonometric
============================================================================
