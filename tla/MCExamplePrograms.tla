------------------------- MODULE MCExamplePrograms -------------------------
EXTENDS ExamplePrograms

\* Every example alone, with every call that may fail failing or not, and the
\* client with the server, where the calls succeed: their results are not
\* looked at by the file operations.
MCSessions ==
  {[programs |-> {p}, smooth |-> FALSE] : p \in Name}
  \cup {[programs |-> {"client", "server"}, smooth |-> TRUE]}
=============================================================================
