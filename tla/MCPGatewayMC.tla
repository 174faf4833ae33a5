----------------------------- MODULE MCPGatewayMC -----------------------------
(* MCPGateway for TLC: the cfg files give the constants their values.         *)
EXTENDS MCPGateway, TLC, Sequences

\* `${serverId}:${tool.name}`, on the strings of the cfg files.  With the servers "s"
\* and "s:s" and the tools "t" and "s:t", "s:t" is a qualified name and a tool's own,
\* and "s:s:t" is the qualified name of both servers.
Concatenated == [x \in Server \X Tool |-> x[1] \o ":" \o x[2]]

Names == Tool \cup {Concatenated[x] : x \in Server \X Tool}

\* Sound for invariants and action properties; the run with liveness has none.
Symmetry == Permutations(Client)
=============================================================================
