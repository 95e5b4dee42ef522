---------------------------- MODULE MCMcpServer ----------------------------
(* McpServer on small sets, for TLC.                                       *)
EXTENDS McpServer, TLC

\* The MCP server, and the HTTP server or a CLI command.
CONSTANTS mcp, other, c1, c2
MCHome == c1 :> mcp @@ c2 :> other

\* A sigil with a registered aspect, which the other process has not loaded.
CONSTANTS plain, extended
MCResolves == mcp :> {plain, extended} @@ other :> {plain}

MCL2 == [p \in Sigil \X Sigil |-> IF p[1] = p[2] THEN 0 ELSE 60]
MCCosine == [p \in Sigil \X Sigil |-> IF p[1] = p[2] THEN 0 ELSE 50]

\* A change and one that contradicts the default.
MCPayload == {"cosine_diverged_min" :> 60, "l2_stable_max" :> 80}
=============================================================================
