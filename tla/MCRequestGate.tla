---------------------------- MODULE MCRequestGate ----------------------------
(* RequestGate with two clients behind at most two proxies.                *)
EXTENDS RequestGate

CONSTANTS polite, pushy, edge, inner

MCPaths == {<<>>, <<edge>>, <<edge, inner>>}

\* No header, one that names the other client, and one that looks as if a
\* proxy had already appended it.
MCForgeries == {<<>>, <<polite>>, <<polite, edge>>}
=============================================================================
