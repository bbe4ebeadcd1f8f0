----------------------------- MODULE MCMcpClient -----------------------------
(* Two configured servers that share a tool's name.                         *)
EXTENDS McpClient

CONSTANTS s1, s2, t1, t2

MCConfigured == <<s1, s2>>
MCToolsOf == (s1 :> {t1}) @@ (s2 :> {t1, t2})
=============================================================================
