--------------------------- MODULE MCExecApproval ---------------------------
(* Small instances of ExecApproval.                                         *)
EXTENDS ExecApproval

CONSTANTS q1, q2

MCIdsOfSlug == [s \in Slug |-> Id]

MCPolicyOf(host, ask, fallback, headless, route) ==
  [host |-> host, ask |-> ask, fallback |-> fallback, headless |-> headless,
   listed |-> fallback = "allowlist", scope |-> TRUE, route |-> route, forwards |-> FALSE]

MCPolicy ==
  {MCPolicyOf("node", "on-miss", "full", FALSE, TRUE),
   MCPolicyOf("gateway", "always", "full", TRUE, TRUE),
   MCPolicyOf("node", "on-miss", "allowlist", FALSE, FALSE),
   MCPolicyOf("gateway", "on-miss", "allowlist", FALSE, TRUE),
   MCPolicyOf("gateway", "on-miss", "allowlist", TRUE, FALSE)}

MCNodeFull == {MCPolicyOf("node", "on-miss", "full", TRUE, FALSE)}
=============================================================================
