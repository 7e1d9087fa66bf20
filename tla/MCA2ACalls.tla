------------------------------ MODULE MCA2ACalls ------------------------------
(***************************************************************************)
(* Entries: a full remote one, one that says only its endpoint, one of MCP, a *)
(* remote one without endpoint and a local one.                             *)
(***************************************************************************)
EXTENDS A2ACalls

Entry(mode, transport, endpoint) ==
  [mode |-> mode, transport |-> transport, endpoint |-> endpoint]
MCEntries == {Entry("remote", "http", "peer"), Entry(Unset, Unset, "peer2"),
              Entry("local", "mcp", "peer"), Entry("remote", Unset, Unset),
              Entry("local", "in_process", Unset)}
=============================================================================
