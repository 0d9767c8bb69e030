---------------------------- MODULE MCMcpSession ----------------------------
(* Values of the constants of McpSession for TLC. *)
EXTENDS McpSession

\* Two tools that share a name, and one whose name is theirs with the prefix.
MCRemoteTools == {[name |-> <<"a">>, id |-> 1], [name |-> <<"a">>, id |-> 2],
                  [name |-> <<"srv", "a">>, id |-> 3]}
MCPolicies == {<<>>, <<"srv">>}
MCOverrides == {<<"a">>}
=============================================================================
