------------------------------ MODULE MCMcpHttp ------------------------------
EXTENDS McpHttp

Good == [method |-> "POST", path |-> "/mcp", origin |-> "none", host |-> "loopback", json |-> TRUE,
         xToken |-> "none", bearer |-> "right", chunked |-> FALSE, expect |-> "none", mib |-> 1]
MCHeads == [ good |-> Good, stranger |-> [Good EXCEPT !.bearer = "none"], large |-> [Good EXCEPT !.mib = 8] ]

ToolAt(path) == CHOOSE t \in REGISTRY : t.path = path
Given(tool) == [k \in tool.required |-> "typed"]
Call(tool) == [json |-> "object", envelope |-> TRUE, method |-> "tools/call", id |-> TRUE,
               version |-> "2025-11-25", meta |-> "none", mcpMethod |-> "none", mcpName |-> "none",
               tool |-> tool, given |-> Given(tool), restMiB |-> 1, asks |-> "none"]
Send == Call(ToolAt("/api/send"))
Modern == [Send EXCEPT !.version = MODERN_VERSION, !.meta = MODERN_VERSION, !.mcpMethod = "same", !.mcpName = "same"]

(* A body with one part wrong. *)
Wrong(b) ==
  {[b EXCEPT !.json = j] : j \in {"bad", "array"}}
  \cup {[b EXCEPT !.method = m] : m \in {"ping", "initialize", "server/discover", "notifications/initialized"}}
  \cup {[b EXCEPT !.id = FALSE], [b EXCEPT !.restMiB = 11], [b EXCEPT !.tool = NoTool],
        [b EXCEPT !.given = NoObject], [b EXCEPT !.envelope = FALSE]}
  \cup {[b EXCEPT !.version = v] : v \in {"none", "unusable", "1999-01-01"}}
  \cup {[b EXCEPT !.meta = v] : v \in {"2025-06-18", "not a string"}}
  \cup {[b EXCEPT !.mcpMethod = v] : v \in {"other", "unusable"}}
  \cup {[b EXCEPT !.mcpName = v] : v \in {"other", "unusable"}}
  \cup {[b EXCEPT !.given = g] :
            g \in {("jid" :> "typed"), Given(b.tool) @@ ("sync" :> "typed"), [k \in DOMAIN b.given |-> "other"]}}

MCBodies == {Send, Modern, Call(ToolAt("/api/groups"))}
            \cup UNION {Wrong(b) : b \in {Send, Modern}}
            \cup {[Modern EXCEPT !.mcpMethod = "none"], [Modern EXCEPT !.meta = "none"]}

MCSettings == [loopback |-> TRUE, hosts |-> FALSE, origins |-> FALSE]

(* initialize answers with a legacy version it was asked for, and with the   *)
(* newest legacy one for anything else: never with the modern era's.         *)
ASSUME Negotiation ==
  \A v \in SUPPORTED_VERSIONS \cup {"none", "2024-11-05"} :
    /\ NegotiatedVersion(v) \in SUPPORTED_VERSIONS \ {MODERN_VERSION}
    /\ v \in SUPPORTED_VERSIONS \ {MODERN_VERSION} => NegotiatedVersion(v) = v
=============================================================================
