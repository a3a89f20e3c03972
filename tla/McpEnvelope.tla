---------------------------- MODULE McpEnvelope ----------------------------
(* What the MCP listener makes of a complete request body (mcp_http.rs,      *)
(* handle_body to call_tool): the JSON-RPC envelope, the protocol era, the   *)
(* agreement of the metadata headers with the body, and the checks of a tool *)
(* call.  A body is a record of                                              *)
(*   json      "bad", "array", "scalar" or "object"                          *)
(*   envelope  whether jsonrpc is "2.0" and method a string                  *)
(*   method    the JSON-RPC method                                           *)
(*   id        whether the id is a string or an integer                      *)
(*   version   the MCP-Protocol-Version header: a version, "none", or        *)
(*             "unusable" (twice, or with invalid characters)                *)
(*   meta      the version in params._meta: a version, "none", "not a string"*)
(*   mcpMethod, mcpName   "none", "same" as the body's, "other", "unusable"  *)
(*   tool      the called tool, or NoTool                                    *)
(*   given     the arguments, or NoObject when they are not an object        *)
(*   restMiB   the size of the REST request the call becomes                 *)
(*   asks      the version an initialize asks for, or "none"                 *)
EXTENDS HttpGate, McpRegistry

NoTool == Tool("none", "none", "none", {}, {})
NoObject == [arguments |-> "none"]

(* detect_era. *)
DetectEra(b) ==
  CASE b.version = "unusable"              -> "mismatch"
    [] b.version \in ToSet(LEGACY_VERSIONS) -> "legacy"
    [] b.version = MODERN_VERSION           -> "modern"
    [] b.version # "none"                   -> IF b.method = "initialize" THEN "legacy" ELSE "unsupported"
    [] b.method = "initialize" /\ b.meta = "none" -> "legacy"
    [] OTHER                                -> "mismatch"

(* name_field: the methods whose body has the field Mcp-Name stands for. *)
Named == {"tools/call", "prompts/get", "resources/read"}

(* Mutant: the version of the body is not compared with the header's. *)
HeadersUnchecked(era, b) ==
  LET modern == era = "modern"
  IN  /\ b.mcpMethod # "unusable" /\ b.mcpName # "unusable"
      /\ modern => b.meta # "none" /\ b.mcpMethod # "none"
      /\ b.mcpMethod # "other"
      /\ b.method \in Named => b.mcpName # "other" /\ (modern => b.mcpName # "none")

(* validate_request_headers. *)
HeadersAgree(era, b) ==
  LET modern == era = "modern"
  IN  /\ b.mcpMethod # "unusable" /\ b.mcpName # "unusable"
      /\ b.meta # "none" /\ b.version # "none" => b.meta = b.version
      /\ modern => b.meta # "none"
      /\ b.mcpMethod # "other"
      /\ modern => b.mcpMethod # "none"
      /\ b.method \in Named => b.mcpName # "other"
      /\ modern /\ b.method \in Named => b.mcpName # "none"

Reject(status) == [kind |-> "reject", status |-> status]
Ok(status)     == [kind |-> "ok",     status |-> status]
Error(status)  == [kind |-> "error",  status |-> status]
Run            == [kind |-> "run",    status |-> 200]

(* call_tool, up to the lane. *)
CallTool(b, readOnly) ==
  IF /\ b.tool # NoTool
     /\ Allowed(b.tool, readOnly)
     /\ b.given # NoObject
     /\ ValidatedArgs(b.tool, b.given).ok
     /\ b.restMiB <= MaxBodyMiB(b.tool.path)
  THEN Run ELSE Error(200)

DispatchLegacy(b, readOnly) ==
  CASE b.method = "initialize"            -> IF b.asks = "none" THEN Error(200) ELSE Ok(200)
    [] b.method \in {"ping", "tools/list"} -> Ok(200)
    [] b.method = "tools/call"            -> CallTool(b, readOnly)
    [] OTHER                              -> Error(200)

DispatchModern(b, readOnly) ==
  CASE b.method \in {"server/discover", "tools/list"} -> Ok(200)
    [] b.method = "tools/call"                        -> CallTool(b, readOnly)
    [] OTHER                                          -> Error(404)

(* handle_body. *)
HandleBody(b, readOnly) ==
  LET era == DetectEra(b)
  IN  IF b.json # "object" \/ ~b.envelope THEN Reject(400)
      ELSE IF b.method = "notifications/initialized" THEN Ok(202)
      ELSE IF ~b.id \/ era \in {"mismatch", "unsupported"} \/ ~HeadersAgree(era, b) THEN Reject(400)
      ELSE IF era = "legacy" THEN DispatchLegacy(b, readOnly)
      ELSE DispatchModern(b, readOnly)

(* The stdio server (mcp.rs): the same tools and checks, one JSON-RPC request *)
(* a line, none of HTTP's eras, lanes, sizes or read-only mode.  A request   *)
(* without an id is executed all the same, and not answered.                 *)
StdioAnswer(b) ==
  CASE b.json # "object" -> Error(0)
    [] b.method = "initialize" -> IF b.asks = "none" THEN Error(0) ELSE Ok(0)
    [] b.method \in {"ping", "notifications/initialized", "tools/list"} -> Ok(0)
    [] b.method = "tools/call" -> IF b.tool # NoTool /\ b.given # NoObject /\ ValidatedArgs(b.tool, b.given).ok
                                  THEN Run ELSE Error(0)
    [] OTHER -> Error(0)

(* McpMetrics::count_end: which counters a request that ended moves. *)
CountEnd(kind, m) ==
  [m EXCEPT !.rejects = @ + IF kind = "reject" THEN 1 ELSE 0,
            !.errors  = @ + IF kind \in {"error", "capacity"} THEN 1 ELSE 0]
=============================================================================
