---------------------------- MODULE McpRegistry ----------------------------
(* The tools both MCP transports serve (mcp_registry.rs): their access       *)
(* class, the REST route a call becomes and the arguments they take.         *)
EXTENDS Integers, Sequences, FiniteSets, SequencesExt

Tool(access, method, path, required, optional) ==
  [access |-> access, method |-> method, path |-> path, required |-> required, optional |-> optional]
Read(path, required, optional) == Tool("Read", "GET", path, required, optional)
Write(path, required, optional) == Tool("Write", "POST", path, required, optional)
JidOnly(path) == Write(path, {"jid"}, {})
OfMessage(path) == Write(path, {"jid", "id"}, {"sender", "from_me"})

REGISTRY ==
  { Read("/api/status", {}, {}),
    Read("/api/groups", {}, {}),
    Read("/api/group-info", {"jid"}, {}),
    Read("/api/history", {"jid"}, {"limit", "before"}),
    Read("/api/search", {"q"}, {"jid", "limit"}),
    Read("/api/history-fetch", {}, {"job_id", "active"}),
    Write("/api/send", {"jid", "text"}, {"mentions"}),
    Write("/api/reply", {"jid", "id", "sender", "text"}, {"mentions"}),
    Write("/api/react", {"jid", "id", "emoji"}, {"from_me", "sender_jid"}),
    Write("/api/edit", {"jid", "id", "text"}, {}),
    Write("/api/revoke", {"jid", "id"}, {}),
    Write("/api/image", {"jid", "data"}, {"mime", "caption"}),
    Write("/api/history-fetch", {"chat_jid"}, {"mode", "target_value"}),
    Write("/api/history-fetch/cancel", {"job_id"}, {}),
    Write("/api/location", {"jid", "lat", "lon"}, {"name", "address"}),
    Write("/api/contact", {"jid", "name", "phone"}, {}),
    Write("/api/poll", {"jid", "question", "options", "selectable_count"}, {}),
    Write("/api/status-text", {"recipients", "text"}, {"background_argb", "font", "privacy"}),
    Write("/api/status-image", {"recipients", "data"}, {"mime", "caption", "privacy"}),
    Write("/api/status-video", {"recipients", "data"}, {"mime", "caption", "seconds", "privacy"}),
    Write("/api/status-revoke", {"recipients", "message_id"}, {"privacy"}),
    Write("/api/embeddings/purge", {"model_id"}, {}) }
  \cup { OfMessage(p) : p \in {"/api/delete-for-me", "/api/star", "/api/unstar"} }
  \cup { JidOnly(p) : p \in {"/api/typing", "/api/pin-chat", "/api/unpin-chat", "/api/mute-chat",
           "/api/unmute-chat", "/api/archive-chat", "/api/unarchive-chat", "/api/mark-read",
           "/api/delete-chat"} }

(* McpToolMeta::allowed: what a read-only listener lists and runs. *)
Allowed(tool, readOnly) == ~readOnly \/ tool.access = "Read"

Declared(tool) == tool.required \cup tool.optional

(* validated_args on `given`, a function from the keys a call passes to      *)
(* "typed" (the declared type), "other" or "null": an undeclared key refuses *)
(* the call, an optional null is dropped, every other value must be typed    *)
(* and every required key present.                                           *)
ValidatedArgs(tool, given) ==
  LET kept == {k \in DOMAIN given : given[k] # "null" \/ k \in tool.required}
      ok   == /\ DOMAIN given \subseteq Declared(tool)
              /\ \A k \in kept \ {k \in kept : given[k] = "null"} : given[k] = "typed"
              /\ \A k \in tool.required : k \in kept /\ given[k] # "null"
  IN  [ok |-> ok, args |-> IF ok THEN kept ELSE {}]

(* Mutant: fetch_history_body does not fill in the default mode. *)
MappedAsGiven(tool, args) == args

(* RestMapping: the keys of the request a validated call becomes. *)
Mapped(tool, args) ==
  CASE tool.path = "/api/history-fetch" /\ tool.method = "POST" -> args \cup {"mode"}
    [] tool.path = "/api/history-fetch" /\ tool.method = "GET"  -> IF "job_id" \in args THEN {"job_id"} ELSE {"active"}
    [] tool.path \in {"/api/history", "/api/search"} -> args \cup {"limit"}
    [] tool.path = "/api/send" -> args \cup {"sync"}
    [] OTHER -> args

(* Protocol versions, newest first. *)
LEGACY_VERSIONS == <<"2025-11-25", "2025-06-18">>
MODERN_VERSION == "2026-07-28"
SUPPORTED_VERSIONS == {MODERN_VERSION} \cup ToSet(LEGACY_VERSIONS)

NegotiatedVersion(requested) ==
  IF requested \in ToSet(LEGACY_VERSIONS) THEN requested ELSE LEGACY_VERSIONS[1]

=============================================================================
