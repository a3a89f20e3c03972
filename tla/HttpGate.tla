------------------------------ MODULE HttpGate ------------------------------
(* The checks both HTTP listeners make on a request's head before they read  *)
(* its body (api.rs), and their order.  A head is a record of what the       *)
(* checks look at:                                                           *)
(*   method, path      the request line                                      *)
(*   origin, host      "none", "listed", "foreign", "twice"; host also       *)
(*                     "loopback" (127.0.0.1, localhost or ::1)              *)
(*   json              whether the Content-Type is application/json          *)
(*   xToken, bearer    "none", "right", "wrong"                              *)
(*   chunked           whether a Transfer-Encoding header is present         *)
(*   expect            "none", "continue", "other"                           *)
(*   mib               the declared Content-Length, in MiB                   *)
(* A listener's settings are a record of loopback, hosts, origins (whether   *)
(* the allowlist has entries) and token (whether one is required).           *)
EXTENDS Integers, Sequences, SequencesExt

(* The status of the first refusal that applies, in order; 0 when none does. *)
FirstRefusal(checks) ==
  LET i == SelectInSeq(checks, LAMBDA c : c[1])
  IN  IF i = 0 THEN 0 ELSE checks[i][2]

HasToken(h) == h.xToken = "right" \/ h.bearer = "right"

OriginRefused(h, cfg) ==
  /\ h.origin # "none"
  /\ ~(cfg.origins /\ h.origin = "listed")

HostRefused(h, cfg) ==
  /\ cfg.loopback \/ cfg.hosts
  /\ ~(cfg.loopback /\ h.host = "loopback")
  /\ ~(cfg.hosts /\ h.host = "listed")

(* gate_request: Origin, Host, then the Content-Type of a POST. *)
Gate(h, cfg) ==
  << <<OriginRefused(h, cfg) \/ HostRefused(h, cfg), 403>>,
     <<h.method = "POST" /\ ~h.json, 415>> >>

MaxBodyMiB(path) == IF path \in {"/api/image", "/api/video", "/api/audio", "/api/doc", "/api/sticker",
                                 "/api/view-once-image", "/api/view-once-video", "/api/status-image",
                                 "/api/status-video"} THEN 70 ELSE 1

Framing(h, limit, overLimit) ==
  << <<h.chunked, 411>>, <<h.mib > limit, overLimit>>, <<h.expect = "other", 417>> >>

(* The REST listener: the gate, the token when one is set, the framing. *)
RestRefusal(h, cfg) ==
  FirstRefusal(Gate(h, cfg) \o << <<cfg.token /\ ~HasToken(h), 401>> >>
                 \o Framing(h, MaxBodyMiB(h.path), 400))

(* The MCP listener: routing first, and the token always. *)
McpMaxMiB == 10
McpRefusal(h, cfg) ==
  FirstRefusal(<< <<h.path # "/mcp", 404>>, <<h.method # "POST", 405>> >> \o Gate(h, cfg)
                 \o << <<~HasToken(h), 401>> >> \o Framing(h, McpMaxMiB, 413))

(* Startup rules (validate_api_listener, validate_mcp_startup).  A setting   *)
(* is a record of port, loopback, remote, token, hosts, origins; a token is  *)
(* "none" or a value.                                                        *)
RestMayStart(s) ==
  \/ s.port = 0
  \/ /\ s.loopback \/ (s.remote /\ s.token # "none")
     /\ s.token # "none" \/ ~(s.hosts \/ s.origins)

McpMayStart(s, rest, long) ==
  \/ s.port = 0
  \/ /\ s.port \in Nat
     /\ s.loopback \/ s.remote
     /\ s.token \in long
     /\ rest.port > 0 => s.token # rest.token /\ s.port # rest.port
=============================================================================
