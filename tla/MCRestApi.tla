----------------------------- MODULE MCRestApi -----------------------------
EXTENDS RestApi

Plain == [method |-> "POST", path |-> "/api/send", origin |-> "none", host |-> "loopback", json |-> TRUE,
          xToken |-> "none", bearer |-> "none", chunked |-> FALSE, expect |-> "none", mib |-> 1]
Content == [parses |-> TRUE, jid |-> "group", sender |-> "none", fromMe |-> "none", sync |-> FALSE,
            preview |-> FALSE, scheduled |-> FALSE, data |-> "none", path |-> "none", full |-> TRUE,
            inRange |-> TRUE, options |-> 2, pick |-> 1, mode |-> "all", value |-> "none"]
To(method, path) == [Plain EXCEPT !.method = method, !.path = path]

Request(head, body) == [head |-> head, body |-> body, caller |-> Command("none", "none", "none", {}, {})]

(* What the stdio MCP server sends for a call with the required arguments. *)
NameOf(t) == t.method \o t.path
ToolRequests ==
  [n \in {NameOf(t) : t \in REGISTRY} |->
     LET t == CHOOSE t \in REGISTRY : NameOf(t) = n
         given == HandlerOf(t).needs \subseteq Mapped(t, t.required)
     IN  [head |-> To(t.method, t.path), caller |-> t,
          body |-> [Content EXCEPT !.parses = given, !.sender = "jid", !.data = "fine", !.fromMe = "yes"]]]

(* What a command of the client sends; its media are paths, its fetch has a  *)
(* mode of the caller's.                                                     *)
CommandRequests ==
  [n \in {k.name : k \in COMMANDS} |->
     LET k == CHOOSE k \in COMMANDS : k.name = n
         given == HandlerOf(k).needs \subseteq k.always
     IN  [head |-> To(k.method, k.path), caller |-> k,
          body |-> [Content EXCEPT !.parses = given, !.sender = "jid", !.fromMe = "yes",
                                   !.data = IF "data" \in k.always THEN "fine" ELSE "none",
                                   !.path = IF "path" \in k.always THEN "fine" ELSE "none"]]]

MCRequests ==
  [ text    |-> Request(Plain, Content),
    sync    |-> Request(Plain, [Content EXCEPT !.sync = TRUE]),
    info    |-> Request(To("GET", "/api/group-info"), Content),
    subject |-> Request(To("POST", "/api/group-subject"), Content),
    events  |-> Request(To("GET", "/api/events"), Content),
    picture |-> Request(To("POST", "/api/image"), [Content EXCEPT !.path = "fine"]) ]
  @@ ToolRequests @@ CommandRequests

MCMixes == {[names |-> {"sync", "events"}, most |-> 3],
            [names |-> {"text", "info", "subject", "picture"}, most |-> 3],
            [names |-> DOMAIN ToolRequests \cup DOMAIN CommandRequests, most |-> 1]}
MCSettings == [loopback |-> FALSE, hosts |-> FALSE, origins |-> FALSE, token |-> FALSE]
=============================================================================
