----------------------------- MODULE CliClient -----------------------------
(* The command line client (main.rs, cli_main): the request each command     *)
(* makes of the daemon's REST API, and what its exit says of the answer.     *)
(* A command is a record of its name, the request's method and path, the     *)
(* fields it always sends and those it sends when it was given them.  A      *)
(* command with an alias, help, events (the stream) and mcp (McpRegistry)    *)
(* are left out.                                                             *)
EXTENDS RestRoutes

Command(name, method, path, always, given) ==
  [name |-> name, method |-> method, path |-> path, always |-> always, given |-> given]
Asks(name, path, always, given)  == Command(name, "GET", path, always, given)
Posts(name, path, always, given) == Command(name, "POST", path, always, given)

StatusCommands ==
  { Asks("status", "/api/status", {}, {}), Asks("qr", "/api/qr", {"format"}, {}),
    Asks("groups", "/api/groups", {}, {}), Asks("group-info", "/api/group-info", {"jid"}, {}) }

(* parse_react_target: from_me is given, or follows from a sender being given. *)
ReactTarget == {"from_me"}

TextCommands ==
  { Posts("send", "/api/send", {"jid", "text"}, {}),
    Posts("reply", "/api/reply", {"jid", "id", "sender", "text"}, {}),
    Posts("edit", "/api/edit", {"jid", "id", "text"}, {}),
    Posts("react", "/api/react", {"jid", "id", "emoji"} \cup ReactTarget, {"sender_jid"}),
    Posts("unreact", "/api/unreact", {"jid", "id"} \cup ReactTarget, {"sender_jid"}),
    Posts("revoke", "/api/revoke", {"jid", "id"}, {}) }

MediaCommands ==
  { Posts(c[1], c[2], {"jid", "path"}, {"caption"}) :
      c \in {<<"image", "/api/image">>, <<"video", "/api/video">>} }
  \cup { Posts(c[1], c[2], {"jid", "path"}, {}) :
      c \in {<<"audio", "/api/audio">>, <<"doc", "/api/doc">>, <<"sticker", "/api/sticker">>} }
  \cup { Posts("location", "/api/location", {"jid", "lat", "lon"}, {}),
         Posts("contact", "/api/contact", {"jid", "name", "phone"}, {}) }

ForwardCommands ==
  { Posts("forward", "/api/forward", {"jid", "msg_id"}, {}),
    Posts("poll", "/api/poll", {"jid", "question", "options", "selectable_count"}, {}),
    Posts("vo-image", "/api/view-once-image", {"jid", "path"}, {"caption"}),
    Posts("vo-video", "/api/view-once-video", {"jid", "path"}, {"caption"}) }

(* A command whose endpoint has its own name. *)
Chat(name, path) == Posts(name, path, {"jid"}, {})
MessageAct(name, path) == Posts(name, path, {"jid", "id"}, {"sender", "from_me"})
OfMembers(name, path) == Posts(name, path, {"jid", "participants"}, {})

TypingCommands ==
  { Chat("typing", "/api/typing"), Chat("stop-typing", "/api/stop-typing"),
    Chat("recording", "/api/recording"), Chat("stop-recording", "/api/stop-recording"),
    Chat("subscribe-presence", "/api/subscribe-presence") }
ChatCommands ==
  { Chat("pin-chat", "/api/pin-chat"), Chat("unpin-chat", "/api/unpin-chat"),
    Chat("mute-chat", "/api/mute-chat"), Chat("unmute-chat", "/api/unmute-chat"),
    Chat("archive-chat", "/api/archive-chat"), Chat("unarchive-chat", "/api/unarchive-chat"),
    Chat("mark-read", "/api/mark-read"), Chat("mark-unread", "/api/mark-unread"),
    Chat("delete-chat", "/api/delete-chat"),
    MessageAct("delete-for-me", "/api/delete-for-me"),
    MessageAct("star", "/api/star"), MessageAct("unstar", "/api/unstar") }

GroupCommands ==
  { Posts("group-create", "/api/group-create", {"name", "participants"}, {}),
    Posts("group-subject", "/api/group-subject", {"jid", "subject"}, {}),
    Posts("group-desc", "/api/group-description", {"jid"}, {"description"}),
    Posts("group-leave", "/api/group-leave", {"jid"}, {}),
    Asks("group-invite", "/api/group-invite-link", {"jid"}, {}),
    OfMembers("group-add", "/api/group-add"), OfMembers("group-remove", "/api/group-remove"),
    OfMembers("group-promote", "/api/group-promote"), OfMembers("group-demote", "/api/group-demote") }

HistoryCommands ==
  { Asks("history", "/api/history", {"jid", "limit"}, {}),
    Asks("search", "/api/search", {"q"}, {"jid"}),
    Posts("fetch-history", "/api/history-fetch", {"chat_jid", "mode"}, {"target_value"}),
    Asks("fetch-status", "/api/history-fetch", {}, {"job_id", "active"}),
    Posts("fetch-cancel", "/api/history-fetch/cancel", {"job_id"}, {}),
    Posts("purge-embeddings", "/api/embeddings/purge", {"model_id"}, {}) }

StoryCommands ==
  { Posts("status-text", "/api/status-text", {"recipients", "text"}, {}),
    Posts("status-image", "/api/status-image", {"recipients", "data", "mime"}, {"caption"}),
    Posts("status-video", "/api/status-video", {"recipients", "data", "mime"}, {"caption"}),
    Posts("status-revoke", "/api/status-revoke", {"recipients", "message_id"}, {}) }

COMMANDS == StatusCommands \cup TextCommands \cup MediaCommands \cup ForwardCommands \cup TypingCommands
            \cup ChatCommands \cup GroupCommands \cup HistoryCommands \cup StoryCommands

(* cli_get and cli_post: no answer by SYNC_CLIENT_TIMEOUT, which is past the  *)
(* daemon's own wait, is an error, which says that the outcome is unknown.     *)
Unanswered == 0

(* print_json_result: so is a status of 400 or more, and ok = false, which   *)
(* no answer below 400 carries.                                              *)
ExitCode(status) == IF status = Unanswered \/ status >= 400 THEN 1 ELSE 0
=============================================================================
