---------------------------- MODULE RestRoutes ----------------------------
(* The routes of the REST API (api.rs, handle_request), what each handler    *)
(* refuses before it acts, and what it does to the bridge when it does not   *)
(* refuse.  Both listeners reach the handlers through this table.            *)
(* A request's content is a record of what the handlers tell apart:          *)
(*   parses          whether the body has the fields the handler needs       *)
(*   jid             "user", "group", "bad" (no JID comes of it)             *)
(*   sender          "none", "number" (no server part) or "jid"              *)
(*   fromMe          "none", "yes", "no"                                     *)
(*   sync, preview, scheduled   of a text send                               *)
(*   data, path      the media sources: "none", "unusable", "empty",         *)
(*                   "huge" or "fine"                                        *)
(*   full            whether the field that must not be empty is filled: the *)
(*                   emoji, recipients, query, model, chat, the phone's      *)
(*                   digits or the poll's question                           *)
(*   inRange         whether the coordinates are on the globe                *)
(*   options, pick   the poll's options that are not blank, and how many may *)
(*                   be chosen                                               *)
(*   mode, value     a history fetch's: value is "none", "low" or "positive" *)
EXTENDS HttpGate

Get(op, paths)  == {[method |-> "GET",  path |-> p, op |-> op] : p \in paths}
Post(op, paths) == {[method |-> "POST", path |-> p, op |-> op] : p \in paths}

(* handle_request. *)
Routes ==
  Get("status", {"/api/status", "/health", "/"}) \cup Get("qr", {"/api/qr"})
  \cup Get("groups", {"/api/groups"}) \cup Get("group_info", {"/api/group-info"})
  \cup Get("invite_link", {"/api/group-invite-link"})
  \cup Get("history", {"/api/history"}) \cup Get("search", {"/api/search"})
  \cup Get("fetch_status", {"/api/history-fetch"})
  \cup Post("send", {"/api/send"}) \cup Post("reply", {"/api/reply"})
  \cup Post("edit", {"/api/edit", "/api/revoke"})
  \cup Post("react", {"/api/react"}) \cup Post("unreact", {"/api/unreact"})
  \cup Post("media", {"/api/image", "/api/video", "/api/audio", "/api/doc",
                      "/api/view-once-image", "/api/view-once-video"})
  \cup Post("sticker", {"/api/sticker"})
  \cup Post("location", {"/api/location"}) \cup Post("contact", {"/api/contact"})
  \cup Post("forward", {"/api/forward"}) \cup Post("poll", {"/api/poll"})
  \cup Post("chat", {"/api/typing", "/api/stop-typing", "/api/recording", "/api/stop-recording",
                     "/api/subscribe-presence", "/api/pin-chat", "/api/unpin-chat", "/api/mute-chat",
                     "/api/unmute-chat", "/api/archive-chat", "/api/unarchive-chat", "/api/mark-read",
                     "/api/mark-unread", "/api/delete-chat"})
  \cup Post("message", {"/api/delete-for-me", "/api/star", "/api/unstar"})
  \cup Post("create_group", {"/api/group-create"})
  \cup Post("change_group", {"/api/group-subject", "/api/group-description", "/api/group-leave",
                             "/api/group-add", "/api/group-remove", "/api/group-promote",
                             "/api/group-demote"})
  \cup Post("status_text", {"/api/status-text", "/api/status-revoke"})
  \cup Post("status_media", {"/api/status-image", "/api/status-video"})
  \cup Post("fetch", {"/api/history-fetch"}) \cup Post("cancel_fetch", {"/api/history-fetch/cancel"})
  \cup Post("purge", {"/api/embeddings/purge"})

Routed(method, path) == \E r \in Routes : r.method = method /\ r.path = path
OpOf(method, path) == (CHOOSE r \in Routes : r.method = method /\ r.path = path).op

(* The operations by what they do when the handler does not refuse: read the *)
(* bridge; queue an outbound job and answer; queue it and wait until it is    *)
(* sent; call WhatsApp directly; call it and invalidate the cached group;     *)
(* write this store's own tables.                                            *)
Reads    == {"status", "qr", "groups", "group_info", "invite_link", "history", "search", "fetch_status"}
Media    == {"media", "sticker"}
Notes    == {"react", "unreact", "location", "contact"}
Enqueues == {"send", "edit"} \cup Media \cup Notes
Statuses == {"status_text", "status_media"}
Waits    == {"reply", "forward", "poll"} \cup Statuses
Direct   == {"chat", "message", "create_group"}
Changes  == {"change_group"}
Locals   == {"fetch", "cancel_fetch", "purge"}

Effect(op, b) ==
  CASE op \in Reads    -> "none"
    [] op \in Waits \/ (op = "send" /\ b.sync) -> "wait"
    [] op \in Enqueues /\ ~(op = "send" /\ b.sync) -> "enqueue"
    [] op \in Direct   -> "client"
    [] op \in Changes  -> "change"
    [] op \in Locals   -> "local"

(* The fields a handler's request struct must have, and those it may have; a *)
(* GET handler's are its query parameters.  Any other field is ignored.      *)
Fields(needs, may) == [needs |-> needs, may |-> may]
GroupFields(path) ==
  CASE path = "/api/group-subject"     -> Fields({"jid", "subject"}, {})
    [] path = "/api/group-description" -> Fields({"jid"}, {"description"})
    [] path = "/api/group-leave"       -> Fields({"jid"}, {})
    [] OTHER -> Fields({"jid", "participants"}, {})
FieldsOf(op, path) ==
  CASE path = "/api/edit"          -> Fields({"jid", "id", "text"}, {})
    [] path = "/api/revoke"        -> Fields({"jid", "id"}, {})
    [] path = "/api/status-text"   -> Fields({"recipients", "text"}, {"background_argb", "font", "privacy"})
    [] path = "/api/status-revoke" -> Fields({"recipients", "message_id"}, {"privacy"})
    [] op = "status_media" -> Fields({"recipients", "data"}, {"mime", "caption", "seconds", "privacy"})
    [] op = "send"     -> Fields({"jid", "text"}, {"mentions", "schedule_at", "link_preview", "sync"})
    [] op = "reply"    -> Fields({"jid", "id", "text"}, {"sender", "sender_jid", "sender_raw", "mentions"})
    [] op = "react"    -> Fields({"jid", "id", "emoji"}, {"from_me", "sender_jid"})
    [] op = "unreact"  -> Fields({"jid", "id"}, {"from_me", "sender_jid"})
    [] op \in {"media", "sticker"} -> Fields({"jid"}, {"path", "data", "mime", "filename", "caption", "voice_note"})
    [] op = "location" -> Fields({"jid", "lat", "lon"}, {})
    [] op = "contact"  -> Fields({"jid", "name", "phone"}, {})
    [] op = "forward"  -> Fields({"jid", "msg_id"}, {})
    [] op = "poll"     -> Fields({"jid", "question", "options", "selectable_count"}, {})
    [] op \in {"chat", "group_info", "invite_link"} -> Fields({"jid"}, {})
    [] op = "message"  -> Fields({"jid", "id"}, {"sender", "from_me"})
    [] op = "create_group" -> Fields({"name", "participants"}, {})
    [] op = "change_group" -> GroupFields(path)
    [] op = "qr"       -> Fields({}, {"format"})
    [] op = "history"  -> Fields({}, {"jid", "limit", "before"})
    [] op = "search"   -> Fields({"q"}, {"jid", "limit"})
    [] op = "fetch"    -> Fields({"chat_jid", "mode"}, {"target_kind", "target_value"})
    [] op = "fetch_status" -> Fields({}, {"job_id", "active"})
    [] op = "cancel_fetch" -> Fields({"job_id"}, {})
    [] op = "purge"    -> Fields({"model_id"}, {})
    [] OTHER -> Fields({}, {})

(* parse_jid, of the operations that call it before they act. *)
Addressed(b) == << <<b.jid = "bad", 400>> >>

HandleSend(b) == << <<b.sync /\ (b.preview \/ b.scheduled), 400>> >>

HandleReply(b) ==
  << <<b.sender = "none", 400>>, <<b.jid = "group" /\ b.sender = "number", 400>> >> \o Addressed(b)

(* resolve_group_reaction_target. *)
ReactionTarget(b) ==
  << <<b.jid = "group" /\ b.sender = "none", 400>>, <<b.jid = "group" /\ b.fromMe = "none", 400>> >>

HandleReact(b) == << <<~b.full, 400>> >> \o ReactionTarget(b)
HandleUnreact(b) == ReactionTarget(b)

(* read_file_for_media. *)
ReadFile(b) == << <<b.path \in {"unusable", "huge"}, 400>> >>

HandleMedia(op, b, loopback) ==
  << <<b.path # "none" /\ b.data # "none", 400>>,
     <<b.data \notin {"none", "fine"}, 400>>,
     <<b.path # "none" /\ ~loopback, 403>> >>
  \o ReadFile(b)
  \o << <<b.path = "none" /\ b.data = "none", 400>>,
        <<op = "media" /\ b.path = "empty", 500>> >>

HandleLocation(b) == << <<~b.inRange, 500>> >>
HandleContact(b) == << <<~b.full, 400>> >>
HandleForward(known) == << <<~known, 500>> >>
(* normalize_poll_spec. *)
HandlePoll(b) ==
  << <<~b.full, 400>>, <<b.options < 2, 400>>, <<b.pick = 0 \/ b.pick > b.options, 400>> >>
HandleStatusText(b) == << <<~b.full, 400>> >>
HandleStatusMedia(b) == << <<~b.full, 400>>, <<b.data = "unusable", 400>> >>
HandleSearch(b) == << <<~b.full, 400>> >>
(* validate_fetch_mode. *)
ValidFetchMode(b) ==
  \/ b.mode = "all"
  \/ b.mode = "since" /\ b.value # "none"
  \/ b.mode = "count" /\ b.value = "positive"
HandleFetch(b) == << <<~b.full \/ ~ValidFetchMode(b), 400>> >>
HandlePurge(b) == << <<~b.full, 400>> >>
HandleQr(connected) == << <<connected, 404>> >>

(* get_client_handle: the calls that need a session. *)
NeedsClient(connected) == << <<~connected, 503>> >>
HandleGroups(connected) == NeedsClient(connected)
HandleGroupInfo(b, connected, known) == IF known THEN <<>> ELSE Addressed(b) \o NeedsClient(connected)
HandleGroupCreate(b, connected) == NeedsClient(connected) \o Addressed(b)
HandleChatCall(b, connected) == Addressed(b) \o NeedsClient(connected)

(* The status a handler answers with before it acts; 0 when it acts.  known  *)
(* says whether the message or group asked for is in the bridge's cache.     *)
HandlerRefusal(op, b, loopback, connected, known) ==
  FirstRefusal(<< <<~b.parses, 400>> >> \o
    CASE op = "send"         -> HandleSend(b)
      [] op = "reply"        -> HandleReply(b)
      [] op = "react"        -> HandleReact(b)
      [] op = "unreact"      -> HandleUnreact(b)
      [] op \in {"media", "sticker"} -> HandleMedia(op, b, loopback)
      [] op = "location"     -> HandleLocation(b)
      [] op = "contact"      -> HandleContact(b)
      [] op = "forward"      -> HandleForward(known)
      [] op = "poll"         -> HandlePoll(b)
      [] op = "status_text"  -> HandleStatusText(b)
      [] op = "status_media" -> HandleStatusMedia(b)
      [] op = "search"       -> HandleSearch(b)
      [] op = "purge"        -> HandlePurge(b)
      [] op = "fetch"        -> HandleFetch(b)
      [] op = "qr"           -> HandleQr(connected)
      [] op = "groups"       -> HandleGroups(connected)
      [] op = "group_info"   -> HandleGroupInfo(b, connected, known)
      [] op = "create_group" -> HandleGroupCreate(b, connected)
      [] op \in {"chat", "message", "change_group", "invite_link"} -> HandleChatCall(b, connected)
      [] OTHER -> <<>>)

(* enqueue_outcome_to_response. *)
OutcomeStatus(outcome) == IF outcome \in {"accepted", "already_active"} THEN 200 ELSE 429
OUTCOMES == {"accepted", "already_active", "cooldown", "queue_full", "backlog_full"}
NoAnchorStatus == 409
ExhaustedStatus == 200

(* What an operation that reads or writes only this store's tables may       *)
(* answer, by what it finds there; 500 when the database fails.              *)
StoreAnswers(op) ==
  CASE op = "fetch" -> {OutcomeStatus(o) : o \in OUTCOMES} \cup {NoAnchorStatus, ExhaustedStatus, 500}
    [] op \in {"fetch_status", "cancel_fetch"} -> {200, 404, 500}
    [] op \in {"history", "search", "purge", "invite_link"} -> {200, 500}
    [] OTHER -> {200}
=============================================================================
