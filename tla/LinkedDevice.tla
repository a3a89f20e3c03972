---------------------------- MODULE LinkedDevice ----------------------------
(***************************************************************************)
(* The bridge as a linked device: the messages it receives, identified,    *)
(* read and forwarded by handlers that overlap; the tables the WhatsApp    *)
(* library keeps in the bridge's database; and the pairing, with the name  *)
(* the phone shows for the device.                                         *)
(*                                                                         *)
(* Every access to the database is a step of its own: Store::run takes the *)
(* one connection's lock, executes a closure and returns, so what was read *)
(* may be stale by the next step.                                          *)
(***************************************************************************)
EXTENDS InboundContent, SignalStore

CONSTANTS
    Ids,             \* message ids
    Corpus,          \* what the phone may send: a message for every id
    Phones,          \* phone numbers
    Lids, Owner,     \* LIDs, and the phone number behind each
    Allowed,         \* allowed_numbers; empty: everyone
    OwnPolls,        \* polls this device creates: poll id -> where it was sent
    Options,         \* the options of every poll
    MaxDownloads,    \* MAX_CONCURRENT_DOWNLOADS
    Calls,           \* library calls, by the group of tables and the time
    SentKeys,        \* messages kept for retries
    Names,           \* configured device names
    Traffic,         \* what an instance explores: "inbound", "pairing", or a
                     \* group of Calls (no two of them share a table)
    MaxTries, MaxFailures, MaxCalls, MaxTime, MaxStarts, MaxPairings    \* bounds

VARIABLES
    traffic, failures,
    msg,        \* the message behind each id
    dedup,      \* the dedup entry of each id
    hand,       \* the handler of each id
    tries,      \* deliveries of each id
    permits,    \* free slots of dl_semaphore
    open,       \* the receiver of the inbound channel is there
    events,     \* what was forwarded
    history,    \* rows of `messages`
    db,         \* the library's tables and the poll keys
    call,       \* the call that holds the connection
    calls, now,
    copy,       \* when a sent message was stored for retries, -1: no copy left
    again,      \* sent messages handed out with no copy left
    device,     \* the row of `device`
    name,       \* metadata device_name
    session,    \* the process and its bot session
    phone,      \* what the phone lists for this device
    clears,     \* handlers of LoggedOut that have not run yet
    excused,    \* the name of this pairing was touched by a fault
    starts

inbound == <<msg, dedup, hand, tries, permits, open, events, history>>
tables == <<call, calls, now, copy, again>>
pairing == <<device, name, session, phone, clears, excused, starts>>
linkedVars == <<traffic, failures, db, inbound, tables, pairing>>

None == "none"
Fault == failures < MaxFailures /\ failures' = failures + 1
NoFault == UNCHANGED failures

-----------------------------------------------------------------------------
(* Identities.  A JID is [form, user, dev]: a phone, LID, group or status   *)
(* address, and the number of the device that wrote.                        *)

Jid(form, user) == [form |-> form, user |-> user, dev |-> 0]

ShouldIgnore(jid) == jid.form = "status"

\* A user part belongs to one kind of address.
FormOf(user) ==
    IF user \in Lids THEN "lid" ELSE IF user \in Phones THEN "pn"
    ELSE IF user = "status" THEN "status" ELSE "group"
IsJid(jid) == jid = [form |-> FormOf(jid.user), user |-> jid.user, dev |-> jid.dev]
IsChat(jid) == jid = Jid(FormOf(jid.user), jid.user)

\* A message as the library hands it over: where it gives the sender's phone number, that is the number
\* behind the LID it came from, and behind the chat's when the chat is a LID.
IsMessage(m) ==
    /\ IsJid(m.sender) /\ IsChat(m.chat) /\ IsChat(m.body.vote.remote) /\ m.wraps \in Seq(STRING)
    /\ m.alt # None => /\ m.alt \in Phones
                       /\ \A jid \in {m.sender, m.chat} : jid.form = "lid" => Owner[jid.user] = m.alt
    /\ "vote" \in m.body.has => m.body.vote.choice \in Options

ASSUME IdentitiesAssumption ==
    /\ Owner \in [Lids -> Phones] /\ \A l, k \in Lids : Owner[l] = Owner[k] => l = k
    /\ Lids \cap Phones = {} /\ {None, "status"} \cap (Lids \cup Phones) = {}
    /\ Allowed \subseteq Phones

ASSUME MessagesAssumption ==
    /\ IsFiniteSet(Ids) /\ MaxDownloads \in Nat
    /\ Corpus # {} /\ \A c \in Corpus : \A id \in Ids : IsMessage(c[id])
    /\ \A poll \in DOMAIN OwnPolls : IsChat(OwnPolls[poll])
    /\ {"inbound", "pairing"} \cap DOMAIN Calls = {}
    /\ None \notin Names

\* The contact behind a user part.
Contact(user) == IF user \in Lids THEN Owner[user] ELSE user

\* Steps 1 and 2 of both resolutions: the sender's own phone number when the
\* library supplies it, else the directory.  `known` is what the lookup gave.
PhoneBehind(alt, known) == IF alt # None THEN alt ELSE known

ResolvedSender(m, known) ==
    LET p == PhoneBehind(m.alt, known)
    IN  IF m.sender.form = "lid" /\ p # None THEN p ELSE m.sender.user

ResolvedChat(m, known) ==
    LET p == PhoneBehind(m.alt, known)
    IN  IF m.chat.form = "lid" /\ p # None THEN Jid("pn", p) ELSE m.chat

\* get_lid_mapping takes the bare user, without the device.
BareLidUser(jid) == jid.user
Known(jid) == PhoneOf(db, BareLidUser(jid))

\* A failed lookup counts as no mapping.
Lookup(result, known) ==
    \/ NoFault /\ known = result
    \/ Fault /\ known = None

AllowedToPass(m, sender, chat) ==
    \/ Allowed = {} \/ m.fromMe
    \/ sender \in Allowed
    \/ chat.form = "pn" /\ chat.user \in Allowed

\* Mutant: a chat in the phone form has no other.
OnlyPhoneAlternate(jid) ==
    IF jid.form = "lid" /\ Known(jid) # None THEN {Jid("pn", Known(jid))} ELSE {}

\* resolve_alternate_chat_jid
Alternates(jid) ==
    CASE jid.form = "lid" ->
            IF Known(jid) # None THEN {Jid("pn", Known(jid))} ELSE {}
      [] jid.form = "pn" -> {Jid("lid", l) : l \in LidsOf(db, jid.user)}
      [] OTHER -> {}

-----------------------------------------------------------------------------
(* Polls *)

\* The sender's JID, device included; the poll's participant is only used
\* when there is no sender.
SelectPollVoterJid(m) == m.sender

\* decrypt_poll_vote: the authenticated data are the poll's id and the voter.
Decrypts(m) == m.body.vote.voter = SelectPollVoterJid(m)

KeyUnder(m, chat) == HasPollKey(db, chat, m.body.vote.poll)

Selected(m, chat) ==
    LET o == m.body.vote.choice
    IN  IF o \in db["pollKeys"][<<chat, m.body.vote.poll>>].data THEN o ELSE "unknown"

OnTheList(m) ==
    \/ Allowed = {} \/ m.fromMe
    \/ Contact(m.sender.user) \in Allowed \/ Contact(m.chat.user) \in Allowed

\* The vote of somebody who is let through can be read with what is stored when its handler starts: a key
\* of its poll, under a chat that the directory knows to be the vote's.
ReadableNow(m) ==
    /\ LooksAtVote(m) /\ Decrypts(m) /\ OnTheList(m)
    /\ \E key \in DOMAIN db["pollKeys"] :
         /\ key[2] = m.body.vote.poll /\ Contact(key[1].user) = Contact(m.body.vote.remote.user)
         /\ \A jid \in {key[1], m.body.vote.remote} : jid.form = "lid" => Known(jid) # None

-----------------------------------------------------------------------------
(* Handlers of messages *)

Idle == [pc |-> "idle", sender |-> None, chat |-> Jid("none", None),
         kind |-> None, selected |-> None, alt |-> Jid("none", None),
         readable |-> FALSE, known |-> FALSE]

Go(id, pc) == hand' = [hand EXCEPT ![id] = [@ EXCEPT !.pc = pc]]

Leave(id, entry) ==
    /\ hand' = [hand EXCEPT ![id] = [@ EXCEPT !.pc = "idle"]]
    /\ dedup' = [dedup EXCEPT ![id] = entry]

Unhandled(id) == Leave(id, "done")
TransientFailure(id) == Leave(id, "absent")

\* An event arrives; only the winner of try_admit goes on.
Admit(id) ==
    LET m == msg[id] IN
    /\ ~ShouldIgnore(m.chat)
    /\ dedup[id] = "absent" /\ tries[id] < MaxTries
    /\ dedup' = [dedup EXCEPT ![id] = "inflight"]
    /\ tries' = [tries EXCEPT ![id] = @ + 1]
    /\ hand' = [hand EXCEPT ![id] =
                  [Idle EXCEPT !.pc = "sender", !.readable = ReadableNow(m),
                               !.known = \A j \in {m.sender, m.chat} :
                                  j.form = "lid" => m.alt # None \/ Known(j) # None]]
    /\ UNCHANGED <<msg, permits, open, events, history, db, failures>>

FindSender(id) ==
    /\ hand[id].pc = "sender"
    /\ \E known \in {Known(msg[id].sender), None} :
         /\ Lookup(Known(msg[id].sender), known)
         /\ hand' = [hand EXCEPT ![id] = [@ EXCEPT !.pc = "chat", !.sender = ResolvedSender(msg[id], known)]]
    /\ UNCHANGED <<msg, dedup, tries, permits, open, events, history, db>>

\* Where the message goes once its branch is known.
Proceed(id, chat, readable) ==
    LET m == msg[id]
        branch == Branch(m, readable)
        kind == Kind(m.body, branch)
        To(pc) ==
            /\ hand' = [hand EXCEPT ![id] = [@ EXCEPT !.pc = pc, !.chat = chat, !.kind = kind]]
            /\ UNCHANGED dedup
    IN  IF branch = "none" \/ kind = None THEN Unhandled(id)
        ELSE IF branch \in Media THEN IF Refusal(m.body.file) = "none" THEN To("permit") ELSE Unhandled(id)
        ELSE To(IF kind = "poll" /\ KeyToStore(m) THEN "storeKey" ELSE "record")

FindChat(id) ==
    /\ hand[id].pc = "chat"
    /\ \E known \in {Known(msg[id].chat), None} :
         LET m == msg[id]
             chat == ResolvedChat(m, known)
         IN  /\ Lookup(Known(m.chat), known)
             /\ IF ~AllowedToPass(m, hand[id].sender, chat) THEN Unhandled(id)
                ELSE IF LooksAtVote(m)
                THEN /\ hand' = [hand EXCEPT ![id] = [@ EXCEPT !.pc = "key", !.chat = chat]]
                     /\ UNCHANGED dedup
                ELSE Proceed(id, chat, FALSE)
    /\ UNCHANGED <<msg, tries, permits, open, events, history, db>>

ReadVote(id, chat) ==
    IF Decrypts(msg[id])
    THEN /\ hand' = [hand EXCEPT ![id] = [@ EXCEPT !.pc = "record", !.kind = "poll-vote", !.selected = Selected(msg[id], chat)]]
         /\ UNCHANGED dedup
    ELSE Proceed(id, hand[id].chat, FALSE)

\* The key as the vote names its chat; an error is treated as no key.
FindKey(id) ==
    /\ hand[id].pc = "key"
    /\ LET remote == msg[id].body.vote.remote
           miss == Go(id, "alternate") /\ UNCHANGED dedup
       IN  \/ /\ NoFault
              /\ IF KeyUnder(msg[id], remote) THEN ReadVote(id, remote) ELSE miss
           \/ Fault /\ miss
    /\ UNCHANGED <<msg, tries, permits, open, events, history, db>>

FindAlternate(id) ==
    /\ hand[id].pc = "alternate"
    /\ LET alts == Alternates(msg[id].body.vote.remote)
           give == Proceed(id, hand[id].chat, FALSE)
       IN  \/ /\ NoFault
              /\ IF alts = {} THEN give
                 ELSE /\ \E a \in alts :
                            hand' = [hand EXCEPT ![id] = [@ EXCEPT !.pc = "altKey", !.alt = a]]
                      /\ UNCHANGED dedup
           \/ Fault /\ give
    /\ UNCHANGED <<msg, tries, permits, open, events, history, db>>

FindAltKey(id) ==
    /\ hand[id].pc = "altKey"
    /\ \/ /\ NoFault
          /\ IF KeyUnder(msg[id], hand[id].alt) THEN ReadVote(id, hand[id].alt)
             ELSE Proceed(id, hand[id].chat, FALSE)
       \/ Fault /\ Proceed(id, hand[id].chat, FALSE)
    /\ UNCHANGED <<msg, tries, permits, open, events, history, db>>

TakePermit(id) ==
    /\ hand[id].pc = "permit" /\ permits > 0
    /\ permits' = permits - 1
    /\ Go(id, "downloading")
    /\ UNCHANGED <<msg, dedup, tries, open, events, history, db, failures>>

\* The permit is dropped on every way out of MediaMode::bytes.
DownloadEnds(id) ==
    /\ hand[id].pc = "downloading"
    /\ permits' = permits + 1
    /\ \/ /\ NoFault
          /\ IF msg[id].body.file.actual = "over" THEN Unhandled(id)
             ELSE Go(id, "record") /\ UNCHANGED dedup
       \/ Fault /\ TransientFailure(id)
    /\ UNCHANGED <<msg, tries, open, events, history, db>>

\* A failed write is logged and the message goes on.
KeepKey(id) ==
    /\ hand[id].pc = "storeKey"
    /\ \/ /\ NoFault
          /\ db' = Effect(StorePollKey(hand[id].chat, id, Options), db)
       \/ Fault /\ UNCHANGED db
    /\ Go(id, "record")
    /\ UNCHANGED <<msg, dedup, tries, permits, open, events, history>>

\* insert_inbound: INSERT OR IGNORE.
Record(id) ==
    /\ hand[id].pc = "record"
    /\ \/ /\ NoFault
          /\ history' = IF id \in DOMAIN history THEN history
                        ELSE With(history, id,
                               [chat |-> hand[id].chat, sender |-> hand[id].sender,
                                kind |-> hand[id].kind,
                                body |-> HasDisplayText(hand[id].kind, msg[id].body.text),
                                embed |-> EmbedStatus(hand[id].kind, msg[id].body.text)])
       \/ Fault /\ UNCHANGED history
    /\ Go(id, "forward")
    /\ UNCHANGED <<msg, dedup, tries, permits, open, events, db>>

Forward(id) ==
    /\ hand[id].pc = "forward"
    /\ IF open
       THEN /\ events' = events \cup
                 {[id |-> id, chat |-> hand[id].chat, sender |-> hand[id].sender,
                   kind |-> hand[id].kind, selected |-> hand[id].selected,
                   viewOnce |-> FlaggedViewOnce(msg[id]),
                   context |-> HasContext(msg[id])]}
            /\ Leave(id, "done")
       ELSE TransientFailure(id) /\ UNCHANGED events
    /\ UNCHANGED <<msg, tries, permits, open, history, db, failures>>

\* The consumer drops its receiver.
CloseInbound ==
    /\ open /\ open' = FALSE
    /\ UNCHANGED <<msg, dedup, hand, tries, permits, events, history, db, failures>>

\* The library learns who is behind a LID it meets in a message.
Learn(lid) ==
    /\ \E id \in Ids : lid \in {msg[id].sender.user, msg[id].chat.user}
    /\ lid \notin DOMAIN db["lidMap"]
    /\ db' = Effect(PutLidMapping(lid, Owner[lid], Cardinality(DOMAIN db["lidMap"])), db)
    /\ UNCHANGED <<inbound, failures>>

\* The outbound worker keeps the key of a poll it sent, under the chat as the
\* caller named it (only a vote on it makes a difference here).
KeepOwnKey(poll) ==
    /\ \E id \in Ids : msg[id].body.vote.poll = poll
    /\ ~HasPollKey(db, OwnPolls[poll], poll)
    /\ db' = Effect(StorePollKey(OwnPolls[poll], poll, Options), db)
    /\ UNCHANGED <<inbound, failures>>

Handle(id) ==
    \/ FindSender(id) \/ FindChat(id) \/ FindKey(id) \/ FindAlternate(id)
    \/ FindAltKey(id) \/ TakePermit(id) \/ DownloadEnds(id) \/ KeepKey(id)
    \/ Record(id) \/ Forward(id)

InboundStep ==
    /\ traffic = "inbound"
    /\ \/ \E id \in Ids : Admit(id) \/ Handle(id)
       \/ \E l \in Lids : Learn(l)
       \/ \E p \in DOMAIN OwnPolls : KeepOwnKey(p)
       \/ CloseInbound
    /\ UNCHANGED <<tables, pairing, traffic>>

-----------------------------------------------------------------------------
(* Calls of the library on its tables.  A transaction works on a copy that  *)
(* the commit puts in place; other calls write as they go.                  *)

Statements(c) == {c.todo[i] : i \in DOMAIN c.todo}
AllCalls == UNION {Calls[g][at] : g \in DOMAIN Calls, at \in 0 .. MaxTime}

\* The keys a call writes rows for.
Writes(c) == UNION {s.keys : s \in {x \in Statements(c) : x.op = "upsert"}}

Batches == {"macs", "skDevices"}

\* A batch is a transaction and writes one number under one name; the others take rows away.  The batches
\* of a name write the same keys here, so that a part of one shows.
IsBatch(c) ==
    /\ c.tx \/ Len(c.todo) = 1
    /\ \A s \in Statements(c) : s.op \in {"upsert", "delete", "expire"}
    /\ Writes(c) # {} =>
         /\ \A s \in Statements(c) : s.op = "upsert" /\ \A r \in Statements(c) : r.row.n = s.row.n
         /\ \A x, y \in Writes(c) : x[1] = y[1]

\* The messages kept for retries are stored, taken and expired by single statements.
IsRetryCall(c) ==
    /\ Len(c.todo) = 1
    /\ LET s == c.todo[1]
       IN  \/ s.op = "upsert" /\ s.keys \subseteq SentKeys /\ s.row.n \in Nat /\ c.want = None
           \/ s.op = "delete" /\ s.keys = {c.want} /\ c.want \in SentKeys
           \/ s.op = "expire" /\ s.row.n \in Int /\ c.want = None

ASSUME CallsAssumption ==
    /\ MaxTime \in Nat /\ None \notin SentKeys
    /\ \A g \in DOMAIN Calls : 0 .. MaxTime \subseteq DOMAIN Calls[g]
    /\ \A c \in AllCalls :
         /\ c.todo \in Seq(Statements(c))
         /\ \A s \in Statements(c) :
              /\ s.t \in Tables /\ \A r \in Statements(c) : r.t = s.t
              /\ s.op = "upsert" => \E k \in s.keys : s.keys = {k}
              /\ s.t \in Batches => IsBatch(c)
              /\ s.t = "sent" => IsRetryCall(c)
    /\ \A c, o \in AllCalls : \A x \in Writes(c), y \in Writes(o) :
         c.todo[1].t \in Batches /\ o.todo[1].t = c.todo[1].t /\ x[1] = y[1] => y \in Writes(c)

NoCall == [tx |-> FALSE, todo |-> << >>, want |-> None, work |-> Empty, busy |-> FALSE]

Begin(c) ==
    /\ ~call.busy /\ calls < MaxCalls
    /\ calls' = calls + 1
    /\ call' = [tx |-> c.tx, todo |-> c.todo, want |-> c.want,
                work |-> IF c.todo = << >> THEN Empty ELSE db[Head(c.todo).t],
                busy |-> TRUE]
    /\ UNCHANGED <<db, now, copy, again, failures>>

\* What the library was promised about the messages kept for retries.
CountCopies(s, got) ==
    /\ copy' = [k \in SentKeys |->
                  CASE s.op = "upsert" /\ k \in s.keys -> s.row.n
                    [] k = got -> -1
                    [] s.op = "expire" /\ copy[k] < s.row.n -> -1
                    [] OTHER -> copy[k]]
    /\ again' = again \cup {k \in SentKeys : k = got /\ copy[k] = -1}

\* Mutant: a batch without a transaction.
WrittenAtOnce(s, result) == [db EXCEPT ![s.t] = result]

\* What readers see after a statement: nothing of a transaction before its last.
Committed(s, result) ==
    IF call.tx /\ Tail(call.todo) # << >> THEN db ELSE [db EXCEPT ![s.t] = result]

\* Every statement of a call is on one table.
Statement ==
    /\ call.busy /\ call.todo # << >>
    /\ LET s == Head(call.todo)
           result == Result(s, call.work)
       IN  /\ call' = [tx |-> call.tx, todo |-> Tail(call.todo), work |-> result, busy |-> TRUE,
                       want |-> IF call.want # None /\ call.want \in DOMAIN call.work THEN call.want ELSE None]
           /\ db' = Committed(s, result)
           /\ IF s.t = "sent" THEN CountCopies(s, call'.want) ELSE UNCHANGED <<copy, again>>
    /\ UNCHANGED <<calls, now, failures>>

Return ==
    /\ call.busy /\ call.todo = << >>
    /\ call' = NoCall
    /\ UNCHANGED <<calls, now, copy, again, db, failures>>

\* An error ends the call and rolls its transaction back; a crash does the
\* same and the process starts again on what was committed.
CallFails ==
    /\ call.busy /\ call.todo # << >> /\ Fault
    /\ call' = NoCall
    /\ UNCHANGED <<calls, now, copy, again, db>>

Tick ==
    /\ ~call.busy /\ now < MaxTime /\ now' = now + 1
    /\ UNCHANGED <<call, calls, copy, again, db, failures>>

TableStep ==
    /\ traffic \in DOMAIN Calls
    /\ \/ \E c \in Calls[traffic][now] : Begin(c)
       \/ Statement \/ Return \/ CallFails \/ Tick
    /\ UNCHANGED <<inbound, pairing, traffic>>

-----------------------------------------------------------------------------
(* Pairing, and the name the phone shows *)

NoDevice == [there |-> FALSE, identity |-> 0, paired |-> FALSE]
Legacy == "Habb"

Down == [pc |-> "down", configured |-> None, sawPaired |-> FALSE, sawName |-> None,
         effective |-> None, client |-> NoDevice, claims |-> FALSE]

\* Mutant: the configured name wins at every start.
AlwaysConfigured(paired, saved, configured) == [use |-> configured, persist |-> configured]

\* resolve_device_name: the name to use, and the name to persist, if any.
ResolveDeviceName(paired, saved, configured) ==
    IF ~paired THEN [use |-> configured, persist |-> configured]
    ELSE IF saved # None THEN [use |-> saved, persist |-> None]
    ELSE [use |-> Legacy, persist |-> Legacy]

StartProcess ==
    /\ session.pc = "down" /\ starts < MaxStarts /\ starts' = starts + 1
    /\ \E n \in Names : session' = [Down EXCEPT !.pc = "paired?", !.configured = n]
    /\ UNCHANGED <<device, name, phone, clears, excused, db, failures>>

\* The process dies; handlers die with it.
Crash ==
    /\ session.pc # "down"
    /\ session' = Down /\ clears' = 0
    /\ UNCHANGED <<device, name, phone, excused, starts, db, failures>>

\* is_paired: an error is taken for "not paired".
ReadPaired ==
    /\ session.pc = "paired?"
    /\ \/ /\ NoFault
          /\ session' = [session EXCEPT !.pc = "name?", !.sawPaired = device.paired]
          /\ UNCHANGED excused
       \/ /\ Fault /\ excused' = TRUE
          /\ session' = [session EXCEPT !.pc = "name?", !.sawPaired = FALSE]
    /\ UNCHANGED <<device, name, phone, clears, starts, db>>

ReadName ==
    /\ session.pc = "name?"
    /\ \/ /\ NoFault
          /\ session' = [session EXCEPT !.pc = "resolve", !.sawName = name]
          /\ UNCHANGED excused
       \/ /\ Fault /\ excused' = TRUE
          /\ session' = [session EXCEPT !.pc = "resolve", !.sawName = None]
    /\ UNCHANGED <<device, name, phone, clears, starts, db>>

ResolveName ==
    /\ session.pc = "resolve"
    /\ LET r == ResolveDeviceName(session.sawPaired, session.sawName, session.configured)
       IN  /\ session' = [session EXCEPT !.pc = "build", !.effective = r.use]
           /\ \/ /\ NoFault
                 /\ name' = IF r.persist = None THEN name ELSE r.persist
                 /\ UNCHANGED excused
              \/ /\ r.persist # None /\ Fault
                 /\ excused' = TRUE /\ UNCHANGED name
    /\ UNCHANGED <<device, phone, clears, starts, db>>

\* DeviceStore::create never replaces a device: it would rotate its identity.
Create(row, identity) ==
    IF row.there THEN row ELSE [there |-> TRUE, identity |-> identity, paired |-> FALSE]

\* The library opens the store: exists, create, load.
BuildBot ==
    /\ session.pc = "build"
    /\ device.there \/ phone.last < MaxPairings
    /\ device' = Create(device, phone.last + 1)
    /\ phone' = [phone EXCEPT !.last = IF device.there THEN @ ELSE @ + 1]
    /\ session' = [session EXCEPT !.pc = "running", !.client = device',
                                  !.claims = ServerHasPrekeys(db)]
    /\ UNCHANGED <<name, clears, excused, starts, db, failures>>

Running == session.pc = "running"

\* The phone links the device and lists it under the name the client sent.
Link ==
    /\ Running /\ ~session.client.paired
    /\ session' = [session EXCEPT !.client.paired = TRUE]
    /\ phone' = [phone EXCEPT !.linked = session.client.identity, !.name = session.effective]
    \* the name was read and kept without a fault, and no logout of an
    \* earlier pairing is still to be handled
    /\ excused' = (name # session.effective \/ clears > 0)
    /\ UNCHANGED <<device, name, clears, starts, db, failures>>

\* DeviceStore::save: the client's own copy replaces the row.
Save ==
    /\ Running /\ session.client # device
    /\ device' = session.client
    /\ UNCHANGED <<name, phone, session, clears, excused, starts, db, failures>>

\* A paired client that does not believe the server has prekeys uploads some.
UploadPrekeys ==
    /\ Running /\ session.client.paired /\ ~session.claims
    /\ db' = Effect(StorePrekey(MaxPrekeyId(db) + 1, "key", 1), db)
    /\ session' = [session EXCEPT !.claims = TRUE]
    /\ UNCHANGED <<device, name, phone, clears, excused, starts, failures>>

\* The user removes the device on the phone.
Unlink ==
    /\ phone.linked # 0
    /\ phone' = [phone EXCEPT !.linked = 0]
    /\ UNCHANGED <<device, name, session, clears, excused, starts, db, failures>>

\* The server tells a client it no longer knows; handlers are tasks of their own.
LoggedOut ==
    /\ Running /\ session.client.paired /\ phone.linked # session.client.identity
    /\ clears < MaxPairings /\ clears' = clears + 1
    /\ session' = [session EXCEPT !.pc = "ending"]
    /\ UNCHANGED <<device, name, phone, excused, starts, db, failures>>

\* clear_device: the row and the name go in one transaction, or stay.
ClearDevice ==
    /\ clears > 0 /\ clears' = clears - 1
    /\ \/ NoFault /\ device' = NoDevice /\ name' = None
       \/ Fault /\ UNCHANGED <<device, name>>
    /\ UNCHANGED <<session, phone, excused, starts, db>>

\* The bot's task ends and run_bridge starts the next session.
SessionEnds ==
    /\ session.pc \in {"running", "ending"}
    /\ session' = [Down EXCEPT !.pc = "paired?", !.configured = session.configured]
    /\ UNCHANGED <<device, name, phone, clears, excused, starts, db, failures>>

PairingStep ==
    /\ traffic = "pairing"
    /\ \/ StartProcess \/ Crash \/ ReadPaired \/ ReadName \/ ResolveName \/ BuildBot
       \/ Link \/ Save \/ UploadPrekeys \/ Unlink \/ LoggedOut \/ ClearDevice
       \/ SessionEnds
    /\ UNCHANGED <<inbound, tables, traffic>>

-----------------------------------------------------------------------------
LinkedInit ==
    /\ traffic \in Traffic /\ failures = 0
    /\ IF traffic = "inbound" THEN msg \in Corpus ELSE msg = CHOOSE m \in Corpus : TRUE
    /\ dedup = [i \in Ids |-> "absent"] /\ tries = [i \in Ids |-> 0]
    /\ hand = [i \in Ids |-> Idle]
    /\ permits = MaxDownloads /\ open = TRUE /\ events = {} /\ history = << >>
    /\ db = EmptyStore
    /\ call = NoCall /\ calls = 0 /\ now = 0
    /\ copy = [k \in SentKeys |-> -1] /\ again = {}
    \* a new database, or one paired before names were kept
    /\ \/ /\ device = NoDevice
          /\ phone = [linked |-> 0, name |-> None, last |-> 0]
       \/ /\ traffic = "pairing"
          /\ device = [there |-> TRUE, identity |-> 1, paired |-> TRUE]
          /\ phone = [linked |-> 1, name |-> Legacy, last |-> 1]
    /\ name = None /\ session = Down /\ clears = 0 /\ excused = FALSE /\ starts = 0

LinkedNext == InboundStep \/ TableStep \/ PairingStep

LinkedSpec == LinkedInit /\ [][LinkedNext]_linkedVars

-----------------------------------------------------------------------------
(* Properties *)

Downloading == {id \in Ids : hand[id].pc = "downloading"}

\* bridge.rs, direct_path_is_safe and MediaMode: no request is ever made for
\* media whose location the sender could have pointed elsewhere, or that is
\* declared too large, through any wrapper; at most MAX_CONCURRENT_DOWNLOADS
\* run, and every slot taken is given back.
DownloadsSafe ==
    /\ \A id \in Downloading :
         /\ msg[id].body.file.place = "path" /\ msg[id].body.file.declared # "over"
         /\ Len(msg[id].wraps) <= MaxExtractDepth
    /\ Cardinality(Downloading) + permits = MaxDownloads
    /\ permits >= 0

\* bridge.rs, resolve_chat_jid and resolve_sender: what is forwarded or kept
\* names the contact it came from and the chat it belongs to, in the phone form
\* when the numbers were known before the message came; and a sender who is
\* not on the list is not let through.
FiledTrue ==
    /\ \A e \in events :
         LET m == msg[e.id] IN
         /\ Contact(e.sender) = Contact(m.sender.user)
         /\ Contact(e.chat.user) = Contact(m.chat.user)
         /\ hand[e.id].known /\ failures = 0 => e.sender \notin Lids /\ e.chat.form # "lid"
         /\ OnTheList(m)
    /\ \A id \in DOMAIN history :
         /\ Contact(history[id].chat.user) = Contact(msg[id].chat.user)
         /\ Contact(history[id].sender) = Contact(msg[id].sender.user)

\* bridge.rs, the poll vote branch: a vote that is forwarded says what the
\* voter chose, and one whose key was stored under either form of the chat
\* when it came is forwarded as a vote.
VotesTrue ==
    /\ \A e \in events : e.kind = "poll-vote" => e.selected = msg[e.id].body.vote.choice
    /\ \A id \in Ids :
         hand[id].readable /\ hand[id].known /\ failures = 0 /\ dedup[id] = "done" =>
            \E e \in events : e.id = id /\ e.kind = "poll-vote"

\* What the rest of the bridge is told of a conversation is what happened in it.
ConversationsTrue == FiledTrue /\ VotesTrue

\* storage.rs, the transactions of the library's calls: no state of the
\* database, whoever reads it and whatever failed, shows a part of a batch of
\* MACs or of sender key marks; and a message kept for retries is handed out at
\* most once for every time it was stored, and is there until then or until it
\* expires.
CallsWhole ==
    /\ \A x, y \in DOMAIN db["macs"] :
         x[1] = y[1] => db["macs"][x].n = db["macs"][y].n
    /\ \A x, y \in DOMAIN db["skDevices"] :
         x[1] = y[1] => db["skDevices"][x].n = db["skDevices"][y].n
    /\ again = {}
    /\ ~call.busy => {k \in SentKeys : copy[k] >= 0} = DOMAIN db["sent"]

\* bridge.rs, resolve_device_name: "the name is fixed for the life of a
\* pairing" - while the phone lists this device, the bridge reports the name
\* the phone shows, through restarts, other configurations and re-pairings.
NameTrue ==
    Running /\ session.client.paired /\ phone.linked = session.client.identity
        /\ ~excused => session.effective = phone.name
=============================================================================
