----------------------------- MODULE SignalStore -----------------------------
(***************************************************************************)
(* The tables the WhatsApp library keeps in the bridge's database, and the *)
(* store's methods on them: Signal identities, sessions and keys, the app  *)
(* state, group sender keys, the messages kept for retries, tokens and the *)
(* LID directory.                                                          *)
(*                                                                         *)
(* A table is a function from its keys to rows [data, n], where n is the   *)
(* number the row carries: prekeys.uploaded, the version of a MAC, a       *)
(* timestamp, or the rowid of an app state key.  A method is a call: the   *)
(* statements it executes, and whether they run in one transaction.        *)
(***************************************************************************)
EXTENDS Integers, Sequences, FiniteSets, Functions

Tables == {"identities", "sessions", "prekeys", "signedPrekeys", "senderKeys",
           "syncKeys", "versions", "macs", "skDevices", "lidMap", "baseKeys",
           "devices", "sent", "tcTokens", "pollKeys"}

Row(data, n) == [data |-> data, n |-> n]
Empty == [k \in {} |-> Row("none", 0)]
EmptyStore == [t \in Tables |-> Empty]

\* Statements
Upsert(t, k, data, n) == [op |-> "upsert", t |-> t, keys |-> {k}, row |-> Row(data, n)]
Append1(t, k, data) == [op |-> "append", t |-> t, keys |-> {k}, row |-> Row(data, 0)]
Flag(t, k) == [op |-> "flag", t |-> t, keys |-> {k}, row |-> Row("none", 1)]
Delete(t, ks) == [op |-> "delete", t |-> t, keys |-> ks, row |-> Row("none", 0)]
Expire(t, cutoff) == [op |-> "expire", t |-> t, keys |-> {}, row |-> Row("none", cutoff)]

With(table, k, row) == [x \in DOMAIN table \cup {k} |-> IF x = k THEN row ELSE table[x]]
Without(table, ks) == Restrict(table, DOMAIN table \ ks)
Largest(table) == CHOOSE n \in {table[k].n : k \in DOMAIN table} \cup {0} :
                      \A k \in DOMAIN table : table[k].n <= n

Key(s) == CHOOSE k \in s.keys : TRUE

\* What a statement leaves of its table.  A new row of app_state_keys gets the
\* next rowid; an update of an old one keeps its place.
Result(s, table) ==
    CASE s.op = "upsert" -> With(table, Key(s), s.row)
      [] s.op = "append" ->
            With(table, Key(s), Row(s.row.data, IF Key(s) \in DOMAIN table THEN table[Key(s)].n
                                                ELSE Largest(table) + 1))
      [] s.op = "flag" ->
            [k \in DOMAIN table |-> IF k \in s.keys THEN [table[k] EXCEPT !.n = s.row.n]
                                    ELSE table[k]]
      [] s.op = "delete" -> Without(table, s.keys)
      [] s.op = "expire" -> Without(table, {k \in DOMAIN table : table[k].n < s.row.n})

Execute(s, db) == [db EXCEPT ![s.t] = Result(s, db[s.t])]

\* What a call of one statement leaves.
Effect(call, db) == Execute(Head(call.todo), db)

\* `want` is the key whose row the caller gets back, if the method returns one.
One(s) == [tx |-> FALSE, todo |-> << s >>, want |-> "none"]
Whole(ss) == [tx |-> TRUE, todo |-> ss, want |-> "none"]
EachAlone(ss) == [tx |-> FALSE, todo |-> ss, want |-> "none"]

-----------------------------------------------------------------------------
(* SignalStore *)

PutIdentity(a, key) == One(Upsert("identities", a, key, 0))
DeleteIdentity(a) == One(Delete("identities", {a}))
PutSession(a, record) == One(Upsert("sessions", a, record, 0))
DeleteSession(a) == One(Delete("sessions", {a}))
StorePrekey(id, key, uploaded) == One(Upsert("prekeys", id, key, uploaded))
\* One statement per key and no transaction around them.
MarkPrekeysUploaded(ids) == EachAlone([i \in DOMAIN ids |-> Flag("prekeys", ids[i])])
RemovePrekey(id) == One(Delete("prekeys", {id}))
StoreSignedPrekey(id, record) == One(Upsert("signedPrekeys", id, record, 0))
RemoveSignedPrekey(id) == One(Delete("signedPrekeys", {id}))
PutSenderKey(a, record) == One(Upsert("senderKeys", a, record, 0))
DeleteSenderKey(a) == One(Delete("senderKeys", {a}))

\* load_device_from_db: "the server already has our prekeys".
ServerHasPrekeys(db) == \E id \in DOMAIN db["prekeys"] : db["prekeys"][id].n = 1
MaxPrekeyId(db) ==
    CHOOSE m \in DOMAIN db["prekeys"] \cup {0} : \A id \in DOMAIN db["prekeys"] : id <= m

(* AppSyncStore *)

SetSyncKey(id, key) == One(Append1("syncKeys", id, key))
SetVersion(name, state) == One(Upsert("versions", name, state, 0))
PutMutationMacs(name, version, indexes, mac) ==
    Whole([i \in DOMAIN indexes |-> Upsert("macs", <<name, indexes[i]>>, mac, version)])
DeleteMutationMacs(name, indexes) ==
    Whole([i \in DOMAIN indexes |-> Delete("macs", {<<name, indexes[i]>>})])
ClearMutationMacs(name, indexes) == One(Delete("macs", {name} \X indexes))

(* ProtocolStore *)

SetSenderKeyStatus(group, devices, needs) ==
    Whole([i \in DOMAIN devices |->
            Upsert("skDevices", <<group, devices[i]>>, "status", needs)])
ClearSenderKeyDevices(group, devices) == One(Delete("skDevices", {group} \X devices))
\* No condition on the rows, whose status is 0 or 1.
ClearAllSenderKeyDevices == One(Expire("skDevices", 2))
DeleteSenderKeyDeviceRows(groups, devices) == One(Delete("skDevices", groups \X devices))

PutLidMapping(lid, phone, at) == One(Upsert("lidMap", lid, phone, at))
\* The phone number of a LID; get_pn_mapping takes the newest LID of a phone.
PhoneOf(db, lid) == IF lid \in DOMAIN db["lidMap"] THEN db["lidMap"][lid].data ELSE "none"
LidsOf(db, phone) ==
    LET all == {l \in DOMAIN db["lidMap"] : db["lidMap"][l].data = phone}
    IN  {l \in all : \A o \in all : db["lidMap"][o].n <= db["lidMap"][l].n}

SaveBaseKey(a, id, key) == One(Upsert("baseKeys", <<a, id>>, key, 0))
DeleteBaseKey(a, id) == One(Delete("baseKeys", {<<a, id>>}))

UpdateDeviceList(user, list) == One(Upsert("devices", user, list, 0))
DeleteDevices(user) == One(Delete("devices", {user}))

StoreSentMessage(k, payload, now) == One(Upsert("sent", k, payload, now))
\* Read and delete in one transaction; nothing is deleted when nothing is there.
TakeSentMessage(k) == [tx |-> TRUE, todo |-> << Delete("sent", {k}) >>, want |-> k]
DeleteExpiredSentMessages(cutoff) == One(Expire("sent", cutoff))

PutTcToken(jid, token, at) == One(Upsert("tcTokens", jid, token, at))
DeleteTcToken(jid) == One(Delete("tcTokens", {jid}))
DeleteExpiredTcTokens(cutoff) == One(Expire("tcTokens", cutoff))

(* Poll keys, and the secrets of messages, which are not kept at all. *)

StorePollKey(chat, poll, key) == One(Upsert("pollKeys", <<chat, poll>>, key, 0))
HasPollKey(db, chat, poll) == <<chat, poll>> \in DOMAIN db["pollKeys"]
PutMsgSecrets == EachAlone(<< >>)
=============================================================================
