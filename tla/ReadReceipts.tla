---------------------------- MODULE ReadReceipts ----------------------------
(***************************************************************************)
(* The read receipt scheduler (read_receipts.rs): event handlers report    *)
(* messages and connections, send_reply flushes a chat before it replies,  *)
(* and one task batches the receipts and sends them.                       *)
(*                                                                         *)
(* A message is reported under the chat JID the server used (raw); who     *)
(* replies knows the chat by the JID resolve_chat_jid made of it.          *)
(***************************************************************************)
EXTENDS Naturals, Sequences, FiniteSets

CONSTANTS
    Msgs,            \* messages, each reported once (the dedup cache sees to that)
    Jids,            \* chat JIDs, raw and resolved
    Senders,         \* participants of groups
    KeyOf,           \* the batch key of a message: its raw chat, its group sender
    Resolve,         \* resolve_chat_jid
    Repliers,        \* callers of flush_read_receipts
    ChannelCapacity, \* of the command channel
    MaxSwitches      \* SetClient commands in a behaviour (bound)

NoSender == "none"
NoOne == "nobody"
Key == [chat: Jids, sender: Senders \cup {NoSender}]

ASSUME ReceiptsAssumption ==
    /\ IsFiniteSet(Msgs) /\ IsFiniteSet(Jids) /\ IsFiniteSet(Senders)
    /\ KeyOf \in [Msgs -> Key]
    /\ Resolve \in [Jids -> Jids]
    /\ NoOne \notin Repliers
    /\ ChannelCapacity \in Nat \ {0} /\ MaxSwitches \in Nat

VARIABLES
    channel,    \* ReadReceiptCmd's on their way, oldest first
    attached,   \* is a sender of the channel left
    pending,    \* PendingBatch.batches; an absent key is the empty sequence
    client,     \* has the scheduler a client
    sched,      \* the scheduler task
    switches,   \* SetClient's sent so far
    reply,      \* the callers of flush_read_receipts
    reported,   \* messages that were Seen
    receipts    \* mark_as_read calls, whatever their outcome

inputs == <<switches, reported>>
receiptVars == <<channel, attached, pending, client, sched, switches, reply, reported, receipts>>

SeenCmd == [op: {"seen"}, msg: Msgs]
FlushCmd == [op: {"flush"}, chat: Jids, ack: Repliers]
ClientCmd == [op: {"client"}, some: BOOLEAN]

Batch == [key: Key, ids: Seq(Msgs)]

\* sched.todo: drained batches; sched.ack: who waits for them; sched.then: what
\* the task does when they are gone
Select == [pc |-> "select", todo |-> {}, ack |-> NoOne, then |-> "select"]
Sending(todo, ack, then) == [pc |-> "sending", todo |-> todo, ack |-> ack, then |-> then]
Gone == [pc |-> "gone", todo |-> {}, ack |-> NoOne, then |-> "gone"]

IdleReply == [pc |-> "idle", chat |-> NoOne, before |-> {}]
ReplyPcs == {"idle", "waiting", "flushed", "skipped"}

----------------------------------------------------------------------------
(* PendingBatch *)

Insert(p, m) == [p EXCEPT ![KeyOf[m]] = Append(@, m)]

BatchesOf(p, keys) == {[key |-> k, ids |-> p[k]] : k \in {k \in keys : p[k] # <<>>}}

\* Mutant: drain_chat looks up one key instead of filtering.
ChatKeysDirect(chat) == {[chat |-> chat, sender |-> NoSender]}

ChatKeys(chat) == {k \in Key : k.chat = chat}

Without(p, keys) == [k \in Key |-> IF k \in keys THEN <<>> ELSE p[k]]

----------------------------------------------------------------------------
(* The senders of commands.  A full channel makes them wait. *)

Send(cmd) ==
    /\ Len(channel) < ChannelCapacity
    /\ channel' = Append(channel, cmd)

\* handle_event, Message: the message was forwarded and is not the user's own.
Seen(m) ==
    /\ attached /\ m \notin reported
    /\ Send([op |-> "seen", msg |-> m])
    /\ reported' = reported \cup {m}
    /\ UNCHANGED <<attached, pending, client, sched, switches, reply, receipts>>

\* handle_event: Connected, or one of the seven events that take the client away
SetClient(some) ==
    /\ attached /\ switches < MaxSwitches
    /\ Send([op |-> "client", some |-> some])
    /\ switches' = switches + 1
    /\ UNCHANGED <<attached, pending, client, sched, reply, reported, receipts>>

\* flush_read_receipts, called by send_reply_mentioned with the JID it was given
FlushChat(r, chat) ==
    /\ attached /\ reply[r].pc = "idle"
    /\ Send([op |-> "flush", chat |-> chat, ack |-> r])
    /\ reply' = [reply EXCEPT ![r] = [pc |-> "waiting", chat |-> chat, before |-> reported]]
    /\ UNCHANGED <<attached, pending, client, sched, inputs, receipts>>

\* The caller has its answer and goes on to enqueue the reply.
Replied(r) ==
    /\ reply[r].pc \in {"flushed", "skipped"}
    /\ reply' = [reply EXCEPT ![r] = IdleReply]
    /\ UNCHANGED <<channel, attached, pending, client, sched, inputs, receipts>>

\* The bridge and its handlers are gone, and with them the senders.
Close ==
    /\ attached /\ \A r \in Repliers : reply[r].pc # "waiting"
    /\ attached' = FALSE
    /\ UNCHANGED <<channel, pending, client, sched, inputs, reply, receipts>>

----------------------------------------------------------------------------
(* run_scheduler *)

Recv(op) ==
    /\ sched.pc = "select"
    /\ channel # <<>> /\ Head(channel).op = op
    /\ channel' = Tail(channel)

RecvSeen ==
    /\ Recv("seen")
    /\ pending' = Insert(pending, Head(channel).msg)
    /\ UNCHANGED <<attached, client, sched, inputs, reply, receipts>>

RecvClient ==
    /\ Recv("client")
    /\ client' = Head(channel).some
    /\ UNCHANGED <<attached, pending, sched, inputs, reply, receipts>>

\* Mutant: the batches are drained before the client is looked at.
FlushDrainsFirst ==
    LET cmd == Head(channel)
        keys == ChatKeys(cmd.chat)
    IN  /\ Recv("flush")
        /\ pending' = Without(pending, keys)
        /\ \/ /\ client
              /\ sched' = Sending(BatchesOf(pending, keys), cmd.ack, "select")
              /\ UNCHANGED reply
           \/ /\ ~client
              /\ reply' = [reply EXCEPT ![cmd.ack].pc = "skipped"]
              /\ UNCHANGED sched
        /\ UNCHANGED <<attached, client, inputs, receipts>>

RecvFlush ==
    LET cmd == Head(channel)
        keys == ChatKeys(cmd.chat)
    IN  /\ Recv("flush")
        /\ \/ /\ client
              /\ sched' = Sending(BatchesOf(pending, keys), cmd.ack, "select")
              /\ pending' = Without(pending, keys)
              /\ UNCHANGED reply
           \/ /\ ~client
              /\ reply' = [reply EXCEPT ![cmd.ack].pc = "skipped"]
              /\ UNCHANGED <<sched, pending>>
        /\ UNCHANGED <<attached, client, inputs, receipts>>

\* The coalescing interval; nothing pending or no client: nothing happens.
Tick ==
    /\ sched.pc = "select"
    /\ client /\ BatchesOf(pending, Key) # {}
    /\ sched' = Sending(BatchesOf(pending, Key), NoOne, "select")
    /\ pending' = Without(pending, Key)
    /\ UNCHANGED <<channel, attached, client, inputs, reply, receipts>>

\* Mutant: what is left is dropped.
RecvClosedDrops ==
    /\ sched.pc = "select" /\ channel = <<>> /\ ~attached
    /\ sched' = Gone
    /\ UNCHANGED <<channel, attached, pending, client, inputs, reply, receipts>>

\* recv returns None: break, and drain what is left.
RecvClosed ==
    /\ sched.pc = "select" /\ channel = <<>> /\ ~attached
    /\ IF client
       THEN sched' = Sending(BatchesOf(pending, Key), NoOne, "gone") /\ pending' = Without(pending, Key)
       ELSE sched' = Gone /\ UNCHANGED pending
    /\ UNCHANGED <<channel, attached, client, inputs, reply, receipts>>

\* send_receipt: the batch is gone from pending whether or not mark_as_read fails,
\* which is only logged.
SendReceipt(b) ==
    /\ b \in sched.todo
    /\ receipts' = receipts \cup {b}
    /\ sched' = [sched EXCEPT !.todo = @ \ {b}]
    /\ UNCHANGED <<channel, attached, pending, client, inputs, reply>>

\* The for loop is over: acknowledge the flush, and back to the select.
Sent ==
    /\ sched.pc = "sending" /\ sched.todo = {}
    /\ reply' = IF sched.ack = NoOne THEN reply ELSE [reply EXCEPT ![sched.ack].pc = "flushed"]
    /\ sched' = IF sched.then = "gone" THEN Gone ELSE Select
    /\ UNCHANGED <<channel, attached, pending, client, inputs, receipts>>

Scheduler ==
    \/ RecvSeen \/ RecvClient \/ RecvFlush \/ Tick \/ RecvClosed \/ Sent
    \/ \E b \in sched.todo : SendReceipt(b)

ReceiptsInit ==
    /\ channel = <<>> /\ attached = TRUE
    /\ pending = [k \in Key |-> <<>>]
    /\ client = FALSE /\ sched = Select
    /\ switches = 0 /\ reported = {}
    /\ reply = [r \in Repliers |-> IdleReply]
    /\ receipts = {}

ReceiptsNext ==
    \/ Scheduler
    \/ Close
    \/ \E m \in Msgs : Seen(m)
    \/ \E some \in BOOLEAN : SetClient(some)
    \/ \E r \in Repliers : Replied(r) \/ \E chat \in Jids : FlushChat(r, chat)

ReceiptsSpec == ReceiptsInit /\ [][ReceiptsNext]_receiptVars

\* The runtime polls the task when a command or a tick is there, mark_as_read
\* returns, and tokio::select! picks at random among the branches that are ready,
\* so a stream of commands cannot keep the tick out for ever.
FairReceiptsSpec == ReceiptsSpec /\ WF_receiptVars(Scheduler) /\ SF_receiptVars(Tick)

----------------------------------------------------------------------------
(* Properties *)

\* Commands, batches, callers and receipts have their types, and the channel keeps
\* to its capacity.
ReceiptsTyped ==
    /\ channel \in Seq(SeenCmd \cup FlushCmd \cup ClientCmd) /\ Len(channel) <= ChannelCapacity
    /\ attached \in BOOLEAN /\ client \in BOOLEAN
    /\ pending \in [Key -> Seq(Msgs)]
    /\ sched \in [pc: {"select", "sending", "gone"}, todo: SUBSET Batch,
                  ack: Repliers \cup {NoOne}, then: {"select", "gone"}]
    /\ switches \in 0 .. MaxSwitches
    /\ reply \in [Repliers -> [pc: ReplyPcs, chat: Jids \cup {NoOne}, before: SUBSET Msgs]]
    /\ reported \subseteq Msgs
    /\ receipts \subseteq Batch

In(m, s) == \E i \in DOMAIN s : s[i] = m
Attempted == {m \in Msgs : \E r \in receipts : In(m, r.ids)}

\* The places a reported message may be in: the channel, a pending batch, a
\* batch being sent, a receipt.
Places(m) ==
    Cardinality({i \in DOMAIN channel : channel[i].op = "seen" /\ channel[i].msg = m})
    + Cardinality({k \in Key : In(m, pending[k])})
    + Cardinality({b \in sched.todo : In(m, b.ids)})
    + Cardinality({r \in receipts : In(m, r.ids)})

\* No receipt is forgotten and none is sent twice: a message that was reported
\* is in exactly one place, whatever flushes, ticks and client changes do.
OncePerMessage == \A m \in reported : Places(m) = 1

\* A receipt names the chat and the group member the messages are from.
ReceiptsNameTheirSender == \A r \in receipts : \A m \in Msgs : In(m, r.ids) => KeyOf[m] = r.key

\* A reported message is on its way to exactly one receipt, which names the
\* chat and the group member it is from.
ReceiptsTrue == ReceiptsTyped /\ OncePerMessage /\ ReceiptsNameTheirSender

\* A caller that is told the chat was flushed replies after a receipt was tried
\* for every message reported under that JID before its call.
FlushCovers ==
    \A r \in Repliers : reply[r].pc = "flushed"
        => \A m \in reply[r].before : KeyOf[m].chat = reply[r].chat => m \in Attempted

\* If the scheduler has a client from some time on, the receipt of every message
\* reported is tried, the shutdown included.
EventuallyAttempted == <>[]client => \A m \in Msgs : m \in reported ~> m \in Attempted
====
