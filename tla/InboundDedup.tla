---------------------------- MODULE InboundDedup ----------------------------
(***************************************************************************)
(* The inbound path: handle_event's Message arm (bridge.rs) and the dedup  *)
(* cache it shares with every other handler (dedup.rs).                    *)
(*                                                                         *)
(* Every delivery of a message is handled by a task of its own, so the     *)
(* steps of try_admit interleave.  A step is what one lock protects: the   *)
(* shard of the map that holds an entry, or the order queue.  An entry's   *)
(* generation is the counter value plus one, so 0 means no entry.          *)
(***************************************************************************)
EXTENDS Naturals, Sequences, FiniteSets

CONSTANTS
    Handlers,   \* tasks that handle Message events at the same time
    Ids,        \* message ids the server delivers, any number of times each
    Capacity,   \* config.dedup_capacity
    MaxAdmits   \* calls of try_admit in a behaviour (bound)

Nobody == "nobody"

ASSUME DedupAssumption ==
    /\ IsFiniteSet(Ids) /\ IsFiniteSet(Handlers) /\ Nobody \notin Handlers
    /\ Capacity \in Nat \ {0} /\ MaxAdmits \in Nat

VARIABLES
    map,        \* AtomicDedupCache.map
    order,      \* AtomicDedupCache.order
    lock,       \* who holds the order mutex
    gen,        \* AtomicDedupCache.gen
    task,       \* the handlers
    open,       \* is the receiver of inbound_tx alive
    forwarded,  \* messages handed to inbound_tx
    history,    \* ids stored in the messages table
    seen,       \* ids handed to the read receipt scheduler
    evicted     \* ids whose entry was evicted at some time

cache == <<map, order, lock, gen>>
sinks == <<open, forwarded, history, seen>>
vars == <<cache, task, sinks, evicted>>

NoEntry == [state |-> "none", gen |-> 0]
Element == [id: Ids, gen: Nat \ {0}]
NoElement == [id |-> Nobody, gen |-> 0]

Pcs == {"idle", "admit", "push", "evict", "check", "remove", "compact",
        "work", "forward", "mark", "report"}
IdleTask == [pc |-> "idle", id |-> Nobody, gen |-> 0, victim |-> NoElement]

Live == {id \in Ids : map[id] # NoEntry}

Goto(x, pc) == task' = [task EXCEPT ![x].pc = pc]
Finish(x) == task' = [task EXCEPT ![x] = IdleTask]

----------------------------------------------------------------------------
(* try_admit *)

\* A message arrives and is not from an ignored jid: gen.fetch_add(1).
Deliver(x, id) ==
    /\ task[x].pc = "idle"
    /\ gen < MaxAdmits
    /\ gen' = gen + 1
    /\ task' = [task EXCEPT ![x] = [pc |-> "admit", id |-> id, gen |-> gen + 1,
                                     victim |-> NoElement]]
    /\ UNCHANGED <<map, order, lock, sinks, evicted>>

\* Mutant: an entry that is Done does not keep a redelivery out.
EntryFinishedVacant(x) ==
    LET id == task[x].id
    IN  /\ task[x].pc = "admit"
        /\ IF map[id].state = "inflight"
           THEN Finish(x) /\ UNCHANGED map
           ELSE /\ map' = [map EXCEPT ![id] = [state |-> "inflight", gen |-> task[x].gen]]
                /\ Goto(x, "push")
        /\ UNCHANGED <<order, lock, gen, sinks, evicted>>

\* Mutant: only an entry that is Done keeps a redelivery out.
EntryInFlightVacant(x) ==
    LET id == task[x].id
    IN  /\ task[x].pc = "admit"
        /\ IF map[id].state = "done"
           THEN Finish(x) /\ UNCHANGED map
           ELSE /\ map' = [map EXCEPT ![id] = [state |-> "inflight", gen |-> task[x].gen]]
                /\ Goto(x, "push")
        /\ UNCHANGED <<order, lock, gen, sinks, evicted>>

\* map.entry(id): the loser returns, the winner inserts and lets go of the shard.
Entry(x) ==
    LET id == task[x].id
    IN  /\ task[x].pc = "admit"
        /\ \/ map[id] # NoEntry /\ Finish(x) /\ UNCHANGED map
           \/ /\ map[id] = NoEntry
              /\ map' = [map EXCEPT ![id] = [state |-> "inflight", gen |-> task[x].gen]]
              /\ Goto(x, "push")
        /\ UNCHANGED <<order, lock, gen, sinks, evicted>>

PushBack(x) ==
    /\ task[x].pc = "push" /\ lock = Nobody
    /\ lock' = x
    /\ order' = Append(order, [id |-> task[x].id, gen |-> task[x].gen])
    /\ Goto(x, "evict")
    /\ UNCHANGED <<map, gen, sinks, evicted>>

\* The head of the while loop, and pop_front.
Evict(x) ==
    /\ task[x].pc = "evict"
    /\ \/ /\ Cardinality(Live) > Capacity /\ order # <<>>
          /\ order' = Tail(order)
          /\ task' = [task EXCEPT ![x] = [pc |-> "check", id |-> @.id, gen |-> @.gen,
                                          victim |-> Head(order)]]
       \/ /\ Cardinality(Live) <= Capacity \/ order = <<>>
          /\ Goto(x, "compact") /\ UNCHANGED order
    /\ UNCHANGED <<map, lock, gen, sinks, evicted>>

\* map.get(old_id), compare the generations, drop(entry)
CheckVictim(x) ==
    LET v == task[x].victim
    IN  /\ task[x].pc = "check"
        /\ Goto(x, IF map[v.id].gen = v.gen THEN "remove" ELSE "evict")
        /\ UNCHANGED <<cache, sinks, evicted>>

\* map.remove(old_id), whatever the entry is by now
RemoveVictim(x) ==
    LET v == task[x].victim
    IN  /\ task[x].pc = "remove"
        /\ map' = [map EXCEPT ![v.id] = NoEntry]
        /\ evicted' = IF map[v.id] = NoEntry THEN evicted ELSE evicted \cup {v.id}
        /\ Goto(x, "evict")
        /\ UNCHANGED <<order, lock, gen, sinks>>

\* order.retain keeps the positions whose element is that of its id's entry.
Kept == {i \in DOMAIN order : map[order[i].id].gen = order[i].gen}

\* The k-th of a set of positions.
Rank(K, i) == Cardinality({j \in K : j <= i})
Nth(K, k) == CHOOSE i \in K : Rank(K, i) = k

\* order.retain; then the guard goes out of scope and try_admit returns true.
Compact(x) ==
    /\ task[x].pc = "compact"
    /\ order' = IF Len(order) > 3 * Capacity
                THEN [k \in 1 .. Cardinality(Kept) |-> order[Nth(Kept, k)]]
                ELSE order
    /\ lock' = Nobody
    /\ Goto(x, "work")
    /\ UNCHANGED <<map, gen, sinks, evicted>>

TryAdmit(x) ==
    \/ Entry(x) \/ PushBack(x) \/ Evict(x) \/ CheckVictim(x) \/ RemoveVictim(x) \/ Compact(x)

----------------------------------------------------------------------------
(* mark_done, remove, and the rest of the Message arm *)

MarkDone(id) == map' = IF map[id] = NoEntry THEN map ELSE [map EXCEPT ![id].state = "done"]

RemoveId(id) == map' = [map EXCEPT ![id] = NoEntry]

\* The sender is not on the allowlist, or the content is of no known kind.
Ignore(x) ==
    /\ task[x].pc = "work"
    /\ MarkDone(task[x].id)
    /\ Finish(x)
    /\ UNCHANGED <<order, lock, gen, sinks, evicted>>

\* Mutant: the entry is left behind.
TransientKept(x) ==
    /\ task[x].pc = "work"
    /\ Finish(x)
    /\ UNCHANGED <<cache, sinks, evicted>>

\* ExtractResult::TransientFailure
Transient(x) ==
    /\ task[x].pc = "work"
    /\ RemoveId(task[x].id)
    /\ Finish(x)
    /\ UNCHANGED <<order, lock, gen, sinks, evicted>>

\* ExtractResult::Content: insert_inbound ignores an id it has, and its errors
\* are only logged.
Persist(x) ==
    /\ task[x].pc = "work"
    /\ history' \in {history, history \cup {task[x].id}}
    /\ Goto(x, "forward")
    /\ UNCHANGED <<cache, open, forwarded, seen, evicted>>

\* inbound_tx.send
Forward(x) ==
    LET id == task[x].id
    IN  /\ task[x].pc = "forward"
        /\ \/ /\ open
              /\ forwarded' = [forwarded EXCEPT ![id] = @ + 1]
              /\ Goto(x, "mark") /\ UNCHANGED map
           \/ /\ ~open
              /\ RemoveId(id) /\ Finish(x) /\ UNCHANGED forwarded
        /\ UNCHANGED <<order, lock, gen, open, history, seen, evicted>>

Mark(x) ==
    /\ task[x].pc = "mark"
    /\ MarkDone(task[x].id)
    /\ Goto(x, "report")
    /\ UNCHANGED <<order, lock, gen, sinks, evicted>>

\* auto_mark_read, unless the message is the user's own
Report(x) ==
    /\ task[x].pc = "report"
    /\ seen' \in {seen, seen \cup {task[x].id}}
    /\ Finish(x)
    /\ UNCHANGED <<cache, open, forwarded, history, evicted>>

\* The consumer of inbound messages goes away.
CloseInbound ==
    /\ open
    /\ open' = FALSE
    /\ UNCHANGED <<cache, task, forwarded, history, seen, evicted>>

Handle(x) ==
    \/ Ignore(x) \/ Transient(x) \/ Persist(x) \/ Forward(x) \/ Mark(x) \/ Report(x)

Init ==
    /\ map = [id \in Ids |-> NoEntry]
    /\ order = <<>> /\ lock = Nobody /\ gen = 0
    /\ task = [x \in Handlers |-> IdleTask]
    /\ open = TRUE
    /\ forwarded = [id \in Ids |-> 0]
    /\ history = {} /\ seen = {} /\ evicted = {}

Next ==
    \/ \E x \in Handlers : TryAdmit(x) \/ Handle(x) \/ \E id \in Ids : Deliver(x, id)
    \/ CloseInbound

Spec == Init /\ [][Next]_vars

----------------------------------------------------------------------------
(* Properties *)

\* The cache, its order queue and the handlers have their types; generations come
\* from the counter.
TypeOK ==
    /\ map \in [Ids -> [state: {"none", "inflight", "done"}, gen: 0 .. MaxAdmits]]
    /\ order \in Seq(Element)
    /\ lock \in Handlers \cup {Nobody}
    /\ gen \in 0 .. MaxAdmits
    /\ task \in [Handlers -> [pc: Pcs, id: Ids \cup {Nobody}, gen: 0 .. MaxAdmits,
                              victim: Element \cup {NoElement}]]
    /\ open \in BOOLEAN
    /\ forwarded \in [Ids -> Nat]
    /\ history \subseteq Ids /\ seen \subseteq Ids /\ evicted \subseteq Ids

\* Inside try_admit after the insert, or inside the handler it admitted.
Admitted(x) == task[x].pc \notin {"idle", "admit"}
Working(x) == Admitted(x) /\ task[x].pc # "report"

\* Every entry can be evicted: its element is in the order queue, was popped by
\* the eviction that is about to remove it, or is about to be pushed.  An entry
\* without one would occupy the cache for ever.
LiveEntryOrdered ==
    \A id \in Live :
        LET e == [id |-> id, gen |-> map[id].gen]
        IN  \/ \E i \in DOMAIN order : order[i] = e
            \/ \E x \in Handlers : task[x].pc \in {"check", "remove"} /\ task[x].victim = e
            \/ \E x \in Handlers : task[x].pc = "push" /\ task[x].id = id
                                     /\ task[x].gen = map[id].gen

\* The cache is over its capacity only while some try_admit is still evicting.
BoundedAtRest ==
    (\A x \in Handlers : task[x].pc \notin {"push", "evict", "check", "remove"})
        => Cardinality(Live) <= Capacity

\* The order queue does not leak: stale elements are cut off in time.
OrderBounded == lock = Nobody => Len(order) <= 3 * Capacity

\* An id that is InFlight has a handler that will finish it: no redelivery is
\* turned away for ever by an entry nobody works on.
InFlightIsHandled ==
    \A id \in Ids : map[id].state = "inflight"
        => \E x \in Handlers : Working(x) /\ task[x].id = id /\ task[x].gen = map[id].gen

\* As long as its entry was not evicted, a message is handed on at most once,
\* however often it is delivered and whoever fails on the way.
ForwardedOnce == \A id \in Ids \ evicted : forwarded[id] <= 1

\* As long as its entry was not evicted, one handler at a time works on an id.
SingleFlight ==
    \A id \in Ids \ evicted : \A x, y \in Handlers :
        Working(x) /\ Working(y) /\ task[x].id = id /\ task[y].id = id => x = y

\* A read receipt is scheduled only for a message that the consumer was given.
SeenWasForwarded == \A id \in seen : forwarded[id] > 0

\* The cache stays sound whatever evictions, failures and redeliveries race in
\* it: every entry can still be evicted, both structures come back under their
\* bounds, an id in flight has its handler, and only what was forwarded is read.
CacheConsistent ==
    /\ TypeOK
    /\ LiveEntryOrdered
    /\ BoundedAtRest
    /\ OrderBounded
    /\ InFlightIsHandled
    /\ SeenWasForwarded
====
