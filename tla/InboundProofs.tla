---------------------------- MODULE InboundProofs ----------------------------
(***************************************************************************)
(* Proofs about the inbound path: InboundDedup, for every number of        *)
(* handlers, ids and deliveries and every capacity, and the read receipts  *)
(* of what it forwarded, for all messages, chats and callers of a flush.   *)
(***************************************************************************)
EXTENDS InboundDedup, ReadReceipts, FiniteSetTheorems, TLAPS

\* The types of what the promises are about.  What the order queue holds, and so
\* which entry is evicted, does not matter to them.
Entries == [Ids -> [state: {"none", "inflight", "done"}, gen: 0 .. MaxAdmits]]

TasksTyped ==
    /\ task = [x \in Handlers |-> [pc |-> task[x].pc, id |-> task[x].id,
                                   gen |-> task[x].gen, victim |-> task[x].victim]]
    /\ \A x \in Handlers : /\ task[x].pc \in Pcs /\ task[x].id \in Ids \cup {Nobody}
                           /\ task[x].gen \in 0 .. MaxAdmits

Typed ==
    /\ map \in Entries
    /\ gen \in 0 .. MaxAdmits
    /\ forwarded \in [Ids -> Nat]
    /\ seen \subseteq Ids
    /\ TasksTyped

\* A handler beyond its idle state has an id and a generation of its own.
HandlerShape(x) ==
    /\ task[x].pc = "idle" => task[x].gen = 0
    /\ task[x].pc # "idle" => task[x].id \in Ids /\ task[x].gen \in 1 .. gen
    /\ task[x].pc \in {"mark", "report"} => forwarded[task[x].id] > 0

\* Generations tell handlers apart.
GensDiffer ==
    \A x, y \in Handlers : task[x].gen = task[y].gen /\ task[x].gen # 0 => x = y

\* Unless it was evicted, the entry of an id is that of the handler at work on
\* it, and nothing was handed on before that handler comes to it.
EntryOwned(id) ==
    id \notin evicted =>
        /\ forwarded[id] <= 1
        /\ map[id] = NoEntry => forwarded[id] = 0
        /\ \A x \in Handlers : Working(x) /\ task[x].id = id =>
               /\ map[id] = [state |-> "inflight", gen |-> task[x].gen]
               /\ task[x].pc # "mark" => forwarded[id] = 0

Core ==
    /\ \A x \in Handlers : HandlerShape(x)
    /\ GensDiffer
    /\ \A id \in Ids : EntryOwned(id)
    /\ InFlightIsHandled
    /\ SeenWasForwarded

DInv == Typed /\ Core

----------------------------------------------------------------------------
(* Moves of one handler *)

\* Every handler but x stays where it is.
Alone(x) == \A y \in Handlers \ {x} : task'[y] = task[y]

LEMMA GotoFacts ==
  ASSUME TasksTyped, NEW x \in Handlers, NEW pc \in Pcs, Goto(x, pc)
  PROVE  /\ TasksTyped' /\ Alone(x)
         /\ task'[x].pc = pc /\ task'[x].id = task[x].id /\ task'[x].gen = task[x].gen
  <1>1. task' = [y \in Handlers |-> IF y = x THEN [task[x] EXCEPT !.pc = pc] ELSE task[y]]
    BY DEF TasksTyped, Goto
  <1>2. task'[x] = [pc |-> pc, id |-> task[x].id, gen |-> task[x].gen,
                    victim |-> task[x].victim]
    BY <1>1 DEF TasksTyped
  <1>3. Alone(x) BY <1>1 DEF Alone
  <1>4. ASSUME NEW y \in Handlers
        PROVE  /\ task'[y] = [pc |-> task'[y].pc, id |-> task'[y].id,
                              gen |-> task'[y].gen, victim |-> task'[y].victim]
               /\ task'[y].pc \in Pcs /\ task'[y].id \in Ids \cup {Nobody}
               /\ task'[y].gen \in 0 .. MaxAdmits
    BY <1>2, <1>3 DEF TasksTyped, Alone
  <1>5. task' = [y \in Handlers |-> task'[y]] BY <1>1
  <1> QED BY <1>2, <1>3, <1>4, <1>5 DEF TasksTyped

LEMMA PutFacts ==
  ASSUME TasksTyped, NEW x \in Handlers, NEW pc \in Pcs, NEW id \in Ids \cup {Nobody},
         NEW g \in 0 .. MaxAdmits, NEW v,
         task' = [task EXCEPT ![x] = [pc |-> pc, id |-> id, gen |-> g, victim |-> v]]
  PROVE  /\ TasksTyped' /\ Alone(x)
         /\ task'[x].pc = pc /\ task'[x].id = id /\ task'[x].gen = g
  <1>1. task' = [y \in Handlers |-> IF y = x THEN [pc |-> pc, id |-> id, gen |-> g, victim |-> v]
                                             ELSE task[y]]
    BY DEF TasksTyped
  <1>2. task'[x] = [pc |-> pc, id |-> id, gen |-> g, victim |-> v] BY <1>1
  <1>3. Alone(x) BY <1>1 DEF Alone
  <1>4. ASSUME NEW y \in Handlers
        PROVE  /\ task'[y] = [pc |-> task'[y].pc, id |-> task'[y].id,
                              gen |-> task'[y].gen, victim |-> task'[y].victim]
               /\ task'[y].pc \in Pcs /\ task'[y].id \in Ids \cup {Nobody}
               /\ task'[y].gen \in 0 .. MaxAdmits
    BY <1>2, <1>3 DEF TasksTyped, Alone
  <1>5. task' = [y \in Handlers |-> task'[y]] BY <1>1
  <1> QED BY <1>2, <1>3, <1>4, <1>5 DEF TasksTyped

LEMMA FinishFacts ==
  ASSUME TasksTyped, NEW x \in Handlers, Finish(x), 0 \in 0 .. MaxAdmits
  PROVE  TasksTyped' /\ Alone(x) /\ task'[x].pc = "idle" /\ task'[x].gen = 0
  BY PutFacts DEF Finish, IdleTask, Pcs

\* The parts of the types the proofs below use.
LEMMA Types ==
  ASSUME Typed
  PROVE  /\ map \in Entries /\ TasksTyped
         /\ gen \in 0 .. MaxAdmits /\ MaxAdmits \in Nat /\ 0 \in 0 .. MaxAdmits
         /\ forwarded \in [Ids -> Nat] /\ seen \subseteq Ids
  BY DedupAssumption DEF Typed

\* A handler at work on an id that was not evicted is the only one.
LEMMA OneWorker ==
  ASSUME DInv, NEW x \in Handlers, NEW y \in Handlers, Working(x), Working(y),
         task[x].id = task[y].id, task[x].id \notin evicted
  PROVE  x = y
  <1>1. task[x].id \in Ids /\ task[x].gen \in 1 .. gen
    BY DEF DInv, Core, HandlerShape, Working, Admitted
  <1>m. /\ map[task[x].id] = [state |-> "inflight", gen |-> task[x].gen]
        /\ map[task[x].id] = [state |-> "inflight", gen |-> task[y].gen]
    BY <1>1 DEF DInv, Core, EntryOwned
  <1>2. task[x].gen = task[y].gen BY <1>m
  <1>t. gen \in Nat BY Types DEF DInv
  <1>3. task[x].gen # 0 BY <1>1, <1>t
  <1> QED BY <1>2, <1>3 DEF DInv, Core, GensDiffer

\* A step inside try_admit, or to the send, that leaves the entries alone.
LEMMA QuietMove ==
  ASSUME DInv, NEW x \in Handlers, Alone(x),
         task'[x].id = task[x].id, task'[x].gen = task[x].gen,
         Working(x), task[x].pc # "mark",
         task'[x].pc \in {"evict", "check", "remove", "compact", "work", "forward"},
         UNCHANGED <<map, gen, forwarded, seen, evicted>>
  PROVE  Core'
  <1>w. Working(x)' BY DEF Working, Admitted
  <1>a. \A y \in Handlers : /\ task'[y].id = task[y].id /\ task'[y].gen = task[y].gen
                            /\ Working(y)' = Working(y)
                            /\ task'[y].pc = "mark" <=> task[y].pc = "mark"
    BY <1>w DEF Alone, Working, Admitted
  <1>1. ASSUME NEW y \in Handlers PROVE HandlerShape(y)'
    <2>1. CASE y = x BY <2>1 DEF DInv, Core, HandlerShape, Working, Admitted
    <2>2. CASE y # x BY <2>2 DEF DInv, Core, HandlerShape, Alone
    <2> QED BY <2>1, <2>2
  <1>2. GensDiffer' BY <1>a DEF DInv, Core, GensDiffer
  <1>3. ASSUME NEW id \in Ids PROVE EntryOwned(id)'
    BY <1>a DEF DInv, Core, EntryOwned
  <1>4. InFlightIsHandled' BY <1>a DEF DInv, Core, InFlightIsHandled
  <1>5. SeenWasForwarded' BY DEF DInv, Core, SeenWasForwarded
  <1> QED BY <1>1, <1>2, <1>3, <1>4, <1>5 DEF Core

\* A handler that did not hand its message on is done with it: the entry goes,
\* or is marked as done.
LEMMA SettleMove ==
  ASSUME DInv, NEW x \in Handlers, task[x].pc \in {"work", "forward"},
         Alone(x), task'[x].pc = "idle", task'[x].gen = 0,
         MarkDone(task[x].id) \/ RemoveId(task[x].id),
         UNCHANGED <<gen, forwarded, seen, evicted>>
  PROVE  Core'
  <1> DEFINE me == task[x].id
  <1>t. me \in Ids /\ map \in [Ids -> [state: {"none", "inflight", "done"}, gen: 0 .. MaxAdmits]]
    BY Types DEF DInv, Core, HandlerShape, Entries
  <1>m. /\ \A id \in Ids \ {me} : map'[id] = map[id]
        /\ map'[me].state # "inflight"
        /\ map[me] = NoEntry => map'[me] = NoEntry
    BY <1>t DEF MarkDone, RemoveId, NoEntry
  <1>w. Working(x) /\ task[x].pc # "mark" /\ ~Working(x)' BY DEF Working, Admitted
  <1>a. \A y \in Handlers \ {x} : task'[y] = task[y] /\ Working(y)' = Working(y)
    BY DEF Alone, Working, Admitted
  <1>1. ASSUME NEW y \in Handlers PROVE HandlerShape(y)'
    <2>1. CASE y = x BY <2>1 DEF HandlerShape
    <2>2. CASE y # x BY <2>2, <1>a DEF DInv, Core, HandlerShape
    <2> QED BY <2>1, <2>2
  <1>2. GensDiffer' BY <1>a DEF DInv, Core, GensDiffer
  <1>3. ASSUME NEW id \in Ids, id \notin evicted
        PROVE  /\ forwarded[id] <= 1
               /\ map'[id] = NoEntry => forwarded[id] = 0
               /\ \A y \in Handlers : Working(y)' /\ task'[y].id = id =>
                      /\ map'[id] = [state |-> "inflight", gen |-> task'[y].gen]
                      /\ task'[y].pc # "mark" => forwarded[id] = 0
    <2>1. EntryOwned(id) BY DEF DInv, Core
    <2>2. CASE id = me
      <3>1. forwarded[id] = 0 BY <1>3, <2>1, <2>2, <1>w DEF EntryOwned
      <3>2. \A y \in Handlers : Working(y)' => task'[y].id # id
        BY <1>3, <2>2, <1>w, <1>a, OneWorker
      <3> QED BY <3>1, <3>2
    <2>3. CASE id # me BY <1>3, <2>1, <2>3, <1>m, <1>w, <1>a DEF EntryOwned
    <2> QED BY <2>2, <2>3
  <1>4. InFlightIsHandled'
    BY <1>t, <1>m, <1>w, <1>a DEF DInv, Core, InFlightIsHandled
  <1>5. SeenWasForwarded' BY DEF DInv, Core, SeenWasForwarded
  <1>6. \A id \in Ids : EntryOwned(id)' BY <1>3 DEF EntryOwned
  <1> QED BY <1>1, <1>2, <1>4, <1>5, <1>6 DEF Core

\* The entry is vacant: its inserter becomes the one at work on it.
LEMMA WinMove ==
  ASSUME DInv, NEW x \in Handlers, task[x].pc = "admit", Alone(x),
         task'[x].pc = "push", task'[x].id = task[x].id, task'[x].gen = task[x].gen,
         map[task[x].id] = NoEntry,
         map' = [map EXCEPT ![task[x].id] = [state |-> "inflight", gen |-> task[x].gen]],
         UNCHANGED <<gen, forwarded, seen, evicted>>
  PROVE  Core'
  <1> DEFINE me == task[x].id
             e == [state |-> "inflight", gen |-> task[x].gen]
  <1>t. me \in Ids /\ map \in [Ids -> [state: {"none", "inflight", "done"}, gen: 0 .. MaxAdmits]]
    BY Types DEF DInv, Core, HandlerShape, Entries
  <1>m. map'[me] = e /\ map'[me] # NoEntry /\ \A id \in Ids \ {me} : map'[id] = map[id]
    BY <1>t DEF NoEntry
  <1>w. ~Working(x) /\ Working(x)' BY DEF Working, Admitted
  <1>a. \A y \in Handlers \ {x} : task'[y] = task[y] /\ Working(y)' = Working(y)
    BY DEF Alone, Working, Admitted
  <1>g. \A y \in Handlers : task'[y].gen = task[y].gen BY <1>a
  <1>1. ASSUME NEW y \in Handlers PROVE HandlerShape(y)'
    <2>1. CASE y = x BY <2>1 DEF DInv, Core, HandlerShape
    <2>2. CASE y # x BY <2>2, <1>a DEF DInv, Core, HandlerShape
    <2> QED BY <2>1, <2>2
  <1>2. GensDiffer' BY <1>g DEF DInv, Core, GensDiffer
  <1>3. ASSUME NEW id \in Ids, id \notin evicted
        PROVE  /\ forwarded[id] <= 1
               /\ map'[id] = NoEntry => forwarded[id] = 0
               /\ \A y \in Handlers : Working(y)' /\ task'[y].id = id =>
                      /\ map'[id] = [state |-> "inflight", gen |-> task'[y].gen]
                      /\ task'[y].pc # "mark" => forwarded[id] = 0
    <2>1. EntryOwned(id) BY DEF DInv, Core
    <2>2. CASE id = me
      <3>1. forwarded[id] = 0 BY <1>3, <2>1, <2>2 DEF EntryOwned
      <3>2. ASSUME NEW y \in Handlers, Working(y)', task'[y].id = id PROVE y = x
        <4> SUFFICES ASSUME y # x PROVE FALSE OBVIOUS
        <4>1. Working(y) /\ task[y].id = id BY <3>2, <1>a
        <4>2. map[id] = [state |-> "inflight", gen |-> task[y].gen]
          BY <4>1, <1>3, <2>1 DEF EntryOwned
        <4> QED BY <4>2, <2>2 DEF NoEntry
      <3>3. map'[id] = [state |-> "inflight", gen |-> task'[x].gen] BY <1>m, <2>2
      <3> QED BY <3>1, <3>2, <3>3
    <2>3. CASE id # me
      <3>1. task'[x].id # id BY <2>3
      <3> QED BY <1>3, <2>1, <2>3, <3>1, <1>m, <1>a DEF EntryOwned
    <2> QED BY <2>2, <2>3
  <1>4. InFlightIsHandled'
    <2> SUFFICES ASSUME NEW id \in Ids, map'[id].state = "inflight"
                 PROVE  \E y \in Handlers : /\ Working(y)' /\ task'[y].id = id
                                            /\ task'[y].gen = map'[id].gen
      BY DEF InFlightIsHandled
    <2>1. CASE id = me BY <2>1, <1>m, <1>w
    <2>2. CASE id # me BY <2>2, <1>m, <1>w, <1>a DEF DInv, Core, InFlightIsHandled
    <2> QED BY <2>1, <2>2
  <1>5. SeenWasForwarded' BY DEF DInv, Core, SeenWasForwarded
  <1>6. \A id \in Ids : EntryOwned(id)' BY <1>3 DEF EntryOwned
  <1> QED BY <1>1, <1>2, <1>4, <1>5, <1>6 DEF Core

\* An eviction takes the id out of what is promised.
LEMMA EvictMove ==
  ASSUME DInv, NEW x \in Handlers, task[x].pc = "remove", RemoveVictim(x)
  PROVE  Core'
  <1> DEFINE v == task[x].victim.id
  <1>f. /\ Alone(x) /\ task'[x].pc = "evict" /\ task'[x].id = task[x].id
        /\ task'[x].gen = task[x].gen
    BY GotoFacts, Types DEF DInv, RemoveVictim, Pcs
  <1>m. \A id \in Ids : map'[id] = IF id = v THEN NoEntry ELSE map[id]
    BY Types DEF DInv, RemoveVictim, Entries
  <1>e. \A id \in Ids : /\ id \in evicted => id \in evicted'
                        /\ map'[id] # map[id] => id \in evicted'
    BY <1>m DEF RemoveVictim
  <1>u. UNCHANGED <<gen, forwarded, seen>> BY DEF RemoveVictim, sinks
  <1>a. \A y \in Handlers : /\ task'[y].id = task[y].id /\ task'[y].gen = task[y].gen
                            /\ Working(y)' = Working(y)
                            /\ task'[y].pc = "mark" <=> task[y].pc = "mark"
    BY <1>f DEF Alone, Working, Admitted
  <1>1. ASSUME NEW y \in Handlers PROVE HandlerShape(y)'
    <2>1. CASE y = x BY <2>1, <1>f, <1>u DEF DInv, Core, HandlerShape
    <2>2. CASE y # x BY <2>2, <1>f, <1>u DEF DInv, Core, HandlerShape, Alone
    <2> QED BY <2>1, <2>2
  <1>2. GensDiffer' BY <1>a DEF DInv, Core, GensDiffer
  <1>3. ASSUME NEW id \in Ids PROVE EntryOwned(id)'
    <2>1. EntryOwned(id) BY DEF DInv, Core
    <2>2. CASE id \in evicted' BY <2>2 DEF EntryOwned
    <2>3. CASE id \notin evicted'
      <3>1. map'[id] = map[id] /\ id \notin evicted BY <2>3, <1>e
      <3> QED BY <3>1, <2>1, <1>a, <1>u DEF EntryOwned
    <2> QED BY <2>2, <2>3
  <1>4. InFlightIsHandled'
    <2> SUFFICES ASSUME NEW id \in Ids, map'[id].state = "inflight"
                 PROVE  \E y \in Handlers : /\ Working(y)' /\ task'[y].id = id
                                            /\ task'[y].gen = map'[id].gen
      BY DEF InFlightIsHandled
    <2>1. map'[id] = map[id] BY <1>m DEF NoEntry
    <2>2. PICK y \in Handlers : Working(y) /\ task[y].id = id /\ task[y].gen = map[id].gen
      BY <2>1 DEF DInv, Core, InFlightIsHandled
    <2> QED BY <2>1, <2>2, <1>a
  <1>5. SeenWasForwarded' BY <1>u DEF DInv, Core, SeenWasForwarded
  <1> QED BY <1>1, <1>2, <1>3, <1>4, <1>5 DEF Core

\* The message is handed on: by the one handler at work on it.
LEMMA ForwardMove ==
  ASSUME DInv, NEW x \in Handlers, task[x].pc = "forward", Alone(x),
         task'[x].pc = "mark", task'[x].id = task[x].id, task'[x].gen = task[x].gen,
         forwarded' = [forwarded EXCEPT ![task[x].id] = @ + 1],
         UNCHANGED <<map, gen, seen, evicted>>
  PROVE  Core'
  <1> DEFINE me == task[x].id
  <1>t. me \in Ids /\ forwarded \in [Ids -> Nat] BY Types DEF DInv, Core, HandlerShape
  <1>m. forwarded'[me] = forwarded[me] + 1 /\ \A id \in Ids \ {me} : forwarded'[id] = forwarded[id]
    BY <1>t
  <1>p. \A id \in Ids : forwarded[id] > 0 => forwarded'[id] > 0 BY <1>t, <1>m
  <1>w. Working(x) /\ Working(x)' BY DEF Working, Admitted
  <1>a. \A y \in Handlers \ {x} : task'[y] = task[y] /\ Working(y)' = Working(y)
    BY DEF Alone, Working, Admitted
  <1>g. \A y \in Handlers : /\ task'[y].id = task[y].id /\ task'[y].gen = task[y].gen
                            /\ Working(y)' = Working(y)
    BY <1>a DEF Working, Admitted
  <1>1. ASSUME NEW y \in Handlers PROVE HandlerShape(y)'
    <2>1. CASE y = x BY <2>1, <1>t, <1>m DEF DInv, Core, HandlerShape
    <2>2. CASE y # x BY <2>2, <1>a, <1>p DEF DInv, Core, HandlerShape
    <2> QED BY <2>1, <2>2
  <1>2. GensDiffer' BY <1>g DEF DInv, Core, GensDiffer
  <1>3. ASSUME NEW id \in Ids, id \notin evicted
        PROVE  /\ forwarded'[id] <= 1
               /\ map[id] = NoEntry => forwarded'[id] = 0
               /\ \A y \in Handlers : Working(y)' /\ task'[y].id = id =>
                      /\ map[id] = [state |-> "inflight", gen |-> task'[y].gen]
                      /\ task'[y].pc # "mark" => forwarded'[id] = 0
    <2>1. EntryOwned(id) BY DEF DInv, Core
    <2>2. CASE id = me
      <3>1. forwarded[id] = 0 /\ map[id] = [state |-> "inflight", gen |-> task[x].gen]
        BY <1>3, <2>1, <2>2, <1>w DEF EntryOwned
      <3>2. map[id] # NoEntry BY <3>1 DEF NoEntry
      <3>3. \A y \in Handlers : Working(y)' /\ task'[y].id = id => y = x
        BY <1>3, <2>2, <1>w, <1>g, OneWorker
      <3> QED BY <3>1, <3>2, <3>3, <1>m, <2>2
    <2>3. CASE id # me
      <3>1. task'[x].id # id BY <2>3
      <3> QED BY <1>3, <2>1, <2>3, <3>1, <1>m, <1>a DEF EntryOwned
    <2> QED BY <2>2, <2>3
  <1>4. InFlightIsHandled' BY <1>g DEF DInv, Core, InFlightIsHandled
  <1>5. SeenWasForwarded' BY <1>p, Types DEF DInv, Core, SeenWasForwarded
  <1>6. \A id \in Ids : EntryOwned(id)' BY <1>3 DEF EntryOwned
  <1> QED BY <1>1, <1>2, <1>4, <1>5, <1>6 DEF Core

\* The message is marked as done.
LEMMA MarkMove ==
  ASSUME DInv, NEW x \in Handlers, task[x].pc = "mark", Alone(x),
         task'[x].pc = "report", task'[x].id = task[x].id, task'[x].gen = task[x].gen,
         MarkDone(task[x].id),
         UNCHANGED <<gen, forwarded, seen, evicted>>
  PROVE  Core'
  <1> DEFINE me == task[x].id
  <1>t. me \in Ids /\ map \in [Ids -> [state: {"none", "inflight", "done"}, gen: 0 .. MaxAdmits]]
    BY Types DEF DInv, Core, HandlerShape, Entries
  <1>m. /\ \A id \in Ids \ {me} : map'[id] = map[id]
        /\ map'[me].state # "inflight"
        /\ map'[me] = NoEntry => map[me] = NoEntry
    BY <1>t DEF MarkDone, NoEntry
  <1>w. Working(x) /\ ~Working(x)' BY DEF Working, Admitted
  <1>a. \A y \in Handlers \ {x} : task'[y] = task[y] /\ Working(y)' = Working(y)
    BY DEF Alone, Working, Admitted
  <1>g. \A y \in Handlers : task'[y].id = task[y].id /\ task'[y].gen = task[y].gen
    BY <1>a
  <1>1. ASSUME NEW y \in Handlers PROVE HandlerShape(y)'
    <2>1. CASE y = x BY <2>1 DEF DInv, Core, HandlerShape
    <2>2. CASE y # x BY <2>2, <1>a DEF DInv, Core, HandlerShape
    <2> QED BY <2>1, <2>2
  <1>2. GensDiffer' BY <1>g DEF DInv, Core, GensDiffer
  <1>3. ASSUME NEW id \in Ids, id \notin evicted
        PROVE  /\ forwarded[id] <= 1
               /\ map'[id] = NoEntry => forwarded[id] = 0
               /\ \A y \in Handlers : Working(y)' /\ task'[y].id = id =>
                      /\ map'[id] = [state |-> "inflight", gen |-> task'[y].gen]
                      /\ task'[y].pc # "mark" => forwarded[id] = 0
    <2>1. EntryOwned(id) BY DEF DInv, Core
    <2>2. CASE id = me
      <3>1. \A y \in Handlers : Working(y)' => task'[y].id # id
        BY <1>3, <2>2, <1>w, <1>a, OneWorker
      <3> QED BY <1>3, <2>1, <2>2, <3>1, <1>m DEF EntryOwned
    <2>3. CASE id # me BY <1>3, <2>1, <2>3, <1>m, <1>w, <1>a DEF EntryOwned
    <2> QED BY <2>2, <2>3
  <1>4. InFlightIsHandled'
    BY <1>t, <1>m, <1>w, <1>a DEF DInv, Core, InFlightIsHandled
  <1>5. SeenWasForwarded' BY DEF DInv, Core, SeenWasForwarded
  <1>6. \A id \in Ids : EntryOwned(id)' BY <1>3 DEF EntryOwned
  <1> QED BY <1>1, <1>2, <1>4, <1>5, <1>6 DEF Core

\* A handler without a part in the entries comes or goes: a delivery, the loser
\* of an entry, the end of a report.
LEMMA IdleMove ==
  ASSUME DInv, NEW x \in Handlers, ~Working(x), Alone(x),
         \/ task'[x].pc = "idle" /\ task'[x].gen = 0 /\ gen' = gen
         \/ /\ task'[x].pc = "admit" /\ task'[x].id \in Ids
            /\ gen' = gen + 1 /\ task'[x].gen = gen',
         \/ seen' = seen
         \/ seen' = seen \cup {task[x].id} /\ task[x].pc = "report",
         UNCHANGED <<map, forwarded, evicted>>
  PROVE  Core'
  <1>t. gen \in Nat /\ gen' \in Nat /\ gen <= gen' BY Types DEF DInv
  <1>w. ~Working(x)' BY DEF Working, Admitted
  <1>a. \A y \in Handlers \ {x} : task'[y] = task[y] /\ Working(y)' = Working(y)
    BY DEF Alone, Working, Admitted
  <1>1. ASSUME NEW y \in Handlers PROVE HandlerShape(y)'
    <2>1. CASE y = x BY <2>1, <1>t DEF HandlerShape
    <2>2. CASE y # x
      <3>1. HandlerShape(y) BY DEF DInv, Core
      <3>2. task[y].gen \in 1 .. gen => task[y].gen \in 1 .. gen' BY <1>t
      <3> QED BY <2>2, <1>a, <3>1, <3>2 DEF HandlerShape
    <2> QED BY <2>1, <2>2
  <1>2. GensDiffer'
    <2>1. \A y \in Handlers \ {x} : task'[y].gen = task[y].gen /\ task[y].gen \in 0 .. gen
      BY <1>a, <1>t DEF DInv, Core, HandlerShape
    <2>2. ASSUME NEW y \in Handlers, NEW z \in Handlers,
                 task'[y].gen = task'[z].gen, task'[y].gen # 0
          PROVE  y = z
      <3>1. CASE y # x /\ z # x BY <2>1, <2>2, <3>1 DEF DInv, Core, GensDiffer
      <3>2. CASE y = x /\ z # x BY <1>t, <2>1, <2>2, <3>2
      <3>3. CASE y # x /\ z = x BY <1>t, <2>1, <2>2, <3>3
      <3> QED BY <3>1, <3>2, <3>3
    <2> QED BY <2>2 DEF GensDiffer
  <1>3. ASSUME NEW id \in Ids PROVE EntryOwned(id)'
    BY <1>w, <1>a DEF DInv, Core, EntryOwned
  <1>4. InFlightIsHandled' BY <1>w, <1>a DEF DInv, Core, InFlightIsHandled
  <1>5. SeenWasForwarded' BY DEF DInv, Core, HandlerShape, SeenWasForwarded
  <1> QED BY <1>1, <1>2, <1>3, <1>4, <1>5 DEF Core

----------------------------------------------------------------------------
(* The steps *)

\* try_admit
LEMMA AdmitPreserves == ASSUME DInv, NEW x \in Handlers, TryAdmit(x) PROVE DInv'
  <1>T. Typed /\ Core BY DEF DInv
  <1>t. TasksTyped /\ 0 \in 0 .. MaxAdmits BY <1>T, Types
  <1>1. CASE Entry(x)
    <2>1. CASE Finish(x) /\ UNCHANGED map
      <3>1. TasksTyped' /\ Alone(x) /\ task'[x].pc = "idle" /\ task'[x].gen = 0
        BY <1>t, <2>1, FinishFacts
      <3>2. ~Working(x) BY <1>1 DEF Entry, Working, Admitted
      <3>3. Typed' BY <1>1, <2>1, <3>1, <1>T DEF Entry, sinks, Typed
      <3>u. UNCHANGED <<map, gen, forwarded, seen, evicted>> BY <1>1, <2>1 DEF Entry, sinks
      <3>4. Core' BY <3>1, <3>2, <3>u, IdleMove
      <3> QED BY <3>3, <3>4 DEF DInv
    <2>2. CASE /\ map[task[x].id] = NoEntry
               /\ map' = [map EXCEPT ![task[x].id] = [state |-> "inflight", gen |-> task[x].gen]]
               /\ Goto(x, "push")
      <3>1. /\ TasksTyped' /\ Alone(x) /\ task'[x].pc = "push"
            /\ task'[x].id = task[x].id /\ task'[x].gen = task[x].gen
        BY <1>t, <2>2, GotoFacts DEF Pcs
      <3>2. map' \in Entries BY <2>2, <1>T, <1>t DEF Entries, Typed, TasksTyped
      <3>3. Typed' BY <1>1, <3>1, <3>2, <1>T DEF Entry, sinks, Typed
      <3>4. Core' BY <1>1, <2>2, <3>1, WinMove DEF Entry, sinks
      <3> QED BY <3>3, <3>4 DEF DInv
    <2> QED BY <1>1, <2>1, <2>2 DEF Entry
  <1>2. ASSUME NEW pc \in {"evict", "compact", "remove", "work"}, Goto(x, pc),
               task[x].pc \in {"push", "evict", "check", "compact"},
               UNCHANGED <<map, gen, forwarded, seen, evicted>>
        PROVE  DInv'
    <2>1. /\ TasksTyped' /\ Alone(x) /\ task'[x].pc = pc
          /\ task'[x].id = task[x].id /\ task'[x].gen = task[x].gen
      BY <1>t, <1>2, GotoFacts DEF Pcs
    <2>2. Working(x) /\ task[x].pc # "mark" BY <1>2 DEF Working, Admitted
    <2>3. Typed' BY <1>2, <2>1, <1>T DEF Typed
    <2>4. Core' BY <1>2, <2>1, <2>2, QuietMove
    <2> QED BY <2>3, <2>4 DEF DInv
  <1>3. CASE PushBack(x) BY <1>2, <1>3 DEF PushBack, sinks
  <1>4. CASE Evict(x)
    <2>1. CASE task' = [task EXCEPT ![x] = [pc |-> "check", id |-> @.id, gen |-> @.gen,
                                            victim |-> Head(order)]]
      <3>2. /\ TasksTyped' /\ Alone(x) /\ task'[x].pc = "check"
            /\ task'[x].id = task[x].id /\ task'[x].gen = task[x].gen
        BY <2>1, <1>t, PutFacts DEF Pcs, TasksTyped
      <3>3. Typed' BY <1>4, <3>2, <1>T DEF Evict, sinks, Typed
      <3>4. Working(x) /\ task[x].pc # "mark" BY <1>4 DEF Evict, Working, Admitted
      <3>5. Core' BY <1>4, <3>2, <3>4, QuietMove DEF Evict, sinks
      <3> QED BY <3>3, <3>5 DEF DInv
    <2>2. CASE Goto(x, "compact") BY <1>2, <1>4, <2>2 DEF Evict, sinks
    <2> QED BY <1>4, <2>1, <2>2 DEF Evict
  <1>5. CASE CheckVictim(x) BY <1>2, <1>5 DEF CheckVictim, sinks, cache
  <1>6. CASE RemoveVictim(x)
    <2>1. TasksTyped' BY <1>6, <1>t, GotoFacts DEF RemoveVictim, Pcs
    <2>2. map' \in Entries BY <1>6, <1>T, <1>t DEF RemoveVictim, NoEntry, Entries, Typed
    <2>3. Typed' BY <1>6, <2>1, <2>2, <1>T DEF RemoveVictim, sinks, Typed
    <2>4. Core' BY <1>6, EvictMove DEF RemoveVictim
    <2> QED BY <2>3, <2>4 DEF DInv
  <1>7. CASE Compact(x) BY <1>2, <1>7 DEF Compact, sinks
  <1> QED BY <1>1, <1>3, <1>4, <1>5, <1>6, <1>7 DEF TryAdmit

\* The handler behind try_admit
LEMMA HandlePreserves == ASSUME DInv, NEW x \in Handlers, Handle(x) PROVE DInv'
  <1>T. Typed /\ Core BY DEF DInv
  <1>t. TasksTyped /\ 0 \in 0 .. MaxAdmits BY <1>T, Types
  <1>i. task[x].pc # "idle" => task[x].id \in Ids BY <1>T DEF Core, HandlerShape
  <1>1. ASSUME Finish(x), task[x].pc \in {"work", "forward"},
               MarkDone(task[x].id) \/ RemoveId(task[x].id),
               UNCHANGED <<gen, forwarded, seen, evicted>>
        PROVE  DInv'
    <2>1. TasksTyped' /\ Alone(x) /\ task'[x].pc = "idle" /\ task'[x].gen = 0
      BY <1>t, <1>1, FinishFacts
    <2>2. map' \in Entries
      BY <1>1, <1>T, <1>t DEF MarkDone, RemoveId, NoEntry, Entries, Typed
    <2>3. Typed' BY <1>1, <2>1, <2>2, <1>T DEF Typed
    <2>4. Core' BY <1>1, <2>1, SettleMove
    <2> QED BY <2>3, <2>4 DEF DInv
  <1>2. CASE Ignore(x) \/ Transient(x) BY <1>1, <1>2 DEF Ignore, Transient, sinks
  <1>3. CASE Persist(x)
    <2>1. /\ TasksTyped' /\ Alone(x) /\ task'[x].pc = "forward"
          /\ task'[x].id = task[x].id /\ task'[x].gen = task[x].gen
      BY <1>3, <1>t, GotoFacts DEF Persist, Pcs
    <2>2. Working(x) /\ task[x].pc # "mark" BY <1>3 DEF Persist, Working, Admitted
    <2>3. Typed' BY <1>3, <2>1, <1>T DEF Persist, cache, Typed
    <2>4. Core' BY <1>3, <2>1, <2>2, QuietMove DEF Persist, cache
    <2> QED BY <2>3, <2>4 DEF DInv
  <1>4. CASE Forward(x)
    <2>1. CASE forwarded' = [forwarded EXCEPT ![task[x].id] = @ + 1] /\ Goto(x, "mark")
                 /\ UNCHANGED map
      <3>1. /\ TasksTyped' /\ Alone(x) /\ task'[x].pc = "mark"
            /\ task'[x].id = task[x].id /\ task'[x].gen = task[x].gen
        BY <2>1, <1>t, GotoFacts DEF Pcs
      <3>i. task[x].id \in Ids BY <1>4, <1>i DEF Forward
      <3>f. forwarded' \in [Ids -> Nat] BY <1>T, <2>1, <3>i DEF Typed
      <3>2. Typed' BY <1>4, <2>1, <3>1, <3>f, <1>T DEF Forward, Typed
      <3>3. Core' BY <1>4, <2>1, <3>1, ForwardMove DEF Forward
      <3> QED BY <3>2, <3>3 DEF DInv
    <2>2. CASE RemoveId(task[x].id) /\ Finish(x) /\ UNCHANGED forwarded
      BY <1>1, <1>4, <2>2 DEF Forward
    <2> QED BY <1>4, <2>1, <2>2 DEF Forward
  <1>5. CASE Mark(x)
    <2>1. /\ TasksTyped' /\ Alone(x) /\ task'[x].pc = "report"
          /\ task'[x].id = task[x].id /\ task'[x].gen = task[x].gen
      BY <1>5, <1>t, GotoFacts DEF Mark, Pcs
    <2>2. map' \in Entries BY <1>5, <1>T DEF Mark, MarkDone, Entries, Typed
    <2>3. Typed' BY <1>5, <2>1, <2>2, <1>T DEF Mark, sinks, Typed
    <2>4. Core' BY <1>5, <2>1, MarkMove DEF Mark, sinks
    <2> QED BY <2>3, <2>4 DEF DInv
  <1>6. CASE Report(x)
    <2>1. TasksTyped' /\ Alone(x) /\ task'[x].pc = "idle" /\ task'[x].gen = 0
      BY <1>6, <1>t, FinishFacts DEF Report
    <2>2. ~Working(x) /\ task[x].id \in Ids BY <1>6, <1>i DEF Report, Working
    <2>3. Typed' BY <1>6, <2>1, <2>2, <1>T DEF Report, cache, Typed
    <2>4. Core' BY <1>6, <2>1, <2>2, IdleMove DEF Report, cache
    <2> QED BY <2>3, <2>4 DEF DInv
  <1> QED BY <1>2, <1>3, <1>4, <1>5, <1>6 DEF Handle

\* A step that touches none of it keeps the invariant.
LEMMA QuietKeeps ==
  ASSUME DInv, UNCHANGED <<map, gen, task, forwarded, seen, evicted>>
  PROVE  DInv'
  BY DEF DInv, Typed, TasksTyped, Core, HandlerShape, GensDiffer, EntryOwned, Working,
         Admitted, InFlightIsHandled, SeenWasForwarded

\* Deliveries, and the end of the consumer
LEMMA ArrivalPreserves ==
  ASSUME DInv, CloseInbound \/ \E x \in Handlers, id \in Ids : Deliver(x, id)
  PROVE  DInv'
  <1>T. Typed /\ Core BY DEF DInv
  <1>1. CASE CloseInbound
    <2>1. UNCHANGED <<map, gen, task, forwarded, seen, evicted>>
      BY <1>1 DEF CloseInbound, cache
    <2> QED BY <2>1, QuietKeeps
  <1>2. ASSUME NEW x \in Handlers, NEW id \in Ids, Deliver(x, id) PROVE DInv'
    <2>g. gen \in 0 .. MaxAdmits /\ MaxAdmits \in Nat BY <1>T, Types
    <2>1. gen' = gen + 1 /\ gen' \in 0 .. MaxAdmits BY <1>2, <2>g DEF Deliver
    <2>2. task' = [task EXCEPT ![x] = [pc |-> "admit", id |-> id, gen |-> gen', victim |-> NoElement]]
      BY <1>2, <2>1 DEF Deliver
    <2>3. /\ TasksTyped' /\ Alone(x) /\ task'[x].pc = "admit" /\ task'[x].id = id
          /\ task'[x].gen = gen'
      <3>1. TasksTyped BY <1>T, Types
      <3>2. "admit" \in Pcs /\ id \in Ids \cup {Nobody} BY DEF Pcs
      <3> QED BY <2>1, <2>2, <3>1, <3>2, PutFacts
    <2>4. ~Working(x) BY <1>2 DEF Deliver, Working, Admitted
    <2>5. Typed' BY <1>2, <2>1, <2>3, <1>T DEF Deliver, sinks, Typed
    <2>u. UNCHANGED <<map, forwarded, seen, evicted>> BY <1>2 DEF Deliver, sinks
    <2>6. Core' BY <2>1, <2>3, <2>4, <2>u, IdleMove
    <2> QED BY <2>5, <2>6 DEF DInv
  <1> QED BY <1>1, <1>2

\* No entry, no handler, nothing handed on
LEMMA InitDInv == Init => DInv
  <1> SUFFICES ASSUME Init PROVE DInv OBVIOUS
  <1>t. MaxAdmits \in Nat /\ 0 \in 0 .. MaxAdmits BY DedupAssumption
  <1>1. Typed BY <1>t DEF Init, Typed, TasksTyped, Entries, IdleTask, NoEntry, Pcs
  <1>2. Core
    BY DEF Init, Core, HandlerShape, GensDiffer, EntryOwned, Working, Admitted, IdleTask,
           NoEntry, InFlightIsHandled, SeenWasForwarded
  <1> QED BY <1>1, <1>2 DEF DInv

THEOREM DedupInvariant == Spec => []DInv
  <1>1. DInv /\ [Next]_vars => DInv'
    <2> SUFFICES ASSUME DInv, [Next]_vars PROVE DInv' OBVIOUS
    <2>1. CASE UNCHANGED vars
      <3>1. UNCHANGED <<map, gen, task, forwarded, seen, evicted>>
        BY <2>1 DEF vars, cache, sinks
      <3> QED BY <3>1, QuietKeeps
    <2>2. CASE Next BY <2>2, AdmitPreserves, HandlePreserves, ArrivalPreserves DEF Next
    <2> QED BY <2>1, <2>2
  <1> QED BY InitDInv, <1>1, PTL DEF Spec

----------------------------------------------------------------------------
(* The properties the run checks *)

\* However often a message is delivered, and whoever fails on the way, it is
\* handed on at most once as long as its entry was not evicted.
THEOREM MessagesForwardedOnce == Spec => []ForwardedOnce
  <1>1. DInv => ForwardedOnce BY DEF DInv, Core, EntryOwned, ForwardedOnce
  <1> QED BY <1>1, DedupInvariant, PTL

\* As long as its entry was not evicted, one handler at a time works on an id.
THEOREM WorkIsSingleFlight == Spec => []SingleFlight
  <1>1. DInv => SingleFlight BY OneWorker DEF SingleFlight
  <1> QED BY <1>1, DedupInvariant, PTL

\* Even where evictions race with it, no entry is in flight without a handler
\* that will finish it, and only what was handed on is scheduled as read.
THEOREM EntriesAreHandled == Spec => [](InFlightIsHandled /\ SeenWasForwarded)
  <1>1. DInv => InFlightIsHandled /\ SeenWasForwarded BY DEF DInv, Core
  <1> QED BY <1>1, DedupInvariant, PTL

----------------------------------------------------------------------------
(* The order queue: what a set of positions enumerates, and the inductive
   invariant of the queue, its lock and the entries *)

\* The rank of a position in a finite set of them is a bijection.
LEMMA NthFacts ==
  ASSUME NEW K, K \subseteq Nat, IsFiniteSet(K)
  PROVE  /\ Cardinality(K) \in Nat
         /\ \A k \in 1 .. Cardinality(K) : Nth(K, k) \in K /\ Rank(K, Nth(K, k)) = k
         /\ \A i \in K : \E k \in 1 .. Cardinality(K) : Nth(K, k) = i
  <1> DEFINE n == Cardinality(K)
             Below(i) == {j \in K : j <= i}
             f == [i \in K |-> Rank(K, i)]
  <1>n. n \in Nat BY FS_CardinalityType
  <1>b. \A i \in K : IsFiniteSet(Below(i)) /\ Cardinality(Below(i)) <= n BY FS_Subset
  <1>c. \A i \in K : Cardinality(Below(i)) \in Nat BY <1>b, FS_CardinalityType
  <1>1. \A i \in K : Rank(K, i) = Cardinality(Below(i)) BY DEF Rank
  <1>2. ASSUME NEW i \in K PROVE Rank(K, i) \in 1 .. n
    <2>1. i \in Below(i) OBVIOUS
    <2>2. Cardinality(Below(i)) # 0 BY <2>1, <1>b, FS_EmptySet
    <2> QED BY <2>2, <1>1, <1>b, <1>c, <1>n
  <1>3. ASSUME NEW i \in K, NEW j \in K, i < j PROVE Rank(K, i) # Rank(K, j)
    <2>t. i \in Nat /\ j \in Nat OBVIOUS
    <2>1. Below(i) \subseteq Below(j)
      <3> SUFFICES ASSUME NEW h \in K, h <= i PROVE h <= j OBVIOUS
      <3> QED BY <1>3, <2>t
    <2>3. j \in Below(j) /\ j \notin Below(i) BY <1>3, <2>t
    <2>2. Cardinality(Below(i)) # Cardinality(Below(j)) BY <2>1, <2>3, <1>b, FS_Subset
    <2> QED BY <2>2, <1>1
  <1>4. \A i, j \in K : Rank(K, i) = Rank(K, j) => i = j BY <1>3
  <1>5. f \in Injection(K, 1 .. n) BY <1>2, <1>4 DEF Injection, IsInjective
  <1>6. IsFiniteSet(1 .. n) /\ Cardinality(1 .. n) = n BY <1>n, FS_Interval
  <1>7. f \in Surjection(K, 1 .. n) BY <1>5, <1>6, FS_Injection
  <1>8. \A k \in 1 .. n : \E i \in K : Rank(K, i) = k BY <1>7 DEF Surjection
  <1>9. \A k \in 1 .. n : Nth(K, k) \in K /\ Rank(K, Nth(K, k)) = k BY <1>8 DEF Nth
  <1>10. ASSUME NEW i \in K PROVE \E k \in 1 .. n : Nth(K, k) = i
    <2>1. Nth(K, Rank(K, i)) \in K /\ Rank(K, Nth(K, Rank(K, i))) = Rank(K, i) BY <1>2, <1>9
    <2>2. Nth(K, Rank(K, i)) = i BY <2>1, <1>4
    <2> QED BY <2>2, <1>2
  <1> QED BY <1>n, <1>9, <1>10

\* The rest of the types: the order queue, its lock, and what was popped from it.
QueueTyped ==
    /\ order \in Seq(Element)
    /\ lock \in Handlers \cup {Nobody}
    /\ open \in BOOLEAN
    /\ history \subseteq Ids /\ evicted \subseteq Ids
    /\ \A x \in Handlers : task[x].victim \in Element \cup {NoElement}
    /\ \A x \in Handlers : task[x].pc \in {"check", "remove"} => task[x].victim \in Element

\* The order mutex is held from the push to the compaction.
Holder(x) == task[x].pc \in {"evict", "check", "remove", "compact"}
LockHeld == \A x \in Handlers : Holder(x) <=> lock = x

\* A handler pushes its generation once, and nobody else's.
ElementsDiffer ==
    /\ \A i \in DOMAIN order : order[i].gen <= gen
    /\ \A i, j \in DOMAIN order : order[i].gen = order[j].gen => i = j
    /\ \A x \in Handlers : task[x].pc \in {"admit", "push"} =>
           \A i \in DOMAIN order : order[i].gen # task[x].gen

\* The entries that are evictable from the queue.  Once the eviction is over they
\* are within the capacity, whoever inserts while the lock is held.
ElementOf(id) == [id |-> id, gen |-> map[id].gen]
Queued == {id \in Live : \E i \in DOMAIN order : order[i] = ElementOf(id)}
QueuedBounded == \A x \in Handlers : task[x].pc = "compact" => Cardinality(Queued) <= Capacity

QInv ==
    /\ QueueTyped
    /\ LockHeld
    /\ ElementsDiffer
    /\ LiveEntryOrdered
    /\ BoundedAtRest
    /\ QueuedBounded
    /\ OrderBounded

\* Sets of ids have cardinalities, and smaller ones smaller cardinalities.
LEMMA IdSets ==
  ASSUME NEW S, NEW T, S \subseteq T, T \subseteq Ids
  PROVE  /\ IsFiniteSet(S) /\ IsFiniteSet(T) /\ Cardinality(S) \in Nat /\ Cardinality(T) \in Nat
         /\ Cardinality(S) <= Cardinality(T)
  <1>1. IsFiniteSet(T) /\ IsFiniteSet(S) BY FS_Subset, DedupAssumption
  <1> QED BY <1>1, FS_Subset, FS_CardinalityType

\* What the queue holds.
LEMMA ElementTypes ==
  ASSUME order \in Seq(Element), NEW i \in DOMAIN order
  PROVE  /\ order[i] \in Element /\ order[i].id \in Ids
         /\ order[i].gen \in Nat /\ order[i].gen # 0
         /\ order[i] = [id |-> order[i].id, gen |-> order[i].gen]
  <1>1. order[i] \in Element OBVIOUS
  <1> QED BY <1>1 DEF Element

\* One holder at a time.
LEMMA OneHolder ==
  ASSUME QInv, NEW x \in Handlers, NEW y \in Handlers, Holder(x), Holder(y)
  PROVE  x = y
  BY DEF QInv, LockHeld

Inside == {"push", "evict", "check", "remove", "compact"}

\* What a step leaves of the entries: no new one, and none under another generation.
Shrinks == \A id \in Ids : map'[id] # NoEntry => map[id] # NoEntry /\ map'[id].gen = map[id].gen

LEMMA ShrinkFacts ==
  ASSUME Shrinks, order' = order
  PROVE  /\ Live' \subseteq Live /\ Queued' \subseteq Queued
         /\ Cardinality(Live') <= Cardinality(Live) /\ Cardinality(Queued') <= Cardinality(Queued)
         /\ Cardinality(Live') \in Nat /\ Cardinality(Live) \in Nat
         /\ Cardinality(Queued') \in Nat /\ Cardinality(Queued) \in Nat
  <1>1. Live' \subseteq Live BY DEF Shrinks, Live
  <1>2. Queued' \subseteq Queued
    <2> SUFFICES ASSUME NEW id \in Queued' PROVE id \in Queued OBVIOUS
    <2>1. id \in Live' /\ id \in Ids /\ \E i \in DOMAIN order : order[i] = ElementOf(id)'
      BY DEF Queued, Live
    <2>2. id \in Live BY <1>1, <2>1
    <2>3. ElementOf(id)' = ElementOf(id) BY <2>1 DEF Shrinks, Live, ElementOf
    <2> QED BY <2>1, <2>2, <2>3 DEF Queued
  <1>3. Live \subseteq Ids /\ Queued \subseteq Ids BY DEF Live, Queued
  <1> QED BY <1>1, <1>2, <1>3, IdSets

\* A handler that is not between its insert and the end of its try_admit moves,
\* and the entries shrink at most.
LEMMA OutsideMove ==
  ASSUME DInv, QInv, NEW x \in Handlers, Alone(x),
         task[x].pc \notin Inside, task'[x].pc \in Pcs \ Inside,
         task'[x].victim \in Element \cup {NoElement},
         task'[x].pc = "admit" => task'[x].gen = gen + 1,
         gen' \in {gen, gen + 1},
         Shrinks, UNCHANGED <<order, lock>>,
         open' \in BOOLEAN, history' \subseteq Ids, UNCHANGED evicted
  PROVE  QInv'
  <1>g. gen \in Nat /\ gen' \in Nat /\ gen <= gen' BY Types DEF DInv
  <1>a. \A y \in Handlers : /\ Holder(y)' = Holder(y)
                            /\ task[y].pc \in Inside => task'[y] = task[y]
                            /\ task'[y].pc \in Inside => task'[y] = task[y]
    BY DEF Alone, Holder, Inside
  <1>o. order \in Seq(Element) BY DEF QInv, QueueTyped
  <1>e. \A i \in DOMAIN order : order[i].gen \in Nat BY <1>o, ElementTypes
  <1>1. QueueTyped'
    <2>1. ASSUME NEW y \in Handlers
          PROVE  /\ task'[y].victim \in Element \cup {NoElement}
                 /\ task'[y].pc \in {"check", "remove"} => task'[y].victim \in Element
      BY <1>a DEF QInv, QueueTyped, Alone, Inside
    <2> QED BY <2>1 DEF QInv, QueueTyped
  <1>2. LockHeld' BY <1>a DEF QInv, LockHeld
  <1>3. ElementsDiffer'
    <2>1. \A i \in DOMAIN order : order[i].gen <= gen' BY <1>g, <1>e DEF QInv, ElementsDiffer
    <2>2. ASSUME NEW y \in Handlers, task'[y].pc \in {"admit", "push"}, NEW i \in DOMAIN order
          PROVE  order[i].gen # task'[y].gen
      <3>1. order[i].gen <= gen BY DEF QInv, ElementsDiffer
      <3>2. CASE y = x BY <2>2, <3>1, <3>2, <1>g, <1>e DEF Inside
      <3>3. CASE y # x BY <2>2, <3>3 DEF QInv, ElementsDiffer, Alone
      <3> QED BY <3>2, <3>3
    <2> QED BY <2>1, <2>2 DEF QInv, ElementsDiffer
  <1>4. LiveEntryOrdered'
    BY <1>a DEF QInv, LiveEntryOrdered, Live, Shrinks, Inside
  <1>5. BoundedAtRest'
    <2> SUFFICES ASSUME \A y \in Handlers : task'[y].pc \notin {"push", "evict", "check", "remove"}
                 PROVE  Cardinality(Live') <= Capacity
      BY DEF BoundedAtRest
    <2>1. \A y \in Handlers : task[y].pc \notin {"push", "evict", "check", "remove"}
      BY <1>a DEF Inside
    <2>2. Cardinality(Live) <= Capacity BY <2>1 DEF QInv, BoundedAtRest
    <2> QED BY <2>2, ShrinkFacts, DedupAssumption
  <1>6. QueuedBounded'
    <2> SUFFICES ASSUME NEW y \in Handlers, task'[y].pc = "compact"
                 PROVE  Cardinality(Queued') <= Capacity
      BY DEF QueuedBounded
    <2>1. Cardinality(Queued) <= Capacity BY <1>a DEF QInv, QueuedBounded, Inside
    <2> QED BY <2>1, ShrinkFacts, DedupAssumption
  <1>7. OrderBounded' BY DEF QInv, OrderBounded
  <1> QED BY <1>1, <1>2, <1>3, <1>4, <1>5, <1>6, <1>7 DEF QInv

\* The entry is vacant: the inserter will push its element.
LEMMA InsertMove ==
  ASSUME DInv, QInv, NEW x \in Handlers, task[x].pc = "admit", Alone(x),
         task'[x].pc = "push", task'[x].id = task[x].id, task'[x].gen = task[x].gen,
         task'[x].victim = task[x].victim,
         map[task[x].id] = NoEntry,
         map' = [map EXCEPT ![task[x].id] = [state |-> "inflight", gen |-> task[x].gen]],
         UNCHANGED <<order, lock, gen, open, history, evicted>>
  PROVE  QInv'
  <1> DEFINE me == task[x].id
  <1>t. me \in Ids /\ map \in [Ids -> [state: {"none", "inflight", "done"}, gen: 0 .. MaxAdmits]]
    BY Types DEF DInv, Core, HandlerShape, Entries
  <1>m. map'[me].gen = task[x].gen /\ \A id \in Ids \ {me} : map'[id] = map[id] BY <1>t
  <1>a. \A y \in Handlers : /\ Holder(y)' = Holder(y) /\ task'[y].victim = task[y].victim
                            /\ task'[y].gen = task[y].gen
                            /\ y # x => task'[y] = task[y]
                            /\ task'[y].pc \in {"check", "remove", "compact"} => y # x
                            /\ task[y].pc \in {"check", "remove", "push"} => y # x
                            /\ task'[y].pc \in {"admit", "push"} => task[y].pc \in {"admit", "push"}
    BY DEF Alone, Holder
  <1>1. QueueTyped' BY <1>a DEF QInv, QueueTyped
  <1>2. LockHeld' BY <1>a DEF QInv, LockHeld
  <1>3. ElementsDiffer' BY <1>a DEF QInv, ElementsDiffer
  <1>4. LiveEntryOrdered'
    <2> SUFFICES ASSUME NEW id \in Ids, map'[id] # NoEntry
                 PROVE  LET e == [id |-> id, gen |-> map'[id].gen]
                        IN  \/ \E i \in DOMAIN order : order[i] = e
                            \/ \E y \in Handlers : task'[y].pc \in {"check", "remove"} /\ task'[y].victim = e
                            \/ \E y \in Handlers : task'[y].pc = "push" /\ task'[y].id = id
                                                     /\ task'[y].gen = map'[id].gen
      BY DEF LiveEntryOrdered, Live
    <2>1. CASE id = me BY <2>1, <1>m
    <2>2. CASE id # me BY <2>2, <1>m, <1>a DEF QInv, LiveEntryOrdered, Live
    <2> QED BY <2>1, <2>2
  <1>5. BoundedAtRest' BY DEF BoundedAtRest
  <1>6. QueuedBounded'
    <2> SUFFICES ASSUME NEW y \in Handlers, task'[y].pc = "compact"
                 PROVE  Cardinality(Queued') <= Capacity
      BY DEF QueuedBounded
    <2>1. Cardinality(Queued) <= Capacity BY <1>a DEF QInv, QueuedBounded
    <2>2. Queued' \subseteq Queued
      <3> SUFFICES ASSUME NEW id \in Queued' PROVE id \in Queued OBVIOUS
      <3>1. PICK i \in DOMAIN order : order[i] = ElementOf(id)' BY DEF Queued
      <3>2. id \in Ids /\ map'[id] # NoEntry BY DEF Queued, Live
      <3>3. order[i].gen = map'[id].gen BY <3>1 DEF ElementOf
      <3>4. id # me BY <3>3, <1>m DEF QInv, ElementsDiffer
      <3>5. map'[id] = map[id] BY <3>2, <3>4, <1>m
      <3>6. ElementOf(id)' = ElementOf(id) BY <3>5 DEF ElementOf
      <3> QED BY <3>1, <3>2, <3>5, <3>6 DEF Queued, Live
    <2>3. Queued \subseteq Ids BY DEF Queued, Live
    <2> QED BY <2>1, <2>2, <2>3, IdSets, DedupAssumption
  <1>7. OrderBounded' BY DEF QInv, OrderBounded
  <1> QED BY <1>1, <1>2, <1>3, <1>4, <1>5, <1>6, <1>7 DEF QInv

\* The holder of the lock moves from one place under it to another.
LEMMA HeldMove ==
  ASSUME DInv, QInv, NEW x \in Handlers, Alone(x),
         Holder(x), task'[x].pc \in {"evict", "check", "remove"}, lock' = lock,
         QueueTyped', ElementsDiffer', LiveEntryOrdered'
  PROVE  QInv'
  <1>h. lock = x /\ lock' = x /\ lock' # Nobody BY DedupAssumption DEF QInv, LockHeld
  <1>a. \A y \in Handlers : Holder(y)' = Holder(y) BY DEF Alone, Holder
  <1>2. LockHeld' BY <1>a DEF QInv, LockHeld
  <1>5. BoundedAtRest' BY DEF BoundedAtRest
  <1>6. QueuedBounded' BY <1>a, OneHolder DEF QueuedBounded, Holder
  <1>7. OrderBounded' BY <1>h DEF OrderBounded
  <1> QED BY <1>2, <1>5, <1>6, <1>7 DEF QInv

\* push_back
LEMMA PushMove ==
  ASSUME DInv, QInv, NEW x \in Handlers, PushBack(x), Alone(x),
         task'[x].pc = "evict", task'[x].id = task[x].id, task'[x].gen = task[x].gen,
         task'[x].victim = task[x].victim
  PROVE  QInv'
  <1> DEFINE e == [id |-> task[x].id, gen |-> task[x].gen]
             n == Len(order)
  <1>g. gen \in Nat BY Types DEF DInv
  <1>e. e \in Element /\ e.gen <= gen
    <2>1. task[x].id \in Ids /\ task[x].gen \in 1 .. gen BY DEF PushBack, DInv, Core, HandlerShape
    <2> QED BY <2>1, <1>g DEF Element
  <1>p. /\ task[x].pc = "push" /\ lock = Nobody /\ lock' = x /\ order' = Append(order, e)
        /\ UNCHANGED <<map, gen, open, history, evicted>>
    BY DEF PushBack, sinks
  <1>s. order \in Seq(Element) BY DEF QInv, QueueTyped
  <1>o. /\ order' \in Seq(Element) /\ n \in Nat /\ DOMAIN order = 1 .. n /\ DOMAIN order' = 1 .. n + 1
        /\ order'[n + 1] = e /\ \A i \in 1 .. n : order'[i] = order[i]
    BY <1>s, <1>e, <1>p
  <1>a. \A y \in Handlers : /\ y # x => task'[y] = task[y] /\ ~Holder(y)'
                            /\ task'[y].pc \in {"check", "remove"} => y # x
    BY <1>p, DedupAssumption DEF Alone, Holder, QInv, LockHeld
  <1>1. QueueTyped'
    <2>1. ASSUME NEW y \in Handlers
          PROVE  /\ task'[y].victim \in Element \cup {NoElement}
                 /\ task'[y].pc \in {"check", "remove"} => task'[y].victim \in Element
      BY <1>a DEF QInv, QueueTyped
    <2> QED BY <2>1, <1>p, <1>o DEF QInv, QueueTyped
  <1>2. LockHeld' BY <1>p, <1>a DEF LockHeld, Holder
  <1> HIDE DEF e, n
  <1>3. ElementsDiffer'
    <2>1. \A i \in DOMAIN order' : order'[i].gen <= gen'
      BY <1>p, <1>o, <1>e DEF QInv, ElementsDiffer
    <2>2. \A i \in 1 .. n : order[i].gen # e.gen BY <1>p, <1>o DEF QInv, ElementsDiffer, e
    <2>3. \A i, j \in DOMAIN order' : order'[i].gen = order'[j].gen => i = j
      BY <2>2, <1>o DEF QInv, ElementsDiffer
    <2>4. ASSUME NEW y \in Handlers, task'[y].pc \in {"admit", "push"}, NEW i \in DOMAIN order'
          PROVE  order'[i].gen # task'[y].gen
      <3>1. y # x /\ task'[y] = task[y] BY <2>4, <1>a
      <3>2. CASE i \in 1 .. n BY <2>4, <3>1, <3>2, <1>o DEF QInv, ElementsDiffer
      <3>3. CASE i = n + 1
        <4>1. order'[i].gen = task[x].gen BY <3>3, <1>o DEF e
        <4>2. task[x].gen # 0 BY <1>p, <1>g DEF DInv, Core, HandlerShape
        <4> QED BY <4>1, <4>2, <3>1 DEF DInv, Core, GensDiffer
      <3> QED BY <3>2, <3>3, <1>o
    <2> QED BY <2>1, <2>3, <2>4 DEF ElementsDiffer
  <1>4. LiveEntryOrdered'
    <2> SUFFICES ASSUME NEW id \in Ids, map[id] # NoEntry
                 PROVE  LET f == [id |-> id, gen |-> map[id].gen]
                        IN  \/ \E i \in DOMAIN order' : order'[i] = f
                            \/ \E y \in Handlers : task'[y].pc \in {"check", "remove"} /\ task'[y].victim = f
                            \/ \E y \in Handlers : task'[y].pc = "push" /\ task'[y].id = id
                                                     /\ task'[y].gen = map[id].gen
      BY <1>p DEF LiveEntryOrdered, Live
    <2> DEFINE f == [id |-> id, gen |-> map[id].gen]
    <2>1. CASE \E i \in DOMAIN order : order[i] = f BY <2>1, <1>o
    <2>2. CASE \E y \in Handlers : task[y].pc \in {"check", "remove"} /\ task[y].victim = f
      BY <2>2, <1>a, <1>p
    <2>3. CASE \E y \in Handlers : task[y].pc = "push" /\ task[y].id = id /\ task[y].gen = map[id].gen
      <3>1. PICK y \in Handlers : task[y].pc = "push" /\ task[y].id = id /\ task[y].gen = map[id].gen
        BY <2>3
      <3>2. CASE y = x BY <3>1, <3>2, <1>o DEF e
      <3>3. CASE y # x BY <3>1, <3>3, <1>a
      <3> QED BY <3>2, <3>3
    <2> QED BY <2>1, <2>2, <2>3 DEF QInv, LiveEntryOrdered, Live
  <1>5. BoundedAtRest' BY DEF BoundedAtRest
  <1>6. QueuedBounded' BY <1>a DEF QueuedBounded, Holder
  <1>7. OrderBounded' BY <1>p, DedupAssumption DEF OrderBounded
  <1> QED BY <1>1, <1>2, <1>3, <1>4, <1>5, <1>6, <1>7 DEF QInv

\* The head of the loop: pop_front, while the cache is over its capacity.
LEMMA PopMove ==
  ASSUME DInv, QInv, NEW x \in Handlers, task[x].pc = "evict", Alone(x), order # <<>>,
         order' = Tail(order), task'[x].pc = "check", task'[x].victim = Head(order),
         task'[x].gen = task[x].gen,
         UNCHANGED <<map, lock, gen, open, history, evicted>>
  PROVE  QInv'
  <1> DEFINE n == Len(order)
  <1>s. order \in Seq(Element) /\ \A i \in DOMAIN order : order[i] \in Element
    BY ElementTypes DEF QInv, QueueTyped
  <1>o. /\ order' \in Seq(Element) /\ n \in Nat \ {0} /\ DOMAIN order = 1 .. n
        /\ DOMAIN order' = 1 .. n - 1 /\ \A i \in 1 .. n - 1 : order'[i] = order[i + 1]
        /\ Head(order) = order[1] /\ order[1] \in Element
    BY <1>s
  <1> HIDE DEF n
  <1>h. Holder(x) BY DEF Holder
  <1>a. \A y \in Handlers \ {x} : task'[y] = task[y] /\ ~Holder(y)
    BY <1>h, OneHolder DEF Alone
  <1>1. QueueTyped'
    <2>1. ASSUME NEW y \in Handlers
          PROVE  /\ task'[y].victim \in Element \cup {NoElement}
                 /\ task'[y].pc \in {"check", "remove"} => task'[y].victim \in Element
      BY <1>a, <1>o DEF QInv, QueueTyped
    <2> QED BY <2>1, <1>o DEF QInv, QueueTyped
  <1>3. ElementsDiffer'
    <2>1. \A i \in DOMAIN order' : i \in Int /\ i + 1 \in DOMAIN order /\ order'[i] = order[i + 1]
      BY <1>o
    <2>2. \A i, j \in DOMAIN order' : order'[i].gen = order'[j].gen => i = j
      <3> SUFFICES ASSUME NEW i \in DOMAIN order', NEW j \in DOMAIN order',
                          order'[i].gen = order'[j].gen
                   PROVE  i = j
        OBVIOUS
      <3>1. i + 1 = j + 1 BY <2>1 DEF QInv, ElementsDiffer
      <3> QED BY <3>1, <2>1
    <2>3. \A y \in Handlers : task'[y].pc \in {"admit", "push"} => task'[y] = task[y] BY <1>a
    <2> QED BY <2>1, <2>2, <2>3 DEF QInv, ElementsDiffer
  <1>4. LiveEntryOrdered'
    <2> SUFFICES ASSUME NEW id \in Ids, map[id] # NoEntry
                 PROVE  LET f == [id |-> id, gen |-> map[id].gen]
                        IN  \/ \E i \in DOMAIN order' : order'[i] = f
                            \/ \E y \in Handlers : task'[y].pc \in {"check", "remove"} /\ task'[y].victim = f
                            \/ \E y \in Handlers : task'[y].pc = "push" /\ task'[y].id = id
                                                     /\ task'[y].gen = map[id].gen
      BY DEF LiveEntryOrdered, Live
    <2> DEFINE f == [id |-> id, gen |-> map[id].gen]
    <2>1. CASE \E i \in DOMAIN order : order[i] = f
      <3>1. PICK i \in DOMAIN order : order[i] = f BY <2>1
      <3>2. CASE i = 1 BY <3>1, <3>2, <1>o
      <3>3. CASE i # 1
        <4>1. i - 1 \in DOMAIN order' /\ order'[i - 1] = order[i] BY <3>3, <1>o
        <4> QED BY <3>1, <4>1
      <3> QED BY <3>2, <3>3
    <2>2. CASE \E y \in Handlers : task[y].pc \in {"check", "remove"} /\ task[y].victim = f
      BY <2>2, <1>a
    <2>3. CASE \E y \in Handlers : task[y].pc = "push" /\ task[y].id = id /\ task[y].gen = map[id].gen
      BY <2>3, <1>a
    <2> QED BY <2>1, <2>2, <2>3 DEF QInv, LiveEntryOrdered, Live
  <1> QED BY <1>1, <1>3, <1>4, <1>h, HeldMove

\* The loop ends: what the queue still reaches is within the capacity, because the
\* cache is, or because the queue is empty.
LEMMA LoopEndMove ==
  ASSUME DInv, QInv, NEW x \in Handlers, task[x].pc = "evict", Alone(x),
         Cardinality(Live) <= Capacity \/ order = <<>>,
         task'[x].pc = "compact", task'[x].victim = task[x].victim, task'[x].gen = task[x].gen,
         UNCHANGED <<map, order, lock, gen, open, history, evicted>>
  PROVE  QInv'
  <1>h. Holder(x) /\ lock = x /\ lock # Nobody BY DedupAssumption DEF Holder, QInv, LockHeld
  <1>a. \A y \in Handlers \ {x} : task'[y] = task[y] /\ ~Holder(y)
    BY <1>h, OneHolder DEF Alone
  <1>c. /\ Queued \subseteq Live /\ Live \subseteq Ids /\ Queued' = Queued /\ Live' = Live
        /\ Cardinality(Queued) <= Cardinality(Live)
        /\ Cardinality(Queued) \in Nat /\ Cardinality(Live) \in Nat
    <2>1. Queued \subseteq Live /\ Live \subseteq Ids /\ Queued' = Queued /\ Live' = Live
      BY DEF Queued, Live, ElementOf
    <2> QED BY <2>1, IdSets
  <1>1. QueueTyped'
    <2>1. ASSUME NEW y \in Handlers
          PROVE  /\ task'[y].victim \in Element \cup {NoElement}
                 /\ task'[y].pc \in {"check", "remove"} => task'[y].victim \in Element
      BY <1>a DEF QInv, QueueTyped
    <2> QED BY <2>1 DEF QInv, QueueTyped
  <1>2. LockHeld'
    <2>1. \A y \in Handlers : Holder(y)' = Holder(y) BY <1>a, <1>h DEF Holder
    <2> QED BY <2>1 DEF QInv, LockHeld
  <1>3. ElementsDiffer'
    <2>1. \A y \in Handlers : task'[y].pc \in {"admit", "push"} => task'[y] = task[y] BY <1>a
    <2> QED BY <2>1 DEF QInv, ElementsDiffer
  <1>4. LiveEntryOrdered'
    <2>1. \A y \in Handlers : task[y].pc \in {"check", "remove", "push"} => task'[y] = task[y]
      BY <1>a
    <2> QED BY <2>1 DEF QInv, LiveEntryOrdered, Live
  <1>5. BoundedAtRest'
    <2> SUFFICES ASSUME \A y \in Handlers : task'[y].pc \notin {"push", "evict", "check", "remove"},
                        order = <<>>
                 PROVE  Cardinality(Live) <= Capacity
      BY <1>c DEF BoundedAtRest
    <2>1. \A y \in Handlers : task[y].pc \notin {"push", "check", "remove"} BY <1>a
    <2>2. DOMAIN order = {} OBVIOUS
    <2>3. Live = {} BY <2>1, <2>2 DEF QInv, LiveEntryOrdered
    <2> QED BY <2>3, FS_EmptySet, DedupAssumption
  <1>6. QueuedBounded'
    <2>1. CASE order = <<>>
      <3>1. Queued = {} BY <2>1 DEF Queued
      <3> QED BY <3>1, <1>c, FS_EmptySet, DedupAssumption DEF QueuedBounded
    <2>2. CASE Cardinality(Live) <= Capacity
      BY <2>2, <1>c, DedupAssumption DEF QueuedBounded
    <2> QED BY <2>1, <2>2
  <1>7. OrderBounded' BY <1>h DEF OrderBounded
  <1> QED BY <1>1, <1>2, <1>3, <1>4, <1>5, <1>6, <1>7 DEF QInv

\* The entry of a popped element is compared, and removed, in two steps.
LEMMA VictimMove ==
  ASSUME DInv, QInv, NEW x \in Handlers, Alone(x),
         task'[x].victim = task[x].victim, task'[x].gen = task[x].gen,
         \/ /\ task[x].pc = "check" /\ task'[x].pc = "remove"
            /\ UNCHANGED map
         \/ /\ task[x].pc = "check" /\ task'[x].pc = "evict"
            /\ map[task[x].victim.id].gen # task[x].victim.gen /\ UNCHANGED map
         \/ /\ task[x].pc = "remove" /\ task'[x].pc = "evict"
            /\ map' = [map EXCEPT ![task[x].victim.id] = NoEntry],
         evicted' \subseteq Ids,
         UNCHANGED <<order, lock, gen, open, history>>
  PROVE  QInv'
  <1> DEFINE v == task[x].victim
  <1>h. Holder(x) BY DEF Holder
  <1>a. \A y \in Handlers \ {x} : task'[y] = task[y] /\ ~Holder(y)
    BY <1>h, OneHolder DEF Alone
  <1>1. QueueTyped'
    <2>1. ASSUME NEW y \in Handlers
          PROVE  /\ task'[y].victim \in Element \cup {NoElement}
                 /\ task'[y].pc \in {"check", "remove"} => task'[y].victim \in Element
      BY <1>a DEF QInv, QueueTyped
    <2> QED BY <2>1 DEF QInv, QueueTyped
  <1>3. ElementsDiffer'
    <2>1. \A y \in Handlers : task'[y].pc \in {"admit", "push"} => task'[y] = task[y] BY <1>a
    <2> QED BY <2>1 DEF QInv, ElementsDiffer
  <1>4. LiveEntryOrdered'
    <2> SUFFICES ASSUME NEW id \in Ids, map'[id] # NoEntry
                 PROVE  LET f == [id |-> id, gen |-> map'[id].gen]
                        IN  \/ \E i \in DOMAIN order : order[i] = f
                            \/ \E y \in Handlers : task'[y].pc \in {"check", "remove"} /\ task'[y].victim = f
                            \/ \E y \in Handlers : task'[y].pc = "push" /\ task'[y].id = id
                                                     /\ task'[y].gen = map'[id].gen
      BY DEF LiveEntryOrdered, Live
    <2> DEFINE f == [id |-> id, gen |-> map[id].gen]
    <2>m. map'[id] = map[id] /\ (task'[x].pc = "evict" => v # f)
      <3>1. CASE task[x].pc = "check" BY <3>1
      <3>2. CASE task[x].pc = "remove"
        <4>1. id # v.id BY <3>2, Types DEF DInv, Entries
        <4>2. map'[id] = map[id] BY <4>1, <3>2, Types DEF DInv, Entries
        <4> QED BY <4>1, <4>2
      <3> QED BY <3>1, <3>2
    <2>1. CASE \E i \in DOMAIN order : order[i] = f BY <2>1, <2>m
    <2>2. CASE \E y \in Handlers : task[y].pc \in {"check", "remove"} /\ task[y].victim = f
      BY <2>2, <1>a, <2>m
    <2>3. CASE \E y \in Handlers : task[y].pc = "push" /\ task[y].id = id /\ task[y].gen = map[id].gen
      BY <2>3, <1>a, <2>m
    <2> QED BY <2>1, <2>2, <2>3, <2>m DEF QInv, LiveEntryOrdered, Live
  <1> QED BY <1>1, <1>3, <1>4, <1>h, HeldMove

\* A function on an initial interval is a sequence.
LEMMA FunctionIsSeq ==
  ASSUME NEW S, NEW n \in Nat, NEW q \in [1 .. n -> S]
  PROVE  q \in Seq(S) /\ Len(q) = n /\ DOMAIN q = 1 .. n
  OBVIOUS

\* The kept elements are in the queue, each once, and nothing that fits is lost.
LEMMA KeptFacts ==
  ASSUME order \in Seq(Element), NEW q, q = [k \in 1 .. Cardinality(Kept) |-> order[Nth(Kept, k)]]
  PROVE  /\ q \in Seq(Element) /\ Cardinality(Kept) \in Nat /\ Len(q) = Cardinality(Kept)
         /\ DOMAIN q = 1 .. Cardinality(Kept)
         /\ \A k \in DOMAIN q : Nth(Kept, k) \in Kept /\ q[k] = order[Nth(Kept, k)]
         /\ \A k, l \in DOMAIN q : Nth(Kept, k) = Nth(Kept, l) => k = l
         /\ \A i \in Kept : \E k \in DOMAIN q : q[k] = order[i]
         /\ Kept \subseteq DOMAIN order
  <1>1. Kept \subseteq DOMAIN order BY DEF Kept
  <1>2. Len(order) \in Nat /\ DOMAIN order = 1 .. Len(order) OBVIOUS
  <1>3. IsFiniteSet(1 .. Len(order)) BY <1>2, FS_Interval
  <1>4. IsFiniteSet(Kept) BY <1>1, <1>2, <1>3, FS_Subset
  <1>5. Kept \subseteq Nat BY <1>1, <1>2
  <1>6. /\ Cardinality(Kept) \in Nat
        /\ \A k \in 1 .. Cardinality(Kept) : Nth(Kept, k) \in Kept /\ Rank(Kept, Nth(Kept, k)) = k
        /\ \A i \in Kept : \E k \in 1 .. Cardinality(Kept) : Nth(Kept, k) = i
    BY <1>4, <1>5, NthFacts
  <1> DEFINE n == Cardinality(Kept)
             at(k) == Nth(Kept, k)
  <1>7. n \in Nat /\ q = [k \in 1 .. n |-> order[at(k)]] BY <1>6
  <1>8. /\ \A k \in 1 .. n : at(k) \in Kept
        /\ \A k, l \in 1 .. n : at(k) = at(l) => k = l
        /\ \A i \in Kept : \E k \in 1 .. n : at(k) = i
    BY <1>6
  <1> HIDE DEF n, at
  <1>9. \A k \in 1 .. n : order[at(k)] \in Element BY <1>1, <1>8, ElementTypes
  <1>10. q \in Seq(Element) /\ Len(q) = n /\ DOMAIN q = 1 .. n
    <2>1. q \in [1 .. n -> Element] BY <1>7, <1>9
    <2> QED BY <2>1, <1>7, FunctionIsSeq
  <1>11. \A k \in 1 .. n : at(k) \in Kept /\ q[k] = order[at(k)] BY <1>7, <1>8
  <1>12. \A i \in Kept : \E k \in 1 .. n : q[k] = order[i] BY <1>8, <1>11
  <1> QED BY <1>1, <1>7, <1>8, <1>10, <1>11, <1>12 DEF n, at

\* order.retain, where the queue has grown too long, and the unlock.
LEMMA CompactMove ==
  ASSUME DInv, QInv, NEW x \in Handlers, Compact(x), Alone(x),
         task'[x].pc = "work", task'[x].victim = task[x].victim, task'[x].gen = task[x].gen
  PROVE  QInv'
  <1>p. /\ task[x].pc = "compact" /\ lock' = Nobody
        /\ UNCHANGED <<map, gen, open, history, evicted>>
    BY DEF Compact, sinks
  <1>h. Holder(x) BY <1>p DEF Holder
  <1>a. \A y \in Handlers \ {x} : task'[y] = task[y] /\ ~Holder(y)
    BY <1>h, OneHolder DEF Alone
  <1>s. order \in Seq(Element) /\ Len(order) \in Nat BY DEF QInv, QueueTyped
  <1>q. \/ order' = order /\ Len(order) <= 3 * Capacity
        \/ order' = [k \in 1 .. Cardinality(Kept) |-> order[Nth(Kept, k)]]
    BY <1>s, DedupAssumption DEF Compact
  \* What stays in the queue was in it, once, and is all that the entries point to.
  <1>k. /\ order' \in Seq(Element) /\ Len(order') \in Nat
        /\ \A k \in DOMAIN order' : \E i \in DOMAIN order : order'[k] = order[i]
        /\ \A k, l \in DOMAIN order' : order'[k].gen = order'[l].gen => k = l
        /\ \A i \in DOMAIN order : map[order[i].id].gen = order[i].gen
                                   => \E k \in DOMAIN order' : order'[k] = order[i]
    <2>1. CASE order' = order BY <2>1, <1>s DEF QInv, ElementsDiffer
    <2>2. CASE order' = [k \in 1 .. Cardinality(Kept) |-> order[Nth(Kept, k)]]
      <3>1. /\ order' \in Seq(Element) /\ Cardinality(Kept) \in Nat /\ Len(order') = Cardinality(Kept)
            /\ \A k \in DOMAIN order' : Nth(Kept, k) \in Kept /\ order'[k] = order[Nth(Kept, k)]
            /\ \A k, l \in DOMAIN order' : Nth(Kept, k) = Nth(Kept, l) => k = l
            /\ \A i \in Kept : \E k \in DOMAIN order' : order'[k] = order[i]
            /\ Kept \subseteq DOMAIN order
        <4> DEFINE q == [k \in 1 .. Cardinality(Kept) |-> order[Nth(Kept, k)]]
        <4>1. /\ q \in Seq(Element) /\ Cardinality(Kept) \in Nat /\ Len(q) = Cardinality(Kept)
              /\ \A k \in DOMAIN q : Nth(Kept, k) \in Kept /\ q[k] = order[Nth(Kept, k)]
              /\ \A k, l \in DOMAIN q : Nth(Kept, k) = Nth(Kept, l) => k = l
              /\ \A i \in Kept : \E k \in DOMAIN q : q[k] = order[i]
              /\ Kept \subseteq DOMAIN order
          BY <1>s, KeptFacts
        <4>2. order' = q BY <2>2
        <4> HIDE DEF q
        <4> QED BY <4>1, <4>2
      <3>2. \A k \in DOMAIN order' : \E i \in DOMAIN order : order'[k] = order[i] BY <3>1
      <3>3. \A k, l \in DOMAIN order' : order'[k].gen = order'[l].gen => k = l
        <4> SUFFICES ASSUME NEW k \in DOMAIN order', NEW l \in DOMAIN order',
                            order'[k].gen = order'[l].gen
                     PROVE  Nth(Kept, k) = Nth(Kept, l)
          BY <3>1
        <4>1. /\ Nth(Kept, k) \in DOMAIN order /\ Nth(Kept, l) \in DOMAIN order
              /\ order[Nth(Kept, k)].gen = order[Nth(Kept, l)].gen
          BY <3>1
        <4> QED BY <4>1 DEF QInv, ElementsDiffer
      <3>4. \A i \in DOMAIN order : map[order[i].id].gen = order[i].gen
                                   => \E k \in DOMAIN order' : order'[k] = order[i]
        BY <3>1 DEF Kept
      <3> QED BY <3>1, <3>2, <3>3, <3>4
    <2> QED BY <1>q, <2>1, <2>2
  <1>1. QueueTyped'
    <2>1. ASSUME NEW y \in Handlers
          PROVE  /\ task'[y].victim \in Element \cup {NoElement}
                 /\ task'[y].pc \in {"check", "remove"} => task'[y].victim \in Element
      BY <1>a DEF QInv, QueueTyped
    <2> QED BY <2>1, <1>p, <1>k DEF QInv, QueueTyped
  <1>2. LockHeld'
    <2>1. \A y \in Handlers : ~Holder(y)' BY <1>a DEF Holder
    <2> QED BY <2>1, <1>p, DedupAssumption DEF LockHeld
  <1>3. ElementsDiffer'
    <2>1. \A k \in DOMAIN order' : order'[k].gen <= gen' BY <1>k, <1>p DEF QInv, ElementsDiffer
    <2>2. \A y \in Handlers : task'[y].pc \in {"admit", "push"} =>
              \A k \in DOMAIN order' : order'[k].gen # task'[y].gen
      <3>1. \A y \in Handlers : task'[y].pc \in {"admit", "push"} => task'[y] = task[y] BY <1>a
      <3> QED BY <3>1, <1>k DEF QInv, ElementsDiffer
    <2> QED BY <1>k, <2>1, <2>2 DEF ElementsDiffer
  <1>4. LiveEntryOrdered'
    <2> SUFFICES ASSUME NEW id \in Ids, map[id] # NoEntry
                 PROVE  LET f == [id |-> id, gen |-> map[id].gen]
                        IN  \/ \E i \in DOMAIN order' : order'[i] = f
                            \/ \E y \in Handlers : task'[y].pc \in {"check", "remove"} /\ task'[y].victim = f
                            \/ \E y \in Handlers : task'[y].pc = "push" /\ task'[y].id = id
                                                     /\ task'[y].gen = map[id].gen
      BY <1>p DEF LiveEntryOrdered, Live
    <2> DEFINE f == [id |-> id, gen |-> map[id].gen]
    <2>1. CASE \E i \in DOMAIN order : order[i] = f
      <3>1. PICK i \in DOMAIN order : order[i] = f BY <2>1
      <3>2. map[order[i].id].gen = order[i].gen BY <3>1
      <3> QED BY <3>1, <3>2, <1>k
    <2>2. CASE \E y \in Handlers : task[y].pc \in {"check", "remove"} /\ task[y].victim = f
      BY <2>2, <1>a, <1>p
    <2>3. CASE \E y \in Handlers : task[y].pc = "push" /\ task[y].id = id /\ task[y].gen = map[id].gen
      BY <2>3, <1>a, <1>p
    <2> QED BY <2>1, <2>2, <2>3 DEF QInv, LiveEntryOrdered, Live
  <1>5. BoundedAtRest'
    <2>1. Live' = Live BY <1>p DEF Live
    <2>2. (\A y \in Handlers : task'[y].pc \notin {"push", "evict", "check", "remove"})
            => \A y \in Handlers : task[y].pc \notin {"push", "evict", "check", "remove"}
      BY <1>a, <1>p
    <2> QED BY <2>1, <2>2 DEF QInv, BoundedAtRest
  <1>6. QueuedBounded'
    <2>1. \A y \in Handlers : task'[y].pc # "compact" BY <1>a DEF Holder
    <2> QED BY <2>1 DEF QueuedBounded
  <1>7. OrderBounded'
    <2>1. CASE order' = order /\ Len(order) <= 3 * Capacity BY <2>1 DEF OrderBounded
    <2>2. CASE order' = [k \in 1 .. Cardinality(Kept) |-> order[Nth(Kept, k)]]
      <3> DEFINE g == [i \in Kept |-> order[i].id]
      <3>1. Len(order') = Cardinality(Kept) /\ Cardinality(Kept) \in Nat /\ Kept \subseteq DOMAIN order
        <4> DEFINE q == [k \in 1 .. Cardinality(Kept) |-> order[Nth(Kept, k)]]
        <4>1. /\ q \in Seq(Element) /\ Cardinality(Kept) \in Nat /\ Len(q) = Cardinality(Kept)
              /\ \A k \in DOMAIN q : Nth(Kept, k) \in Kept /\ q[k] = order[Nth(Kept, k)]
              /\ \A k, l \in DOMAIN q : Nth(Kept, k) = Nth(Kept, l) => k = l
              /\ \A i \in Kept : \E k \in DOMAIN q : q[k] = order[i]
              /\ Kept \subseteq DOMAIN order
          BY <1>s, KeptFacts
        <4>2. order' = q BY <2>2
        <4> HIDE DEF q
        <4> QED BY <4>1, <4>2
      <3>2. ASSUME NEW i \in Kept PROVE order[i].id \in Queued
        <4>1. /\ i \in DOMAIN order /\ order[i].id \in Ids /\ order[i].gen # 0
              /\ order[i] = [id |-> order[i].id, gen |-> order[i].gen]
          BY <3>1, <1>s, ElementTypes
        <4>2. map[order[i].id].gen = order[i].gen BY DEF Kept
        <4>3. map[order[i].id] # NoEntry BY <4>1, <4>2 DEF NoEntry
        <4>4. order[i] = ElementOf(order[i].id) BY <4>1, <4>2 DEF ElementOf
        <4> QED BY <4>1, <4>3, <4>4 DEF Queued, Live
      <3>3. ASSUME NEW i \in Kept, NEW j \in Kept, order[i].id = order[j].id PROVE i = j
        <4>1. order[i].gen = order[j].gen BY <3>3 DEF Kept
        <4> QED BY <4>1, <3>1 DEF QInv, ElementsDiffer
      <3>4. g \in Injection(Kept, Queued) BY <3>2, <3>3 DEF Injection, IsInjective
      <3>5. Queued \subseteq Ids BY DEF Queued, Live
      <3>6. IsFiniteSet(Queued) /\ Cardinality(Queued) \in Nat BY <3>5, IdSets
      <3>7. Cardinality(Kept) <= Cardinality(Queued) BY <3>4, <3>6, FS_Injection
      <3>8. Cardinality(Queued) <= Capacity BY <1>p DEF QInv, QueuedBounded
      <3> QED BY <3>1, <3>6, <3>7, <3>8, DedupAssumption DEF OrderBounded
    <2> QED BY <1>q, <2>1, <2>2
  <1> QED BY <1>1, <1>2, <1>3, <1>4, <1>5, <1>6, <1>7 DEF QInv

\* What Goto and Finish do to the record of the handler that moves.
LEMMA MovedRecord ==
  ASSUME TasksTyped, NEW x \in Handlers, NEW pc
  PROVE  /\ Goto(x, pc) => task'[x].victim = task[x].victim
         /\ Finish(x) => task'[x] = IdleTask
  <1>1. task = [y \in Handlers |-> task[y]] BY DEF TasksTyped
  <1>2. Goto(x, pc) => task'[x] = [task[x] EXCEPT !.pc = pc] BY <1>1 DEF Goto
  <1>3. task[x] = [pc |-> task[x].pc, id |-> task[x].id, gen |-> task[x].gen,
                   victim |-> task[x].victim]
    BY DEF TasksTyped
  <1>4. Goto(x, pc) => task'[x].victim = task[x].victim
    <2> SUFFICES ASSUME Goto(x, pc) PROVE task'[x].victim = task[x].victim OBVIOUS
    <2>1. task'[x] = [pc |-> pc, id |-> task[x].id, gen |-> task[x].gen, victim |-> task[x].victim]
      BY <1>2, <1>3
    <2> QED BY <2>1
  <1>5. Finish(x) => task'[x] = IdleTask BY <1>1 DEF Finish
  <1> QED BY <1>4, <1>5

\* try_admit
LEMMA AdmitQueue == ASSUME DInv, QInv, NEW x \in Handlers, TryAdmit(x) PROVE QInv'
  <1>t. TasksTyped /\ 0 \in 0 .. MaxAdmits /\ gen \in 0 .. MaxAdmits /\ MaxAdmits \in Nat
        /\ map \in Entries
    BY Types DEF DInv
  <1>q. open \in BOOLEAN /\ history \subseteq Ids /\ evicted \subseteq Ids BY DEF QInv, QueueTyped
  <1>g. \A pc \in Pcs : Goto(x, pc) =>
            /\ Alone(x) /\ task'[x].pc = pc /\ task'[x].id = task[x].id
            /\ task'[x].gen = task[x].gen /\ task'[x].victim = task[x].victim
    BY <1>t, GotoFacts, MovedRecord
  <1>1. CASE Entry(x)
    <2>u. UNCHANGED <<order, lock, gen, open, history, evicted>> /\ task[x].pc = "admit"
      BY <1>1 DEF Entry, sinks
    <2>1. CASE Finish(x) /\ UNCHANGED map
      <3>1. Alone(x) /\ task'[x] = IdleTask BY <1>t, <2>1, FinishFacts, MovedRecord
      <3>2. task'[x].pc = "idle" /\ task'[x].victim = NoElement BY <3>1 DEF IdleTask
      <3>3. Shrinks BY <2>1 DEF Shrinks
      <3>4. task[x].pc \notin Inside /\ task'[x].pc \in Pcs \ Inside BY <2>u, <3>2 DEF Inside, Pcs
      <3> QED BY <3>1, <3>2, <3>3, <3>4, <2>u, <1>q, OutsideMove
    <2>2. CASE /\ map[task[x].id] = NoEntry
               /\ map' = [map EXCEPT ![task[x].id] = [state |-> "inflight", gen |-> task[x].gen]]
               /\ Goto(x, "push")
      BY <2>2, <2>u, <1>g, InsertMove DEF Pcs
    <2> QED BY <1>1, <2>1, <2>2 DEF Entry
  <1>2. CASE PushBack(x)
    <2>1. Goto(x, "evict") BY <1>2 DEF PushBack
    <2> QED BY <1>2, <2>1, <1>g, PushMove DEF Pcs
  <1>3. CASE Evict(x)
    <2>u. UNCHANGED <<map, lock, gen, open, history, evicted>> /\ task[x].pc = "evict"
      BY <1>3 DEF Evict, sinks
    <2>1. CASE /\ order # <<>> /\ order' = Tail(order)
               /\ task' = [task EXCEPT ![x] = [pc |-> "check", id |-> @.id, gen |-> @.gen,
                                               victim |-> Head(order)]]
      <3>1. task' = [task EXCEPT ![x] = [pc |-> "check", id |-> task[x].id, gen |-> task[x].gen,
                                          victim |-> Head(order)]]
        BY <2>1, <1>t DEF TasksTyped
      <3>2. Alone(x) /\ task'[x].pc = "check" /\ task'[x].gen = task[x].gen
        BY <3>1, <1>t, PutFacts DEF Pcs, TasksTyped
      <3>3. task'[x].victim = Head(order)
        <4>1. task = [y \in Handlers |-> task[y]] BY <1>t DEF TasksTyped
        <4>2. task'[x] = [pc |-> "check", id |-> task[x].id, gen |-> task[x].gen, victim |-> Head(order)]
          BY <3>1, <4>1
        <4> QED BY <4>2
      <3> QED BY <2>1, <2>u, <3>2, <3>3, PopMove
    <2>2. CASE (Cardinality(Live) <= Capacity \/ order = <<>>) /\ Goto(x, "compact") /\ UNCHANGED order
      BY <2>2, <2>u, <1>g, LoopEndMove DEF Pcs
    <2> QED BY <1>3, <2>1, <2>2 DEF Evict
  <1>4. CASE CheckVictim(x)
    <2>u. UNCHANGED <<map, order, lock, gen, open, history, evicted>> /\ task[x].pc = "check"
      BY <1>4 DEF CheckVictim, cache, sinks
    <2>1. CASE map[task[x].victim.id].gen = task[x].victim.gen
      <3>1. Goto(x, "remove") BY <1>4, <2>1 DEF CheckVictim
      <3> QED BY <3>1, <2>u, <1>q, <1>g, VictimMove DEF Pcs
    <2>2. CASE map[task[x].victim.id].gen # task[x].victim.gen
      <3>1. Goto(x, "evict") BY <1>4, <2>2 DEF CheckVictim
      <3> QED BY <3>1, <2>u, <2>2, <1>q, <1>g, VictimMove DEF Pcs
    <2> QED BY <2>1, <2>2
  <1>5. CASE RemoveVictim(x)
    <2>u. UNCHANGED <<order, lock, gen, open, history>> /\ task[x].pc = "remove"
      BY <1>5 DEF RemoveVictim, sinks
    <2>1. Goto(x, "evict") /\ map' = [map EXCEPT ![task[x].victim.id] = NoEntry]
      BY <1>5 DEF RemoveVictim
    <2>2. task[x].victim \in Element BY <2>u DEF QInv, QueueTyped
    <2>3. evicted' \subseteq Ids BY <1>5, <1>q, <2>2 DEF RemoveVictim, Element
    <2> QED BY <2>u, <2>1, <2>3, <1>g, VictimMove DEF Pcs
  <1>6. CASE Compact(x)
    <2>1. Goto(x, "work") BY <1>6 DEF Compact
    <2> QED BY <1>6, <2>1, <1>g, CompactMove DEF Pcs
  <1> QED BY <1>1, <1>2, <1>3, <1>4, <1>5, <1>6 DEF TryAdmit

\* The handler behind try_admit, and deliveries
LEMMA HandleQueue ==
  ASSUME DInv, QInv, NEW x \in Handlers, Handle(x) \/ \E id \in Ids : Deliver(x, id)
  PROVE  QInv'
  <1>t. TasksTyped /\ 0 \in 0 .. MaxAdmits /\ gen \in 0 .. MaxAdmits /\ MaxAdmits \in Nat
        /\ map \in [Ids -> [state: {"none", "inflight", "done"}, gen: 0 .. MaxAdmits]]
    BY Types DEF DInv, Entries
  <1>q. /\ open \in BOOLEAN /\ history \subseteq Ids
        /\ task[x].victim \in Element \cup {NoElement}
    BY DEF QInv, QueueTyped
  <1>i. task[x].pc # "idle" => task[x].id \in Ids BY DEF DInv, Core, HandlerShape
  <1>s. MarkDone(task[x].id) \/ RemoveId(task[x].id) \/ UNCHANGED map => Shrinks
    <2>1. CASE MarkDone(task[x].id) BY <2>1, <1>t DEF MarkDone, Shrinks, NoEntry
    <2>2. CASE RemoveId(task[x].id) BY <2>2, <1>t DEF RemoveId, Shrinks
    <2>3. CASE UNCHANGED map BY <2>3 DEF Shrinks
    <2> QED BY <2>1, <2>2, <2>3
  <1>1. ASSUME Finish(x), task[x].pc \notin Inside, Shrinks,
               UNCHANGED <<order, lock, gen, open, history, evicted>>
        PROVE  QInv'
    <2>1. Alone(x) /\ task'[x] = IdleTask BY <1>t, <1>1, FinishFacts, MovedRecord
    <2>2. task'[x].pc = "idle" /\ task'[x].victim = NoElement BY <2>1 DEF IdleTask
    <2>3. task'[x].pc \in Pcs \ Inside BY <2>2 DEF Inside, Pcs
    <2> QED BY <2>1, <2>2, <2>3, <1>1, <1>q, OutsideMove
  <1>2. ASSUME NEW pc \in {"forward", "mark", "report"}, Goto(x, pc), task[x].pc \notin Inside, Shrinks,
               UNCHANGED <<order, lock, gen, open, evicted>>, history' \subseteq Ids
        PROVE  QInv'
    <2>1. /\ Alone(x) /\ task'[x].pc = pc /\ task'[x].victim = task[x].victim
      BY <1>t, <1>2, GotoFacts, MovedRecord DEF Pcs
    <2>3. task'[x].pc \in Pcs \ Inside /\ task'[x].pc # "admit" BY <2>1 DEF Inside, Pcs
    <2> QED BY <2>1, <2>3, <1>2, <1>q, OutsideMove
  <1>3. CASE Ignore(x) \/ Transient(x) BY <1>1, <1>3, <1>s DEF Ignore, Transient, sinks, Inside
  <1>4. CASE Persist(x)
    <2>1. history' \subseteq Ids BY <1>4, <1>q, <1>i DEF Persist
    <2> QED BY <1>2, <1>4, <1>s, <2>1 DEF Persist, cache, Inside
  <1>5. CASE Forward(x)
    <2>1. CASE Goto(x, "mark") /\ UNCHANGED map
      BY <1>2, <1>5, <1>s, <1>q, <2>1 DEF Forward, Inside
    <2>2. CASE RemoveId(task[x].id) /\ Finish(x) BY <1>1, <1>5, <1>s, <2>2 DEF Forward, Inside
    <2> QED BY <1>5, <2>1, <2>2 DEF Forward
  <1>6. CASE Mark(x) BY <1>2, <1>6, <1>s, <1>q DEF Mark, sinks, Inside
  <1>7. CASE Report(x) BY <1>1, <1>7, <1>s DEF Report, cache, Inside
  <1>8. ASSUME NEW id \in Ids, Deliver(x, id) PROVE QInv'
    <2>1. /\ task[x].pc = "idle" /\ gen' = gen + 1 /\ gen + 1 \in 0 .. MaxAdmits
          /\ task' = [task EXCEPT ![x] = [pc |-> "admit", id |-> id, gen |-> gen + 1, victim |-> NoElement]]
          /\ UNCHANGED <<map, order, lock, open, history, evicted>>
      BY <1>8, <1>t DEF Deliver, sinks
    <2>2. Alone(x) /\ task'[x].pc = "admit" /\ task'[x].gen = gen + 1
      <3>1. "admit" \in Pcs /\ id \in Ids \cup {Nobody} BY DEF Pcs
      <3> QED BY <2>1, <3>1, <1>t, PutFacts
    <2>3. task'[x].victim = NoElement
      <3>1. task = [y \in Handlers |-> task[y]] BY <1>t DEF TasksTyped
      <3>2. task'[x] = [pc |-> "admit", id |-> id, gen |-> gen + 1, victim |-> NoElement] BY <2>1, <3>1
      <3> QED BY <3>2
    <2>4. task[x].pc \notin Inside /\ task'[x].pc \in Pcs \ Inside BY <2>1, <2>2 DEF Inside, Pcs
    <2> QED BY <2>1, <2>2, <2>3, <2>4, <1>s, <1>q, OutsideMove
  <1> QED BY <1>3, <1>4, <1>5, <1>6, <1>7, <1>8 DEF Handle

\* An empty queue, and nobody at the lock
LEMMA InitQueue == Init => QInv
  <1> SUFFICES ASSUME Init PROVE QInv OBVIOUS
  <1>1. \A x \in Handlers : task[x].pc = "idle" /\ task[x].victim = NoElement BY DEF Init, IdleTask
  <1>2. order = <<>> /\ lock = Nobody /\ DOMAIN order = {} /\ Len(order) = 0 /\ Live = {}
    BY DEF Init, Live
  <1>3. QueueTyped BY <1>1 DEF Init, QueueTyped
  <1>4. LockHeld BY <1>1, <1>2, DedupAssumption DEF LockHeld, Holder
  <1>5. ElementsDiffer BY <1>1, <1>2 DEF ElementsDiffer
  <1>6. LiveEntryOrdered BY <1>2 DEF LiveEntryOrdered
  <1>7. BoundedAtRest BY <1>2, FS_EmptySet, DedupAssumption DEF BoundedAtRest
  <1>8. QueuedBounded BY <1>1 DEF QueuedBounded
  <1>9. OrderBounded BY <1>2, DedupAssumption DEF OrderBounded
  <1> QED BY <1>3, <1>4, <1>5, <1>6, <1>7, <1>8, <1>9 DEF QInv

\* The inductive invariant of the cache with its order queue.
CInv == DInv /\ QInv

\* The order queue, its lock and the entries agree about what can be evicted.
THEOREM QueueInvariant == Spec => []CInv
  <1>1. CInv /\ [Next]_vars => CInv'
    <2> SUFFICES ASSUME CInv, [Next]_vars PROVE CInv' OBVIOUS
    <2>0. DInv /\ QInv BY DEF CInv
    <2>1. CASE UNCHANGED vars
      <3>1. UNCHANGED <<map, order, lock, gen, task, open, forwarded, history, seen, evicted>>
        BY <2>1 DEF vars, cache, sinks
      <3>2. DInv' BY <2>0, <3>1, QuietKeeps
      <3>3. QInv'
        BY <2>0, <3>1 DEF QInv, QueueTyped, LockHeld, Holder, ElementsDiffer, LiveEntryOrdered, Live,
              BoundedAtRest, QueuedBounded, Queued, ElementOf, OrderBounded
      <3> QED BY <3>2, <3>3 DEF CInv
    <2>2. CASE CloseInbound
      <3>1. UNCHANGED <<map, order, lock, gen, task, history, evicted>> /\ open' \in BOOLEAN
        BY <2>2 DEF CloseInbound, cache
      <3>2. QInv'
        BY <2>0, <3>1 DEF QInv, QueueTyped, LockHeld, Holder, ElementsDiffer, LiveEntryOrdered, Live,
              BoundedAtRest, QueuedBounded, Queued, ElementOf, OrderBounded
      <3> QED BY <2>0, <2>2, <3>2, ArrivalPreserves DEF CInv
    <2>3. ASSUME NEW x \in Handlers, TryAdmit(x) \/ Handle(x) \/ \E id \in Ids : Deliver(x, id)
          PROVE  CInv'
      BY <2>0, <2>3, AdmitPreserves, HandlePreserves, ArrivalPreserves, AdmitQueue, HandleQueue DEF CInv
    <2> QED BY <2>1, <2>2, <2>3 DEF Next
  <1>2. Init => CInv BY InitDInv, InitQueue DEF CInv
  <1> QED BY <1>1, <1>2, PTL DEF Spec

\* Whatever evictions, failures and redeliveries race in it, every entry can still be
\* evicted, the cache and its order queue come back under their bounds, an id in
\* flight has its handler, and only what was handed on is scheduled as read.
THEOREM CacheIsConsistent == Spec => []CacheConsistent
  <1>1. ASSUME CInv PROVE TypeOK
    <2>0. Typed /\ QueueTyped /\ TasksTyped BY <1>1 DEF CInv, DInv, QInv, Typed
    <2>1. task \in [Handlers -> [pc: Pcs, id: Ids \cup {Nobody}, gen: 0 .. MaxAdmits,
                                 victim: Element \cup {NoElement}]]
      BY <2>0 DEF TasksTyped, QueueTyped
    <2> QED BY <2>0, <2>1 DEF Typed, QueueTyped, TypeOK, Entries
  <1>2. CInv => CacheConsistent BY <1>1 DEF CInv, DInv, Core, QInv, CacheConsistent
  <1> QED BY <1>2, QueueInvariant, PTL

----------------------------------------------------------------------------
(* The read receipts *)

\* Where a message may be: in the channel, in its key's batch, in a batch that is
\* being sent.
InChannel(m) == \E i \in DOMAIN channel : channel[i].op = "seen" /\ channel[i].msg = m
InPending(m) == In(m, pending[KeyOf[m]])
InTodo(m) == \E b \in sched.todo : In(m, b.ids)

\* A message that was reported is in one of the places, and one that was not in none.
OnePlace(m) ==
    /\ m \in reported <=> InChannel(m) \/ InPending(m) \/ InTodo(m) \/ m \in Attempted
    /\ ~(InChannel(m) /\ (InPending(m) \/ InTodo(m) \/ m \in Attempted))
    /\ ~(InPending(m) /\ (InTodo(m) \/ m \in Attempted))
    /\ ~(InTodo(m) /\ m \in Attempted)

\* In its place it is once, and under its key.
SeenOnce == \A i, j \in DOMAIN channel :
    channel[i].op = "seen" /\ channel[j].op = "seen" /\ channel[i].msg = channel[j].msg => i = j
KeyedPending == \A k \in Key : \A m \in Msgs : In(m, pending[k]) => k = KeyOf[m]
KeyedTodo ==
    /\ \A b \in sched.todo : \A m \in Msgs : In(m, b.ids) => b.key = KeyOf[m]
    /\ \A b, c \in sched.todo : b.key = c.key => b = c
ReceiptOnce == \A b, c \in receipts : \A m \in Msgs : In(m, b.ids) /\ In(m, c.ids) => b = c

\* The task that waits in the select has nothing to send and nobody to answer.
SchedShape == sched.pc # "sending" => sched.todo = {} /\ sched.ack = NoOne

\* A flush in the channel, or being done, has its caller waiting for it, once.
FlushWaits ==
    /\ \A i, j \in DOMAIN channel :
           channel[i].op = "flush" /\ channel[j].op = "flush" /\ channel[i].ack = channel[j].ack => i = j
    /\ \A i \in DOMAIN channel : channel[i].op = "flush" =>
           /\ reply[channel[i].ack].pc = "waiting" /\ reply[channel[i].ack].chat = channel[i].chat
           /\ sched.ack # channel[i].ack
    /\ sched.ack # NoOne => reply[sched.ack].pc = "waiting"

\* What a waiting caller will be told is true: what was reported before its call is
\* ahead of its flush, or the flush has it among its batches.
Ahead(r) == \E i \in DOMAIN channel :
    /\ channel[i].op = "flush" /\ channel[i].ack = r
    /\ \A m \in reply[r].before : \A j \in DOMAIN channel :
           channel[j].op = "seen" /\ channel[j].msg = m => j < i
Covered(r) == \A m \in reply[r].before :
    KeyOf[m].chat = reply[r].chat => m \in Attempted \/ InTodo(m)
WaitersServed ==
    \A r \in Repliers :
        /\ reply[r].before \subseteq reported
        /\ reply[r].pc = "waiting" => Ahead(r) \/ (sched.ack = r /\ Covered(r))

RInv ==
    /\ ReceiptsTyped
    /\ \A m \in Msgs : OnePlace(m)
    /\ SeenOnce /\ KeyedPending /\ KeyedTodo /\ ReceiptOnce /\ ReceiptsNameTheirSender
    /\ SchedShape
    /\ FlushWaits
    /\ WaitersServed
    /\ FlushCovers

Commands == SeenCmd \cup FlushCmd \cup ClientCmd

\* Lookups in the sequences a bounded channel goes through.
LEMMA EnqueueFacts ==
  ASSUME NEW S, NEW s \in Seq(S), NEW e \in S
  PROVE  /\ Append(s, e) \in Seq(S) /\ Len(s) \in Nat /\ Len(Append(s, e)) = Len(s) + 1
         /\ DOMAIN s = 1 .. Len(s) /\ DOMAIN Append(s, e) = 1 .. Len(s) + 1
         /\ Append(s, e)[Len(s) + 1] = e
         /\ \A i \in DOMAIN s : Append(s, e)[i] = s[i] /\ s[i] \in S
  OBVIOUS

LEMMA DequeueFacts ==
  ASSUME NEW S, NEW s \in Seq(S), s # <<>>
  PROVE  /\ Tail(s) \in Seq(S) /\ Len(s) \in Nat /\ Len(Tail(s)) = Len(s) - 1
         /\ Head(s) = s[1] /\ s[1] \in S /\ 1 \in DOMAIN s
         /\ DOMAIN s = 1 .. Len(s) /\ DOMAIN Tail(s) = 1 .. Len(s) - 1
         /\ \A i \in DOMAIN Tail(s) : i \in Nat /\ i + 1 \in DOMAIN s /\ Tail(s)[i] = s[i + 1]
         /\ \A i \in DOMAIN s : i = 1 \/ (i - 1 \in DOMAIN Tail(s) /\ Tail(s)[i - 1] = s[i])
  OBVIOUS

\* A command that is appended is found again, and so are the ones before it.
LEMMA InAppend ==
  ASSUME NEW S, NEW s \in Seq(S), NEW e \in S, NEW m
  PROVE  /\ In(m, Append(s, e)) <=> In(m, s) \/ e = m
         /\ ~In(m, <<>>)
  <1>1. /\ DOMAIN s = 1 .. Len(s) /\ DOMAIN Append(s, e) = 1 .. Len(s) + 1 /\ Len(s) \in Nat
        /\ Append(s, e)[Len(s) + 1] = e /\ \A i \in DOMAIN s : Append(s, e)[i] = s[i]
    BY EnqueueFacts
  <1>2. \A i \in 1 .. Len(s) + 1 : i \in 1 .. Len(s) \/ i = Len(s) + 1 BY <1>1
  <1>3. Len(s) + 1 \in 1 .. Len(s) + 1 /\ 1 .. Len(s) \subseteq 1 .. Len(s) + 1 BY <1>1
  <1>4. ASSUME In(m, Append(s, e)) PROVE In(m, s) \/ e = m
    <2>1. PICK i \in 1 .. Len(s) + 1 : Append(s, e)[i] = m BY <1>1, <1>4 DEF In
    <2> QED BY <2>1, <1>1, <1>2 DEF In
  <1>5. ASSUME In(m, s) \/ e = m PROVE In(m, Append(s, e))
    <2>1. CASE In(m, s) BY <2>1, <1>1, <1>3 DEF In
    <2>2. CASE e = m BY <2>2, <1>1, <1>3 DEF In
    <2> QED BY <1>5, <2>1, <2>2
  <1>6. ~In(m, <<>>) BY DEF In
  <1> QED BY <1>4, <1>5, <1>6

\* The types, one fact at a time.
LEMMA CommandTypes ==
  ASSUME ReceiptsTyped
  PROVE  /\ channel \in Seq(Commands)
         /\ \A i \in DOMAIN channel :
                /\ channel[i] \in Commands
                /\ channel[i].op = "seen" => channel[i].msg \in Msgs
                /\ channel[i].op = "flush" => channel[i].chat \in Jids /\ channel[i].ack \in Repliers
                /\ channel[i].op = "client" => channel[i].some \in BOOLEAN
  <1>1. channel \in Seq(Commands) BY DEF ReceiptsTyped, Commands
  <1>2. \A i \in DOMAIN channel : channel[i] \in Commands BY <1>1
  <1>3. \A c \in Commands : /\ c.op = "seen" => c.msg \in Msgs
                            /\ c.op = "flush" => c.chat \in Jids /\ c.ack \in Repliers
                            /\ c.op = "client" => c.some \in BOOLEAN
    BY DEF Commands, SeenCmd, FlushCmd, ClientCmd
  <1> QED BY <1>1, <1>2, <1>3

LEMMA KeyTypes ==
  ASSUME NEW m \in Msgs
  PROVE  KeyOf[m] \in Key /\ KeyOf[m].chat \in Jids
  BY ReceiptsAssumption DEF Key

\* A new command behind the others, and nothing else that places look at.
LEMMA Enqueued ==
  ASSUME RInv, NEW cmd \in Commands, Send(cmd),
         UNCHANGED <<pending, sched, receipts>>
  PROVE  /\ channel' \in Seq(Commands) /\ Len(channel') <= ChannelCapacity
         /\ cmd.op # "seen" \/ ~InChannel(cmd.msg) => SeenOnce'
         /\ \A m : InChannel(m)' <=> InChannel(m) \/ (cmd.op = "seen" /\ cmd.msg = m)
         /\ \A m : /\ InPending(m)' = InPending(m) /\ InTodo(m)' = InTodo(m)
         /\ Attempted' = Attempted
  <1>c. channel \in Seq(Commands) BY CommandTypes DEF RInv
  <1>1. /\ channel' = Append(channel, cmd) /\ Len(channel) < ChannelCapacity
    BY DEF Send
  <1> DEFINE n == Len(channel)
  <1>2. /\ channel' \in Seq(Commands) /\ n \in Nat /\ Len(channel') = n + 1
        /\ DOMAIN channel = 1 .. n /\ DOMAIN channel' = 1 .. n + 1
        /\ channel'[n + 1] = cmd /\ \A i \in DOMAIN channel : channel'[i] = channel[i]
    BY <1>1, <1>c, EnqueueFacts
  <1>3. Len(channel') <= ChannelCapacity BY <1>1, <1>2, ReceiptsAssumption
  <1> HIDE DEF n
  <1>4. ASSUME NEW m PROVE InChannel(m)' <=> InChannel(m) \/ (cmd.op = "seen" /\ cmd.msg = m)
    <2>1. InChannel(m)' => InChannel(m) \/ (cmd.op = "seen" /\ cmd.msg = m)
      BY <1>2 DEF InChannel
    <2>2. InChannel(m) => InChannel(m)' BY <1>2 DEF InChannel
    <2>3. cmd.op = "seen" /\ cmd.msg = m => InChannel(m)' BY <1>2 DEF InChannel
    <2> QED BY <2>1, <2>2, <2>3
  <1>5. ASSUME cmd.op # "seen" \/ ~InChannel(cmd.msg) PROVE SeenOnce'
    <2>1. \A i \in 1 .. n : channel[i].op = "seen" /\ cmd.op = "seen" => channel[i].msg # cmd.msg
      BY <1>2, <1>5 DEF InChannel
    <2> QED BY <1>2, <2>1 DEF RInv, SeenOnce
  <1>6. \A m : InPending(m)' = InPending(m) /\ InTodo(m)' = InTodo(m) BY DEF InPending, InTodo
  <1>7. Attempted' = Attempted BY DEF Attempted
  <1> QED BY <1>2, <1>3, <1>4, <1>5, <1>6, <1>7

\* What a step that leaves the batches and their takers alone keeps.
BatchParts == KeyedPending /\ KeyedTodo /\ ReceiptOnce /\ ReceiptsNameTheirSender /\ SchedShape

LEMMA BatchesStay ==
  ASSUME BatchParts, UNCHANGED <<pending, sched, receipts>>
  PROVE  BatchParts'
  BY DEF BatchParts, KeyedPending, KeyedTodo, ReceiptOnce, ReceiptsNameTheirSender, SchedShape, In

\* The waiting callers, when a command goes in behind theirs.
LEMMA WaitersBehind ==
  ASSUME RInv, NEW cmd \in Commands, Send(cmd),
         UNCHANGED <<pending, sched, receipts>>,
         reported \subseteq reported',
         cmd.op = "seen" => cmd.msg \notin reported,
         NEW r \in Repliers, reply'[r] = reply[r]
  PROVE  /\ reply'[r].before \subseteq reported'
         /\ reply'[r].pc = "waiting" => Ahead(r)' \/ (sched'.ack = r /\ Covered(r)')
  <1>c. channel \in Seq(Commands) BY CommandTypes DEF RInv
  <1> DEFINE n == Len(channel)
  <1>2. /\ n \in Nat /\ DOMAIN channel = 1 .. n /\ DOMAIN channel' = 1 .. n + 1
        /\ channel'[n + 1] = cmd /\ \A i \in DOMAIN channel : channel'[i] = channel[i]
    BY <1>c, EnqueueFacts DEF Send
  <1> HIDE DEF n
  <1>3. /\ reply[r].before \subseteq reported
        /\ reply[r].pc = "waiting" => Ahead(r) \/ (sched.ack = r /\ Covered(r))
    BY DEF RInv, WaitersServed
  <1>4. ASSUME Ahead(r) PROVE Ahead(r)'
    <2>1. PICK i \in DOMAIN channel :
            /\ channel[i].op = "flush" /\ channel[i].ack = r
            /\ \A m \in reply[r].before : \A j \in DOMAIN channel :
                   channel[j].op = "seen" /\ channel[j].msg = m => j < i
      BY <1>4 DEF Ahead
    <2>2. i \in DOMAIN channel' /\ channel'[i] = channel[i] BY <1>2
    <2>3. ASSUME NEW m \in reply[r].before, NEW j \in DOMAIN channel',
                 channel'[j].op = "seen", channel'[j].msg = m
          PROVE  j < i
      <3>1. j \in DOMAIN channel BY <1>2, <1>3, <2>3
      <3> QED BY <3>1, <1>2, <2>1, <2>3
    <2> QED BY <2>1, <2>2, <2>3 DEF Ahead
  <1>5. Covered(r) => Covered(r)' BY DEF Covered, InTodo, Attempted
  <1> QED BY <1>3, <1>4, <1>5

\* A message is reported: it enters the channel, and was nowhere before.
LEMMA SeenKeeps == ASSUME RInv, NEW m \in Msgs, Seen(m) PROVE RInv'
  <1> DEFINE cmd == [op |-> "seen", msg |-> m]
  <1>1. /\ cmd \in Commands /\ Send(cmd) /\ m \notin reported /\ reported' = reported \cup {m}
        /\ UNCHANGED <<attached, pending, client, sched, switches, reply, receipts>>
        /\ cmd.op = "seen" /\ cmd.msg = m
    BY DEF Seen, Commands, SeenCmd
  <1>c. channel \in Seq(Commands) BY CommandTypes DEF RInv
  <1>s. /\ DOMAIN channel' = 1 .. Len(channel) + 1 /\ DOMAIN channel = 1 .. Len(channel)
        /\ Len(channel) \in Nat /\ channel'[Len(channel) + 1] = cmd
        /\ \A i \in DOMAIN channel : channel'[i] = channel[i]
    BY <1>1, <1>c, EnqueueFacts DEF Send
  <1> HIDE DEF cmd
  <1>2. /\ channel' \in Seq(Commands) /\ Len(channel') <= ChannelCapacity
        /\ ~InChannel(m) => SeenOnce'
        /\ \A l : InChannel(l)' <=> InChannel(l) \/ m = l
        /\ \A l : InPending(l)' = InPending(l) /\ InTodo(l)' = InTodo(l)
        /\ Attempted' = Attempted
    BY <1>1, Enqueued
  <1>3. ReceiptsTyped' BY <1>1, <1>2 DEF RInv, ReceiptsTyped, Commands
  <1>4. ~InChannel(m) /\ ~InPending(m) /\ ~InTodo(m) /\ m \notin Attempted BY <1>1 DEF RInv, OnePlace
  <1>5. ASSUME NEW l \in Msgs PROVE OnePlace(l)'
    <2>1. OnePlace(l) BY DEF RInv
    <2>2. CASE l = m BY <2>2, <1>1, <1>2, <1>4 DEF OnePlace
    <2>3. CASE l # m BY <2>1, <2>3, <1>1, <1>2 DEF OnePlace
    <2> QED BY <2>2, <2>3
  <1>6. BatchParts' BY <1>1, BatchesStay DEF RInv, BatchParts
  <1>7. FlushWaits'
    <2>1. \A i \in DOMAIN channel' : channel'[i].op = "flush" =>
              i \in DOMAIN channel /\ channel'[i] = channel[i]
      BY <1>s, <1>1
    <2> QED BY <1>1, <2>1 DEF RInv, FlushWaits
  <1>8. WaitersServed' BY <1>1, WaitersBehind DEF WaitersServed
  <1>9. FlushCovers' BY <1>1, <1>2 DEF RInv, FlushCovers
  <1> QED BY <1>2, <1>3, <1>4, <1>5, <1>6, <1>7, <1>8, <1>9 DEF RInv, BatchParts

\* The client comes or goes: a command on its way.
LEMMA ClientKeeps == ASSUME RInv, NEW some \in BOOLEAN, SetClient(some) PROVE RInv'
  <1> DEFINE cmd == [op |-> "client", some |-> some]
  <1>1. /\ cmd \in Commands /\ Send(cmd) /\ switches < MaxSwitches /\ switches' = switches + 1
        /\ UNCHANGED <<attached, pending, client, sched, reply, reported, receipts>>
        /\ cmd.op = "client"
    BY DEF SetClient, Commands, ClientCmd
  <1>c. channel \in Seq(Commands) BY CommandTypes DEF RInv
  <1>s. /\ DOMAIN channel' = 1 .. Len(channel) + 1 /\ DOMAIN channel = 1 .. Len(channel)
        /\ Len(channel) \in Nat /\ channel'[Len(channel) + 1] = cmd
        /\ \A i \in DOMAIN channel : channel'[i] = channel[i]
    BY <1>1, <1>c, EnqueueFacts DEF Send
  <1> HIDE DEF cmd
  <1>2. /\ channel' \in Seq(Commands) /\ Len(channel') <= ChannelCapacity
        /\ SeenOnce'
        /\ \A l : InChannel(l)' <=> InChannel(l)
        /\ \A l : InPending(l)' = InPending(l) /\ InTodo(l)' = InTodo(l)
        /\ Attempted' = Attempted
    BY <1>1, Enqueued
  <1>n. switches' \in 0 .. MaxSwitches BY <1>1, ReceiptsAssumption DEF RInv, ReceiptsTyped
  <1>3. ReceiptsTyped' BY <1>1, <1>2, <1>n DEF RInv, ReceiptsTyped, Commands
  <1>5. ASSUME NEW l \in Msgs PROVE OnePlace(l)'
    <2>1. OnePlace(l) BY DEF RInv
    <2> QED BY <2>1, <1>1, <1>2 DEF OnePlace
  <1>6. BatchParts' BY <1>1, BatchesStay DEF RInv, BatchParts
  <1>7. FlushWaits'
    <2>1. \A i \in DOMAIN channel' : channel'[i].op = "flush" =>
              i \in DOMAIN channel /\ channel'[i] = channel[i]
      BY <1>s, <1>1
    <2> QED BY <1>1, <2>1 DEF RInv, FlushWaits
  <1>8. WaitersServed' BY <1>1, WaitersBehind DEF WaitersServed
  <1>9. FlushCovers' BY <1>1, <1>2 DEF RInv, FlushCovers
  <1> QED BY <1>2, <1>3, <1>5, <1>6, <1>7, <1>8, <1>9 DEF RInv, BatchParts

\* A caller flushes a chat: everything reported so far is ahead of its command.
LEMMA FlushKeeps ==
  ASSUME RInv, NEW r \in Repliers, NEW chat \in Jids, FlushChat(r, chat)
  PROVE  RInv'
  <1> DEFINE cmd == [op |-> "flush", chat |-> chat, ack |-> r]
             mine == [pc |-> "waiting", chat |-> chat, before |-> reported]
  <1>1. /\ cmd \in Commands /\ Send(cmd) /\ reply[r].pc = "idle"
        /\ reply' = [reply EXCEPT ![r] = mine]
        /\ UNCHANGED <<attached, pending, client, sched, switches, reported, receipts>>
        /\ cmd.op = "flush" /\ cmd.ack = r /\ cmd.chat = chat
    BY DEF FlushChat, Commands, FlushCmd, inputs
  <1>c. channel \in Seq(Commands) BY CommandTypes DEF RInv
  <1>t. /\ reply \in [Repliers -> [pc: ReplyPcs, chat: Jids \cup {NoOne}, before: SUBSET Msgs]]
        /\ reported \subseteq Msgs
    BY DEF RInv, ReceiptsTyped
  <1>r. /\ reply'[r].pc = "waiting" /\ reply'[r].chat = chat /\ reply'[r].before = reported
        /\ \A x \in Repliers \ {r} : reply'[x] = reply[x]
    BY <1>1, <1>t
  <1>m. reply' \in [Repliers -> [pc: ReplyPcs, chat: Jids \cup {NoOne}, before: SUBSET Msgs]]
    <2>1. mine \in [pc: ReplyPcs, chat: Jids \cup {NoOne}, before: SUBSET Msgs] BY <1>t DEF ReplyPcs
    <2> QED BY <1>1, <1>t, <2>1
  <1>s. /\ DOMAIN channel' = 1 .. Len(channel) + 1 /\ DOMAIN channel = 1 .. Len(channel)
        /\ Len(channel) \in Nat /\ channel'[Len(channel) + 1] = cmd
        /\ \A i \in DOMAIN channel : channel'[i] = channel[i]
    BY <1>1, <1>c, EnqueueFacts DEF Send
  <1> HIDE DEF cmd, mine
  <1>2. /\ channel' \in Seq(Commands) /\ Len(channel') <= ChannelCapacity
        /\ SeenOnce'
        /\ \A l : InChannel(l)' <=> InChannel(l)
        /\ \A l : InPending(l)' = InPending(l) /\ InTodo(l)' = InTodo(l)
        /\ Attempted' = Attempted
    BY <1>1, Enqueued
  <1>3. ReceiptsTyped' BY <1>1, <1>2, <1>m DEF RInv, ReceiptsTyped, Commands
  <1>5. ASSUME NEW l \in Msgs PROVE OnePlace(l)'
    <2>1. OnePlace(l) BY DEF RInv
    <2> QED BY <2>1, <1>1, <1>2 DEF OnePlace
  <1>6. BatchParts' BY <1>1, BatchesStay DEF RInv, BatchParts
  <1>7. FlushWaits'
    <2>0. FlushWaits BY DEF RInv
    <2>1. \A i \in DOMAIN channel : channel[i].op = "flush" => channel[i].ack # r
      BY <2>0, <1>1 DEF FlushWaits
    <2>2. sched.ack # r
      <3>1. r # NoOne BY ReceiptsAssumption
      <3> QED BY <3>1, <2>0, <1>1 DEF FlushWaits
    <2>3. \A i, j \in DOMAIN channel' :
            channel'[i].op = "flush" /\ channel'[j].op = "flush" /\ channel'[i].ack = channel'[j].ack => i = j
      BY <2>0, <2>1, <1>s, <1>1 DEF FlushWaits
    <2>4. ASSUME NEW i \in DOMAIN channel', channel'[i].op = "flush"
          PROVE  /\ reply'[channel'[i].ack].pc = "waiting" /\ reply'[channel'[i].ack].chat = channel'[i].chat
                 /\ sched.ack # channel'[i].ack
      <3>1. CASE i \in DOMAIN channel
        <4>1. channel'[i] = channel[i] /\ channel[i].ack \in Repliers /\ channel[i].ack # r
          BY <3>1, <2>1, <2>4, <1>s, CommandTypes DEF RInv
        <4> QED BY <4>1, <3>1, <2>0, <2>4, <1>r DEF FlushWaits
      <3>2. CASE i = Len(channel) + 1 BY <3>2, <2>2, <1>s, <1>1, <1>r
      <3> QED BY <3>1, <3>2, <1>s
    <2>5. sched.ack # NoOne => reply'[sched.ack].pc = "waiting"
      <3>1. sched.ack \in Repliers \cup {NoOne} BY DEF RInv, ReceiptsTyped
      <3> QED BY <3>1, <2>0, <2>2, <1>r DEF FlushWaits
    <2> QED BY <2>3, <2>4, <2>5, <1>1 DEF FlushWaits
  <1>8. WaitersServed'
    <2>1. Ahead(r)'
      <3>1. \A j \in DOMAIN channel' : channel'[j].op = "seen" => j < Len(channel) + 1 BY <1>s, <1>1
      <3>2. Len(channel) + 1 \in DOMAIN channel' BY <1>s
      <3> QED BY <3>1, <3>2, <1>s, <1>1 DEF Ahead
    <2>2. \A x \in Repliers \ {r} :
             /\ reply'[x].before \subseteq reported'
             /\ reply'[x].pc = "waiting" => Ahead(x)' \/ (sched'.ack = x /\ Covered(x)')
      BY <1>1, <1>r, WaitersBehind
    <2> QED BY <2>1, <2>2, <1>1, <1>r DEF WaitersServed
  <1>9. FlushCovers'
    <2> SUFFICES ASSUME NEW x \in Repliers, reply'[x].pc = "flushed", NEW m \in reply'[x].before,
                        KeyOf[m].chat = reply'[x].chat
                 PROVE  m \in Attempted'
      BY DEF FlushCovers
    <2>1. x # r BY <1>r
    <2> QED BY <2>1, <1>r, <1>2 DEF RInv, FlushCovers
  <1> QED BY <1>2, <1>3, <1>5, <1>6, <1>7, <1>8, <1>9 DEF RInv, BatchParts

\* The oldest command leaves the channel.
LEMMA Dequeued ==
  ASSUME RInv, NEW op, Recv(op)
  PROVE  /\ channel # <<>> /\ Head(channel) \in Commands /\ Head(channel).op = op
         /\ 1 \in DOMAIN channel /\ Head(channel) = channel[1]
         /\ channel' \in Seq(Commands) /\ Len(channel') <= ChannelCapacity
         /\ SeenOnce'
         /\ \A m : InChannel(m) <=> InChannel(m)' \/ (op = "seen" /\ Head(channel).msg = m)
         /\ \A m : op = "seen" /\ Head(channel).msg = m => m \in Msgs /\ ~InChannel(m)'
         /\ op = "flush" => Head(channel).chat \in Jids /\ Head(channel).ack \in Repliers
         /\ op = "client" => Head(channel).some \in BOOLEAN
         /\ \A i \in DOMAIN channel' : i \in Nat /\ i + 1 \in DOMAIN channel /\ channel'[i] = channel[i + 1]
         /\ \A i \in DOMAIN channel : /\ i \in Nat
                                      /\ i = 1 \/ (i - 1 \in DOMAIN channel' /\ channel'[i - 1] = channel[i])
  <1>c. channel \in Seq(Commands) /\ Len(channel) <= ChannelCapacity
    BY CommandTypes DEF RInv, ReceiptsTyped
  <1>1. channel # <<>> /\ Head(channel).op = op /\ channel' = Tail(channel) BY DEF Recv
  <1>2. /\ channel' \in Seq(Commands) /\ Len(channel) \in Nat /\ Len(channel') = Len(channel) - 1
        /\ Head(channel) = channel[1] /\ channel[1] \in Commands /\ 1 \in DOMAIN channel
        /\ DOMAIN channel = 1 .. Len(channel)
        /\ \A i \in DOMAIN channel' : i \in Nat /\ i + 1 \in DOMAIN channel /\ channel'[i] = channel[i + 1]
        /\ \A i \in DOMAIN channel : i = 1 \/ (i - 1 \in DOMAIN channel' /\ channel'[i - 1] = channel[i])
    BY <1>1, <1>c, DequeueFacts
  <1>i. \A i \in DOMAIN channel : i \in Nat BY <1>2
  <1>3. Len(channel') <= ChannelCapacity BY <1>2, <1>c, ReceiptsAssumption
  <1>4. SeenOnce'
    <2> SUFFICES ASSUME NEW i \in DOMAIN channel', NEW j \in DOMAIN channel',
                        channel'[i].op = "seen", channel'[j].op = "seen", channel'[i].msg = channel'[j].msg
                 PROVE  i = j
      BY DEF SeenOnce
    <2>1. i + 1 = j + 1 BY <1>2 DEF RInv, SeenOnce
    <2> QED BY <2>1, <1>2
  <1>5. ASSUME NEW m PROVE InChannel(m) <=> InChannel(m)' \/ (op = "seen" /\ Head(channel).msg = m)
    <2>1. InChannel(m) => InChannel(m)' \/ (op = "seen" /\ Head(channel).msg = m)
      <3> SUFFICES ASSUME InChannel(m) PROVE InChannel(m)' \/ (op = "seen" /\ Head(channel).msg = m)
        OBVIOUS
      <3>1. PICK i \in DOMAIN channel : channel[i].op = "seen" /\ channel[i].msg = m BY DEF InChannel
      <3>2. CASE i = 1 BY <3>1, <3>2, <1>1, <1>2
      <3>3. CASE i # 1
        <4>1. i - 1 \in DOMAIN channel' /\ channel'[i - 1] = channel[i] BY <3>3, <1>2
        <4> QED BY <3>1, <4>1 DEF InChannel
      <3> QED BY <3>2, <3>3
    <2>2. InChannel(m)' => InChannel(m)
      <3> SUFFICES ASSUME InChannel(m)' PROVE InChannel(m) OBVIOUS
      <3>1. PICK i \in DOMAIN channel' : channel'[i].op = "seen" /\ channel'[i].msg = m BY DEF InChannel
      <3>2. i + 1 \in DOMAIN channel /\ channel'[i] = channel[i + 1] BY <1>2
      <3> QED BY <3>1, <3>2 DEF InChannel
    <2>3. op = "seen" /\ Head(channel).msg = m => InChannel(m) BY <1>1, <1>2 DEF InChannel
    <2> QED BY <2>1, <2>2, <2>3
  <1>6. ASSUME NEW m, op = "seen", Head(channel).msg = m PROVE ~InChannel(m)'
    <2> SUFFICES ASSUME NEW i \in DOMAIN channel', channel'[i].op = "seen",
                        channel'[i].msg = m
                 PROVE  FALSE
      BY DEF InChannel
    <2>1. i \in Nat /\ i + 1 \in DOMAIN channel /\ channel'[i] = channel[i + 1] BY <1>2
    <2>2. i \in DOMAIN channel' /\ i # 0
      <3>1. DOMAIN channel' = 1 .. Len(channel') /\ Len(channel') \in Nat BY <1>2
      <3> QED BY <3>1
    <2>3. i + 1 = 1 BY <2>1, <1>1, <1>2, <1>6 DEF RInv, SeenOnce
    <2> QED BY <2>1, <2>2, <2>3
  <1>7. /\ op = "seen" => Head(channel).msg \in Msgs
        /\ op = "flush" => Head(channel).chat \in Jids /\ Head(channel).ack \in Repliers
        /\ op = "client" => Head(channel).some \in BOOLEAN
    BY <1>1, <1>2, CommandTypes DEF RInv
  <1> QED BY <1>1, <1>2, <1>i, <1>3, <1>4, <1>5, <1>6, <1>7

\* The flushes that are left, and whose they are not.
LEMMA FlushesLeft ==
  ASSUME RInv, NEW op, Recv(op)
  PROVE  /\ \A i, j \in DOMAIN channel' :
                channel'[i].op = "flush" /\ channel'[j].op = "flush" /\ channel'[i].ack = channel'[j].ack
                    => i = j
         /\ \A i \in DOMAIN channel' : channel'[i].op = "flush" =>
                /\ channel'[i].ack \in Repliers
                /\ reply[channel'[i].ack].pc = "waiting" /\ reply[channel'[i].ack].chat = channel'[i].chat
                /\ sched.ack # channel'[i].ack
                /\ op = "flush" => channel'[i].ack # Head(channel).ack
  <1>1. /\ Head(channel).op = op /\ 1 \in DOMAIN channel /\ Head(channel) = channel[1]
        /\ channel' \in Seq(Commands)
        /\ \A i \in DOMAIN channel' : i \in Nat /\ i + 1 \in DOMAIN channel /\ channel'[i] = channel[i + 1]
    BY Dequeued
  <1>d. \A i \in DOMAIN channel' : i # 0
    <2>1. DOMAIN channel' = 1 .. Len(channel') BY <1>1
    <2> QED BY <2>1, <1>1
  <1>2. FlushWaits BY DEF RInv
  <1>3. ASSUME NEW i \in DOMAIN channel', NEW j \in DOMAIN channel',
               channel'[i].op = "flush", channel'[j].op = "flush", channel'[i].ack = channel'[j].ack
        PROVE  i = j
    <2>1. i + 1 = j + 1 BY <1>1, <1>2, <1>3 DEF FlushWaits
    <2> QED BY <2>1, <1>1
  <1>4. ASSUME NEW i \in DOMAIN channel', channel'[i].op = "flush"
        PROVE  /\ channel'[i].ack \in Repliers
               /\ reply[channel'[i].ack].pc = "waiting" /\ reply[channel'[i].ack].chat = channel'[i].chat
               /\ sched.ack # channel'[i].ack
               /\ op = "flush" => channel'[i].ack # Head(channel).ack
    <2>1. i \in Nat /\ i # 0 /\ i + 1 \in DOMAIN channel /\ channel'[i] = channel[i + 1] BY <1>1, <1>d
    <2>2. channel[i + 1].ack \in Repliers BY <2>1, <1>4, CommandTypes DEF RInv
    <2>3. /\ reply[channel'[i].ack].pc = "waiting" /\ reply[channel'[i].ack].chat = channel'[i].chat
          /\ sched.ack # channel'[i].ack
      BY <2>1, <1>2, <1>4 DEF FlushWaits
    <2>4. op = "flush" => channel'[i].ack # Head(channel).ack
      <3> SUFFICES ASSUME op = "flush", channel'[i].ack = Head(channel).ack PROVE FALSE OBVIOUS
      <3>1. i + 1 = 1 BY <2>1, <1>1, <1>2, <1>4 DEF FlushWaits
      <3> QED BY <3>1, <2>1
    <2> QED BY <2>1, <2>2, <2>3, <2>4
  <1> QED BY <1>3, <1>4

\* A caller whose flush is not the command taken is as far as it was; the one whose
\* it is has nothing that it waits for left in the channel.
LEMMA AheadLeft ==
  ASSUME RInv, NEW op, Recv(op), NEW r \in Repliers, Ahead(r), reply'[r] = reply[r]
  PROVE  \/ Ahead(r)'
         \/ /\ op = "flush" /\ Head(channel).ack = r
            /\ \A m \in reply[r].before : ~InChannel(m)
  <1>1. /\ Head(channel).op = op /\ Head(channel) = channel[1] /\ channel' \in Seq(Commands)
        /\ channel \in Seq(Commands)
        /\ \A i \in DOMAIN channel' : i \in Nat /\ i + 1 \in DOMAIN channel /\ channel'[i] = channel[i + 1]
        /\ \A i \in DOMAIN channel : /\ i \in Nat
                                     /\ i = 1 \/ (i - 1 \in DOMAIN channel' /\ channel'[i - 1] = channel[i])
    BY Dequeued, CommandTypes DEF RInv
  <1>2. PICK i \in DOMAIN channel :
          /\ channel[i].op = "flush" /\ channel[i].ack = r
          /\ \A m \in reply[r].before : \A j \in DOMAIN channel :
                 channel[j].op = "seen" /\ channel[j].msg = m => j < i
    BY DEF Ahead
  <1>3. CASE i = 1
    <2>1. \A m \in reply[r].before : ~InChannel(m)
      <3> SUFFICES ASSUME NEW m \in reply[r].before, NEW j \in DOMAIN channel,
                          channel[j].op = "seen", channel[j].msg = m
                   PROVE  FALSE
        BY DEF InChannel
      <3>1. j < 1 BY <1>2, <1>3
      <3>2. DOMAIN channel = 1 .. Len(channel) /\ Len(channel) \in Nat BY <1>1
      <3> QED BY <3>1, <3>2
    <2> QED BY <2>1, <1>1, <1>2, <1>3
  <1>4. CASE i # 1
    <2>1. i - 1 \in DOMAIN channel' /\ channel'[i - 1] = channel[i] /\ i \in Nat BY <1>1, <1>4
    <2>2. ASSUME NEW m \in reply'[r].before, NEW j \in DOMAIN channel',
                 channel'[j].op = "seen", channel'[j].msg = m
          PROVE  j < i - 1
      <3>1. j \in Nat /\ j + 1 \in DOMAIN channel /\ channel'[j] = channel[j + 1] BY <1>1
      <3>2. j + 1 < i BY <3>1, <1>2, <2>2
      <3> QED BY <3>1, <3>2, <2>1
    <2>3. channel'[i - 1].op = "flush" /\ channel'[i - 1].ack = r BY <2>1, <1>2
    <2> QED BY <2>1, <2>2, <2>3 DEF Ahead
  <1> QED BY <1>3, <1>4

\* A message moves from the channel to its key's batch.
LEMMA RecvSeenKeeps == ASSUME RInv, RecvSeen PROVE RInv'
  <1>m. PICK m : m = Head(channel).msg OBVIOUS
  <1>1. /\ Recv("seen") /\ pending' = [pending EXCEPT ![KeyOf[m]] = Append(@, m)]
        /\ UNCHANGED <<attached, client, sched, switches, reply, reported, receipts>>
    BY <1>m DEF RecvSeen, Insert, inputs
  <1>2. /\ channel' \in Seq(Commands) /\ Len(channel') <= ChannelCapacity /\ SeenOnce'
        /\ \A l : InChannel(l) <=> InChannel(l)' \/ m = l
        /\ m \in Msgs /\ ~InChannel(m)'
    BY <1>m, <1>1, Dequeued
  <1>3. pending \in [Key -> Seq(Msgs)] /\ KeyOf[m] \in Key BY <1>2, KeyTypes DEF RInv, ReceiptsTyped
  <1>4. /\ pending' \in [Key -> Seq(Msgs)]
        /\ pending'[KeyOf[m]] = Append(pending[KeyOf[m]], m)
        /\ \A k \in Key \ {KeyOf[m]} : pending'[k] = pending[k]
        /\ pending[KeyOf[m]] \in Seq(Msgs)
    BY <1>1, <1>2, <1>3
  <1>5. ASSUME NEW k \in Key, NEW l
        PROVE  In(l, pending'[k]) <=> In(l, pending[k]) \/ (k = KeyOf[m] /\ l = m)
    <2>1. CASE k = KeyOf[m] BY <2>1, <1>2, <1>4, InAppend
    <2>2. CASE k # KeyOf[m] BY <2>2, <1>4
    <2> QED BY <2>1, <2>2
  <1>6. /\ Attempted' = Attempted /\ \A l : InTodo(l)' = InTodo(l)
    BY <1>1 DEF Attempted, InTodo
  <1>7. \A l \in Msgs : InPending(l)' <=> InPending(l) \/ l = m
    BY <1>5, KeyTypes DEF InPending
  <1>8. ReceiptsTyped' BY <1>1, <1>2, <1>4 DEF RInv, ReceiptsTyped, Commands
  <1>9. ASSUME NEW l \in Msgs PROVE OnePlace(l)'
    <2>1. OnePlace(l) /\ OnePlace(m) BY <1>2 DEF RInv
    <2>2. InChannel(m) BY <1>2
    <2>3. CASE l = m BY <2>1, <2>2, <2>3, <1>1, <1>2, <1>6, <1>7 DEF OnePlace
    <2>4. CASE l # m BY <2>1, <2>4, <1>1, <1>2, <1>6, <1>7 DEF OnePlace
    <2> QED BY <2>3, <2>4
  <1>10. KeyedPending' BY <1>5 DEF RInv, KeyedPending
  <1>11. KeyedTodo' /\ ReceiptOnce' /\ ReceiptsNameTheirSender' /\ SchedShape'
    BY <1>1 DEF RInv, KeyedTodo, ReceiptOnce, ReceiptsNameTheirSender, SchedShape
  <1>12. FlushWaits' BY <1>1, FlushesLeft DEF RInv, FlushWaits
  <1>13. WaitersServed'
    <2> SUFFICES ASSUME NEW r \in Repliers
                 PROVE  /\ reply[r].before \subseteq reported
                        /\ reply[r].pc = "waiting" => Ahead(r)' \/ (sched.ack = r /\ Covered(r)')
      BY <1>1 DEF WaitersServed
    <2>1. Covered(r) => Covered(r)' BY <1>1, <1>6 DEF Covered
    <2>2. Ahead(r) => Ahead(r)' BY <1>1, AheadLeft
    <2> QED BY <2>1, <2>2 DEF RInv, WaitersServed
  <1>14. FlushCovers' BY <1>1, <1>6 DEF RInv, FlushCovers
  <1> QED BY <1>2, <1>8, <1>9, <1>10, <1>11, <1>12, <1>13, <1>14 DEF RInv

\* The client is taken over, or taken away.
LEMMA RecvClientKeeps == ASSUME RInv, RecvClient PROVE RInv'
  <1>1. /\ Recv("client") /\ client' = Head(channel).some
        /\ UNCHANGED <<attached, pending, sched, switches, reply, reported, receipts>>
    BY DEF RecvClient, inputs
  <1>2. /\ channel' \in Seq(Commands) /\ Len(channel') <= ChannelCapacity /\ SeenOnce'
        /\ \A l : InChannel(l) <=> InChannel(l)'
        /\ client' \in BOOLEAN
    BY <1>1, Dequeued
  <1>6. /\ Attempted' = Attempted /\ \A l : InTodo(l)' = InTodo(l) /\ InPending(l)' = InPending(l)
    BY <1>1 DEF Attempted, InTodo, InPending
  <1>8. ReceiptsTyped' BY <1>1, <1>2 DEF RInv, ReceiptsTyped, Commands
  <1>9. ASSUME NEW l \in Msgs PROVE OnePlace(l)'
    <2>1. OnePlace(l) BY DEF RInv
    <2> QED BY <2>1, <1>1, <1>2, <1>6 DEF OnePlace
  <1>10. BatchParts' BY <1>1, BatchesStay DEF RInv, BatchParts
  <1>12. FlushWaits' BY <1>1, FlushesLeft DEF RInv, FlushWaits
  <1>13. WaitersServed'
    <2> SUFFICES ASSUME NEW r \in Repliers
                 PROVE  /\ reply[r].before \subseteq reported
                        /\ reply[r].pc = "waiting" => Ahead(r)' \/ (sched.ack = r /\ Covered(r)')
      BY <1>1 DEF WaitersServed
    <2>1. Covered(r) => Covered(r)' BY <1>1, <1>6 DEF Covered
    <2>2. Ahead(r) => Ahead(r)' BY <1>1, AheadLeft
    <2> QED BY <2>1, <2>2 DEF RInv, WaitersServed
  <1>14. FlushCovers' BY <1>1, <1>6 DEF RInv, FlushCovers
  <1> QED BY <1>2, <1>8, <1>9, <1>10, <1>12, <1>13, <1>14 DEF RInv, BatchParts

\* The batches of some keys are what is pending under them.
LEMMA BatchFacts ==
  ASSUME pending \in [Key -> Seq(Msgs)], NEW keys, keys \subseteq Key
  PROVE  /\ BatchesOf(pending, keys) \subseteq Batch
         /\ \A b \in BatchesOf(pending, keys) : b.key \in keys /\ b.ids = pending[b.key]
         /\ \A b, c \in BatchesOf(pending, keys) : b.key = c.key => b = c
         /\ \A k \in keys : \A m : In(m, pending[k]) =>
                \E b \in BatchesOf(pending, keys) : b.key = k /\ b.ids = pending[k]
         /\ Without(pending, keys) \in [Key -> Seq(Msgs)]
         /\ \A k \in Key : \A m : In(m, Without(pending, keys)[k]) <=> In(m, pending[k]) /\ k \notin keys
  <1> DEFINE T == BatchesOf(pending, keys)
             W == Without(pending, keys)
  <1>1. \A b \in T : \E k \in keys : b = [key |-> k, ids |-> pending[k]] BY DEF BatchesOf
  <1>2. \A k \in keys : pending[k] # <<>> => [key |-> k, ids |-> pending[k]] \in T BY DEF BatchesOf
  <1>3. \A m : ~In(m, <<>>) BY DEF In
  <1>4. W = [k \in Key |-> IF k \in keys THEN <<>> ELSE pending[k]] BY DEF Without
  <1> HIDE DEF T, W
  <1>5. ASSUME NEW b \in T
        PROVE  b \in Batch /\ b.key \in keys /\ b.ids = pending[b.key] /\ b = [key |-> b.key, ids |-> b.ids]
    <2>1. PICK k \in keys : b = [key |-> k, ids |-> pending[k]] BY <1>1
    <2>2. k \in Key /\ pending[k] \in Seq(Msgs) OBVIOUS
    <2> QED BY <2>1, <2>2 DEF Batch
  <1>6. ASSUME NEW b \in T, NEW c \in T, b.key = c.key PROVE b = c BY <1>5, <1>6
  <1>7. ASSUME NEW k \in keys, NEW m, In(m, pending[k])
        PROVE  \E b \in T : b.key = k /\ b.ids = pending[k]
    <2>1. pending[k] # <<>> BY <1>3, <1>7
    <2>2. [key |-> k, ids |-> pending[k]] \in T BY <1>2, <2>1
    <2> QED BY <2>2
  <1>8. W \in [Key -> Seq(Msgs)] BY <1>4
  <1>9. ASSUME NEW k \in Key, NEW m PROVE In(m, W[k]) <=> In(m, pending[k]) /\ k \notin keys
    <2>1. CASE k \in keys BY <2>1, <1>3, <1>4
    <2>2. CASE k \notin keys BY <2>2, <1>4
    <2> QED BY <2>1, <2>2
  <1> QED BY <1>5, <1>6, <1>7, <1>8, <1>9 DEF T, W

\* The waiting task takes the batches of some keys out of pending.
LEMMA Drained ==
  ASSUME RInv, sched.pc = "select", NEW keys, keys \subseteq Key,
         NEW ack \in Repliers \cup {NoOne}, NEW then \in {"select", "gone"},
         sched' = Sending(BatchesOf(pending, keys), ack, then),
         pending' = Without(pending, keys), receipts' = receipts
  PROVE  /\ pending' \in [Key -> Seq(Msgs)]
         /\ sched' \in [pc: {"select", "sending", "gone"}, todo: SUBSET Batch,
                        ack: Repliers \cup {NoOne}, then: {"select", "gone"}]
         /\ sched'.ack = ack /\ sched.ack = NoOne
         /\ \A m : ~InTodo(m)
         /\ \A m \in Msgs : InTodo(m)' <=> InPending(m) /\ KeyOf[m] \in keys
         /\ \A m \in Msgs : InPending(m)' <=> InPending(m) /\ KeyOf[m] \notin keys
         /\ Attempted' = Attempted
         /\ BatchParts'
  <1>p. pending \in [Key -> Seq(Msgs)] BY DEF RInv, ReceiptsTyped
  <1>s. sched.todo = {} /\ sched.ack = NoOne BY DEF RInv, SchedShape
  <1> DEFINE T == BatchesOf(pending, keys)
  <1>1. /\ T \subseteq Batch
        /\ \A b \in T : b.key \in keys /\ b.ids = pending[b.key]
        /\ \A b, c \in T : b.key = c.key => b = c
        /\ \A k \in keys : \A m : In(m, pending[k]) => \E b \in T : b.key = k /\ b.ids = pending[k]
        /\ pending' \in [Key -> Seq(Msgs)]
        /\ \A k \in Key : \A m : In(m, pending'[k]) <=> In(m, pending[k]) /\ k \notin keys
    BY <1>p, BatchFacts
  <1>2. sched' = [pc |-> "sending", todo |-> T, ack |-> ack, then |-> then] BY DEF Sending
  <1> HIDE DEF T
  <1>3. /\ sched'.pc = "sending" /\ sched'.todo = T /\ sched'.ack = ack
        /\ sched' \in [pc: {"select", "sending", "gone"}, todo: SUBSET Batch,
                       ack: Repliers \cup {NoOne}, then: {"select", "gone"}]
    BY <1>1, <1>2
  <1>4. \A m : ~InTodo(m) BY <1>s DEF InTodo
  <1>k. KeyedPending BY DEF RInv
  <1>5. \A m \in Msgs : \A b \in T : In(m, b.ids) => b.key = KeyOf[m] BY <1>1, <1>k DEF KeyedPending
  <1>6. ASSUME NEW m \in Msgs
        PROVE  /\ InTodo(m)' <=> InPending(m) /\ KeyOf[m] \in keys
               /\ InPending(m)' <=> InPending(m) /\ KeyOf[m] \notin keys
    <2>0. KeyOf[m] \in Key BY KeyTypes
    <2>1. InTodo(m)' => InPending(m) /\ KeyOf[m] \in keys BY <1>1, <1>3, <1>5 DEF InTodo, InPending
    <2>2. InPending(m) /\ KeyOf[m] \in keys => InTodo(m)'
      <3> SUFFICES ASSUME InPending(m), KeyOf[m] \in keys PROVE InTodo(m)' OBVIOUS
      <3>1. PICK b \in T : b.ids = pending[KeyOf[m]] BY <1>1 DEF InPending
      <3>2. In(m, b.ids) BY <3>1 DEF InPending
      <3> QED BY <3>2, <1>3 DEF InTodo
    <2>3. InPending(m)' <=> InPending(m) /\ KeyOf[m] \notin keys BY <1>1, <2>0 DEF InPending
    <2> QED BY <2>1, <2>2, <2>3
  <1>7. Attempted' = Attempted BY DEF Attempted
  <1>8. KeyedPending' BY <1>1, <1>k DEF KeyedPending
  <1>9. KeyedTodo' BY <1>1, <1>3, <1>5 DEF KeyedTodo
  <1>10. ReceiptOnce' /\ ReceiptsNameTheirSender' BY DEF RInv, ReceiptOnce, ReceiptsNameTheirSender
  <1>11. SchedShape' BY <1>3 DEF SchedShape
  <1> QED BY <1>1, <1>3, <1>s, <1>4, <1>6, <1>7, <1>8, <1>9, <1>10, <1>11 DEF BatchParts

\* A tick, or the last drain: what is pending goes into the batches being sent, and
\* nobody waits for them.
LEMMA DrainAllKeeps ==
  ASSUME RInv, sched.pc = "select", NEW then \in {"select", "gone"},
         sched' = Sending(BatchesOf(pending, Key), NoOne, then),
         pending' = Without(pending, Key),
         UNCHANGED <<channel, attached, client, switches, reported, reply, receipts>>
  PROVE  RInv'
  <1>1. /\ pending' \in [Key -> Seq(Msgs)]
        /\ sched' \in [pc: {"select", "sending", "gone"}, todo: SUBSET Batch,
                       ack: Repliers \cup {NoOne}, then: {"select", "gone"}]
        /\ sched'.ack = NoOne /\ sched.ack = NoOne
        /\ \A m : ~InTodo(m)
        /\ \A m \in Msgs : InTodo(m)' <=> InPending(m) /\ KeyOf[m] \in Key
        /\ \A m \in Msgs : InPending(m)' <=> InPending(m) /\ KeyOf[m] \notin Key
        /\ Attempted' = Attempted
        /\ BatchParts'
    BY Drained
  <1>2. ReceiptsTyped' BY <1>1 DEF RInv, ReceiptsTyped
  <1>3. \A m : InChannel(m)' = InChannel(m) BY DEF InChannel
  <1>4. ASSUME NEW m \in Msgs PROVE OnePlace(m)'
    <2>1. OnePlace(m) BY DEF RInv
    <2> QED BY <2>1, <1>1, <1>3 DEF OnePlace
  <1>5. SeenOnce' BY DEF RInv, SeenOnce
  <1>6. FlushWaits'
    <2>1. \A i \in DOMAIN channel : channel[i].op = "flush" => channel[i].ack # NoOne
      BY CommandTypes, ReceiptsAssumption DEF RInv
    <2> QED BY <2>1, <1>1 DEF RInv, FlushWaits
  <1>7. WaitersServed'
    <2> SUFFICES ASSUME NEW r \in Repliers
                 PROVE  /\ reply[r].before \subseteq reported
                        /\ reply[r].pc = "waiting" => Ahead(r)'
      BY DEF WaitersServed
    <2>1. Ahead(r)' = Ahead(r) BY DEF Ahead
    <2>2. r # NoOne BY ReceiptsAssumption
    <2> QED BY <2>1, <2>2, <1>1 DEF RInv, WaitersServed
  <1>8. FlushCovers' BY <1>1 DEF RInv, FlushCovers
  <1> QED BY <1>1, <1>2, <1>4, <1>5, <1>6, <1>7, <1>8 DEF RInv, BatchParts

\* A flush is taken: its caller has everything it waits for in a batch, or is told
\* that there is no client.
LEMMA RecvFlushKeeps == ASSUME RInv, RecvFlush PROVE RInv'
  <1>p. PICK r, chat : r = Head(channel).ack /\ chat = Head(channel).chat OBVIOUS
  <1>1. /\ Recv("flush") /\ sched.pc = "select"
        /\ UNCHANGED <<attached, client, switches, reported, receipts>>
    BY DEF RecvFlush, Recv, inputs
  <1>2. /\ channel' \in Seq(Commands) /\ Len(channel') <= ChannelCapacity /\ SeenOnce'
        /\ \A l : InChannel(l) <=> InChannel(l)'
        /\ chat \in Jids /\ r \in Repliers
        /\ 1 \in DOMAIN channel /\ channel[1] = Head(channel) /\ Head(channel).op = "flush"
    BY <1>1, <1>p, Dequeued
  <1>3. reply[r].pc = "waiting" /\ reply[r].chat = chat BY <1>2, <1>p DEF RInv, FlushWaits
  <1>4. r # NoOne /\ sched.ack = NoOne BY <1>1, <1>2, ReceiptsAssumption DEF RInv, SchedShape
  <1>5. \A m \in reply[r].before : ~InChannel(m)
    <2>1. Ahead(r) BY <1>2, <1>3, <1>4 DEF RInv, WaitersServed
    <2>2. PICK i \in DOMAIN channel :
            /\ channel[i].op = "flush" /\ channel[i].ack = r
            /\ \A m \in reply[r].before : \A j \in DOMAIN channel :
                   channel[j].op = "seen" /\ channel[j].msg = m => j < i
      BY <2>1 DEF Ahead
    <2>3. i = 1 BY <2>2, <1>2, <1>p DEF RInv, FlushWaits
    <2>4. \A j \in DOMAIN channel : ~(j < 1)
      <3>1. channel \in Seq(Commands) BY CommandTypes DEF RInv
      <3>2. DOMAIN channel = 1 .. Len(channel) /\ Len(channel) \in Nat BY <3>1
      <3> QED BY <3>2
    <2> QED BY <2>2, <2>3, <2>4 DEF InChannel
  <1>6. \A x \in Repliers \ {r} : Ahead(x) /\ reply'[x] = reply[x] => Ahead(x)'
    BY <1>1, <1>p, AheadLeft
  <1>t. reply \in [Repliers -> [pc: ReplyPcs, chat: Jids \cup {NoOne}, before: SUBSET Msgs]]
    BY DEF RInv, ReceiptsTyped
  <1>7. CASE /\ client /\ sched' = Sending(BatchesOf(pending, ChatKeys(chat)), r, "select")
             /\ pending' = Without(pending, ChatKeys(chat)) /\ UNCHANGED reply
    <2> DEFINE keys == ChatKeys(chat)
    <2>k. keys \subseteq Key /\ \A k \in Key : k.chat = chat => k \in keys BY DEF ChatKeys
    <2>1. /\ pending' \in [Key -> Seq(Msgs)]
          /\ sched' \in [pc: {"select", "sending", "gone"}, todo: SUBSET Batch,
                         ack: Repliers \cup {NoOne}, then: {"select", "gone"}]
          /\ sched'.ack = r
          /\ \A m : ~InTodo(m)
          /\ \A m \in Msgs : InTodo(m)' <=> InPending(m) /\ KeyOf[m] \in keys
          /\ \A m \in Msgs : InPending(m)' <=> InPending(m) /\ KeyOf[m] \notin keys
          /\ Attempted' = Attempted
          /\ BatchParts'
      BY <1>1, <1>2, <1>7, <2>k, Drained
    <2> HIDE DEF keys
    <2>2. ReceiptsTyped' BY <1>1, <1>2, <1>7, <2>1 DEF RInv, ReceiptsTyped, Commands
    <2>4. ASSUME NEW m \in Msgs PROVE OnePlace(m)'
      <3>1. OnePlace(m) BY DEF RInv
      <3> QED BY <3>1, <2>1, <1>1, <1>2 DEF OnePlace
    <2>6. FlushWaits'
      <3>1. \A i \in DOMAIN channel' : channel'[i].op = "flush" => channel'[i].ack # r
        BY <1>1, <1>p, FlushesLeft
      <3> QED BY <3>1, <2>1, <1>1, <1>3, <1>7, FlushesLeft DEF FlushWaits
    <2>7. WaitersServed'
      <3>1. ASSUME NEW m \in reply[r].before, KeyOf[m].chat = chat
            PROVE  m \in Attempted' \/ InTodo(m)'
        <4>1. m \in reported /\ m \in Msgs BY <1>2, <1>t DEF RInv, WaitersServed
        <4>2. OnePlace(m) BY <4>1 DEF RInv
        <4>3. InPending(m) \/ m \in Attempted BY <4>1, <4>2, <1>5, <2>1 DEF OnePlace
        <4>4. KeyOf[m] \in keys BY <3>1, <4>1, <2>k, KeyTypes
        <4> QED BY <4>1, <4>3, <4>4, <2>1
      <3>2. Covered(r)' BY <3>1, <1>3, <1>7 DEF Covered
      <3>3. \A x \in Repliers : x # NoOne BY ReceiptsAssumption
      <3> QED BY <3>2, <3>3, <2>1, <1>1, <1>4, <1>6, <1>7 DEF RInv, WaitersServed
    <2>8. FlushCovers' BY <1>7, <2>1 DEF RInv, FlushCovers
    <2> QED BY <1>2, <2>1, <2>2, <2>4, <2>6, <2>7, <2>8 DEF RInv, BatchParts
  <1>8. CASE reply' = [reply EXCEPT ![r].pc = "skipped"] /\ UNCHANGED <<sched, pending>>
    <2>1. /\ reply'[r].pc = "skipped" /\ reply'[r].before = reply[r].before
          /\ \A x \in Repliers \ {r} : reply'[x] = reply[x]
          /\ reply' \in [Repliers -> [pc: ReplyPcs, chat: Jids \cup {NoOne}, before: SUBSET Msgs]]
      BY <1>2, <1>8, <1>t DEF ReplyPcs
    <2>2. ReceiptsTyped' BY <1>1, <1>2, <1>8, <2>1 DEF RInv, ReceiptsTyped, Commands
    <2>3. /\ Attempted' = Attempted /\ \A l : InTodo(l)' = InTodo(l) /\ InPending(l)' = InPending(l)
      BY <1>1, <1>8 DEF Attempted, InTodo, InPending
    <2>4. ASSUME NEW m \in Msgs PROVE OnePlace(m)'
      <3>1. OnePlace(m) BY DEF RInv
      <3> QED BY <3>1, <2>3, <1>1, <1>2 DEF OnePlace
    <2>5. BatchParts' BY <1>1, <1>8, BatchesStay DEF RInv, BatchParts
    <2>6. FlushWaits'
      <3>1. \A i \in DOMAIN channel' : channel'[i].op = "flush" => channel'[i].ack # r
        BY <1>1, <1>p, FlushesLeft
      <3> QED BY <3>1, <2>1, <1>1, <1>4, <1>8, FlushesLeft DEF FlushWaits
    <2>7. WaitersServed'
      <3>1. \A x \in Repliers : Covered(x) /\ reply'[x] = reply[x] => Covered(x)'
        BY <2>3 DEF Covered
      <3> QED BY <3>1, <2>1, <1>1, <1>4, <1>6, <1>8 DEF RInv, WaitersServed
    <2>8. FlushCovers' BY <2>1, <2>3 DEF RInv, FlushCovers
    <2> QED BY <1>2, <2>2, <2>4, <2>5, <2>6, <2>7, <2>8 DEF RInv, BatchParts
  <1> QED BY <1>p, <1>7, <1>8 DEF RecvFlush

\* A batch goes out: its messages are attempted.
LEMMA SendReceiptKeeps == ASSUME RInv, NEW b \in sched.todo, SendReceipt(b) PROVE RInv'
  <1>1. /\ receipts' = receipts \cup {b} /\ sched' = [sched EXCEPT !.todo = @ \ {b}]
        /\ UNCHANGED <<channel, attached, pending, client, switches, reported, reply>>
    BY DEF SendReceipt, inputs
  <1>t. /\ sched \in [pc: {"select", "sending", "gone"}, todo: SUBSET Batch,
                      ack: Repliers \cup {NoOne}, then: {"select", "gone"}]
        /\ receipts \subseteq Batch
    BY DEF RInv, ReceiptsTyped
  <1>2. /\ sched'.todo = sched.todo \ {b} /\ sched'.ack = sched.ack /\ sched'.pc = sched.pc
        /\ sched' \in [pc: {"select", "sending", "gone"}, todo: SUBSET Batch,
                       ack: Repliers \cup {NoOne}, then: {"select", "gone"}]
        /\ b \in Batch
    BY <1>1, <1>t
  <1>3. ReceiptsTyped' BY <1>1, <1>2 DEF RInv, ReceiptsTyped
  <1>k. KeyedTodo BY DEF RInv
  <1>4. ASSUME NEW m \in Msgs
        PROVE  /\ m \in Attempted' <=> m \in Attempted \/ In(m, b.ids)
               /\ InTodo(m)' <=> InTodo(m) /\ ~In(m, b.ids)
               /\ In(m, b.ids) => InTodo(m)
    <2>1. m \in Attempted' <=> m \in Attempted \/ In(m, b.ids) BY <1>1 DEF Attempted
    <2>2. InTodo(m)' => InTodo(m) /\ ~In(m, b.ids) BY <1>2, <1>k DEF InTodo, KeyedTodo
    <2>3. InTodo(m) /\ ~In(m, b.ids) => InTodo(m)' BY <1>2 DEF InTodo
    <2> QED BY <2>1, <2>2, <2>3 DEF InTodo
  <1>5. \A m : InChannel(m)' = InChannel(m) /\ InPending(m)' = InPending(m)
    BY <1>1 DEF InChannel, InPending
  <1>6. ASSUME NEW m \in Msgs PROVE OnePlace(m)'
    <2>1. OnePlace(m) BY DEF RInv
    <2> QED BY <2>1, <1>1, <1>4, <1>5 DEF OnePlace
  <1>7. SeenOnce' /\ KeyedPending' BY <1>1 DEF RInv, SeenOnce, KeyedPending
  <1>8. KeyedTodo' BY <1>2, <1>k DEF KeyedTodo
  <1>9. ReceiptOnce'
    <2>1. ASSUME NEW m \in Msgs, NEW c \in receipts, In(m, c.ids), In(m, b.ids) PROVE FALSE
      <3>1. m \in Attempted /\ InTodo(m) BY <2>1, <1>4 DEF Attempted
      <3> QED BY <3>1 DEF RInv, OnePlace
    <2> QED BY <1>1, <2>1 DEF RInv, ReceiptOnce
  <1>10. ReceiptsNameTheirSender' BY <1>1, <1>k DEF RInv, ReceiptsNameTheirSender, KeyedTodo
  <1>11. SchedShape' BY <1>2 DEF RInv, SchedShape
  <1>12. FlushWaits' BY <1>1, <1>2 DEF RInv, FlushWaits
  <1>13. WaitersServed'
    <2>1. \A r \in Repliers : reply[r].before \subseteq Msgs BY DEF RInv, ReceiptsTyped
    <2>2. \A r \in Repliers : Covered(r) => Covered(r)' BY <1>1, <1>4, <2>1 DEF Covered
    <2>3. \A r \in Repliers : Ahead(r)' = Ahead(r) BY <1>1 DEF Ahead
    <2> QED BY <1>1, <1>2, <2>2, <2>3 DEF RInv, WaitersServed
  <1>14. FlushCovers'
    <2>1. \A r \in Repliers : reply[r].before \subseteq Msgs BY DEF RInv, ReceiptsTyped
    <2> QED BY <1>1, <1>4, <2>1 DEF RInv, FlushCovers
  <1> QED BY <1>3, <1>6, <1>7, <1>8, <1>9, <1>10, <1>11, <1>12, <1>13, <1>14 DEF RInv

\* Everything is sent: who waits for it is told.
LEMMA SentKeeps == ASSUME RInv, Sent PROVE RInv'
  <1>1. /\ sched.pc = "sending" /\ sched.todo = {}
        /\ reply' = IF sched.ack = NoOne THEN reply ELSE [reply EXCEPT ![sched.ack].pc = "flushed"]
        /\ sched' \in {Gone, Select}
        /\ UNCHANGED <<channel, attached, pending, client, switches, reported, receipts>>
    BY DEF Sent, inputs
  <1>2. /\ sched'.pc # "sending" /\ sched'.todo = {} /\ sched'.ack = NoOne
        /\ sched' \in [pc: {"select", "sending", "gone"}, todo: SUBSET Batch,
                       ack: Repliers \cup {NoOne}, then: {"select", "gone"}]
    BY <1>1 DEF Gone, Select
  <1>t. /\ reply \in [Repliers -> [pc: ReplyPcs, chat: Jids \cup {NoOne}, before: SUBSET Msgs]]
        /\ sched.ack \in Repliers \cup {NoOne}
    BY DEF RInv, ReceiptsTyped
  <1>3. /\ \A x \in Repliers : /\ reply'[x].chat = reply[x].chat /\ reply'[x].before = reply[x].before
                               /\ reply'[x].pc = IF x = sched.ack THEN "flushed" ELSE reply[x].pc
        /\ reply' \in [Repliers -> [pc: ReplyPcs, chat: Jids \cup {NoOne}, before: SUBSET Msgs]]
    <2>1. CASE sched.ack = NoOne
      <3>1. \A x \in Repliers : x # sched.ack BY <2>1, ReceiptsAssumption
      <3> QED BY <3>1, <2>1, <1>1, <1>t
    <2>2. CASE sched.ack # NoOne
      <3>1. sched.ack \in Repliers /\ reply' = [reply EXCEPT ![sched.ack].pc = "flushed"]
        BY <2>2, <1>1, <1>t
      <3> QED BY <3>1, <1>t DEF ReplyPcs
    <2> QED BY <2>1, <2>2
  <1>4. ReceiptsTyped' BY <1>1, <1>2, <1>3 DEF RInv, ReceiptsTyped
  <1>5. /\ Attempted' = Attempted /\ \A m : ~InTodo(m) /\ ~InTodo(m)'
        /\ \A m : InPending(m)' = InPending(m) /\ InChannel(m)' = InChannel(m)
    BY <1>1, <1>2 DEF Attempted, InTodo, InPending, InChannel
  <1>6. ASSUME NEW m \in Msgs PROVE OnePlace(m)'
    <2>1. OnePlace(m) BY DEF RInv
    <2> QED BY <2>1, <1>1, <1>5 DEF OnePlace
  <1>7. /\ SeenOnce' /\ KeyedPending' /\ ReceiptOnce' /\ ReceiptsNameTheirSender'
        /\ KeyedTodo' /\ SchedShape'
    BY <1>1, <1>2 DEF RInv, SeenOnce, KeyedPending, ReceiptOnce, ReceiptsNameTheirSender, KeyedTodo, SchedShape
  <1>8. FlushWaits'
    <2>1. \A i \in DOMAIN channel : channel[i].op = "flush" =>
              channel[i].ack \in Repliers /\ channel[i].ack # NoOne /\ channel[i].ack # sched.ack
      BY CommandTypes, ReceiptsAssumption DEF RInv, FlushWaits
    <2> QED BY <2>1, <1>1, <1>2, <1>3 DEF RInv, FlushWaits
  <1>9. WaitersServed'
    <2> SUFFICES ASSUME NEW r \in Repliers
                 PROVE  /\ reply'[r].before \subseteq reported
                        /\ reply'[r].pc = "waiting" => Ahead(r)'
      BY <1>1 DEF WaitersServed
    <2>1. Ahead(r) => Ahead(r)' BY <1>1, <1>3 DEF Ahead
    <2> QED BY <2>1, <1>3 DEF RInv, WaitersServed
  <1>10. FlushCovers'
    <2> SUFFICES ASSUME NEW r \in Repliers, reply'[r].pc = "flushed", NEW m \in reply[r].before,
                        KeyOf[m].chat = reply[r].chat
                 PROVE  m \in Attempted
      BY <1>3, <1>5 DEF FlushCovers
    <2>1. CASE r = sched.ack
      <3>1. reply[r].pc = "waiting" /\ ~Ahead(r)
        <4>1. r # NoOne BY ReceiptsAssumption
        <4> QED BY <4>1, <2>1 DEF RInv, FlushWaits, Ahead
      <3>2. Covered(r) BY <3>1 DEF RInv, WaitersServed
      <3> QED BY <3>2, <1>5 DEF Covered
    <2>2. CASE r # sched.ack BY <2>2, <1>3 DEF RInv, FlushCovers
    <2> QED BY <2>1, <2>2
  <1> QED BY <1>4, <1>6, <1>7, <1>8, <1>9, <1>10 DEF RInv

\* A caller goes on with its reply.
LEMMA RepliedKeeps == ASSUME RInv, NEW r \in Repliers, Replied(r) PROVE RInv'
  <1>1. /\ reply[r].pc \in {"flushed", "skipped"} /\ reply' = [reply EXCEPT ![r] = IdleReply]
        /\ UNCHANGED <<channel, attached, pending, client, sched, switches, reported, receipts>>
    BY DEF Replied, inputs
  <1>t. reply \in [Repliers -> [pc: ReplyPcs, chat: Jids \cup {NoOne}, before: SUBSET Msgs]]
    BY DEF RInv, ReceiptsTyped
  <1>2. /\ reply'[r].pc = "idle" /\ reply'[r].before = {}
        /\ \A x \in Repliers \ {r} : reply'[x] = reply[x]
        /\ reply' \in [Repliers -> [pc: ReplyPcs, chat: Jids \cup {NoOne}, before: SUBSET Msgs]]
    BY <1>1, <1>t DEF IdleReply, ReplyPcs
  <1>3. ReceiptsTyped' BY <1>1, <1>2 DEF RInv, ReceiptsTyped
  <1>4. /\ Attempted' = Attempted
        /\ \A m : InTodo(m)' = InTodo(m) /\ InPending(m)' = InPending(m) /\ InChannel(m)' = InChannel(m)
    BY <1>1 DEF Attempted, InTodo, InPending, InChannel
  <1>5. ASSUME NEW m \in Msgs PROVE OnePlace(m)'
    <2>1. OnePlace(m) BY DEF RInv
    <2> QED BY <2>1, <1>1, <1>4 DEF OnePlace
  <1>6. SeenOnce' BY <1>1 DEF RInv, SeenOnce
  <1>7. BatchParts' BY <1>1, BatchesStay DEF RInv, BatchParts
  <1>8. FlushWaits'
    <2>0. FlushWaits BY DEF RInv
    <2>1. \A i \in DOMAIN channel : channel[i].op = "flush" => channel[i].ack \in Repliers \ {r}
      BY <2>0, <1>1, CommandTypes DEF RInv, FlushWaits
    <2>2. sched.ack # NoOne => sched.ack \in Repliers \ {r}
      BY <2>0, <1>1 DEF FlushWaits, RInv, ReceiptsTyped
    <2> QED BY <2>0, <2>1, <2>2, <1>1, <1>2 DEF FlushWaits
  <1>9. WaitersServed'
    <2>1. \A x \in Repliers \ {r} : Ahead(x)' = Ahead(x) /\ Covered(x)' = Covered(x)
      BY <1>1, <1>2, <1>4 DEF Ahead, Covered
    <2> QED BY <2>1, <1>1, <1>2 DEF RInv, WaitersServed
  <1>10. FlushCovers' BY <1>2, <1>4 DEF RInv, FlushCovers
  <1> QED BY <1>3, <1>5, <1>6, <1>7, <1>8, <1>9, <1>10 DEF RInv, BatchParts

\* A step that touches neither commands nor batches nor callers
LEMMA ReceiptsStay ==
  ASSUME RInv, attached' \in BOOLEAN, sched'.pc # "sending" => sched.pc # "sending",
         sched' \in [pc: {"select", "sending", "gone"}, todo: SUBSET Batch,
                    ack: Repliers \cup {NoOne}, then: {"select", "gone"}],
         sched'.todo = sched.todo, sched'.ack = sched.ack,
         UNCHANGED <<channel, pending, client, switches, reported, reply, receipts>>
  PROVE  RInv'
  <1>1. /\ Attempted' = Attempted
        /\ \A m : InTodo(m)' = InTodo(m) /\ InPending(m)' = InPending(m) /\ InChannel(m)' = InChannel(m)
    BY DEF Attempted, InTodo, InPending, InChannel
  <1>2. \A m \in Msgs : OnePlace(m)' BY <1>1 DEF RInv, OnePlace
  <1>3. ReceiptsTyped' BY DEF RInv, ReceiptsTyped
  <1>4. SeenOnce' /\ KeyedPending' /\ KeyedTodo' /\ ReceiptOnce' /\ ReceiptsNameTheirSender'
    BY DEF RInv, SeenOnce, KeyedPending, KeyedTodo, ReceiptOnce, ReceiptsNameTheirSender
  <1>5. SchedShape' BY DEF RInv, SchedShape
  <1>6. FlushWaits' BY DEF RInv, FlushWaits
  <1>7. WaitersServed'
    <2>1. \A x \in Repliers : Ahead(x)' = Ahead(x) /\ Covered(x)' = Covered(x)
      BY <1>1 DEF Ahead, Covered
    <2> QED BY <2>1 DEF RInv, WaitersServed
  <1>8. FlushCovers' BY <1>1 DEF RInv, FlushCovers
  <1> QED BY <1>2, <1>3, <1>4, <1>5, <1>6, <1>7, <1>8 DEF RInv

\* Nothing reported, nobody waiting
LEMMA InitReceipts == ReceiptsInit => RInv
  <1> SUFFICES ASSUME ReceiptsInit PROVE RInv OBVIOUS
  <1>1. /\ channel = <<>> /\ DOMAIN channel = {} /\ Len(channel) = 0 /\ attached = TRUE
        /\ client = FALSE /\ switches = 0 /\ reported = {} /\ receipts = {}
        /\ pending = [k \in Key |-> <<>>] /\ reply = [r \in Repliers |-> IdleReply] /\ sched = Select
    BY DEF ReceiptsInit
  <1>2. /\ sched.pc = "select" /\ sched.todo = {} /\ sched.ack = NoOne
        /\ sched \in [pc: {"select", "sending", "gone"}, todo: SUBSET Batch,
                      ack: Repliers \cup {NoOne}, then: {"select", "gone"}]
    BY <1>1 DEF Select
  <1>3. /\ \A r \in Repliers : reply[r].pc = "idle" /\ reply[r].before = {}
        /\ reply \in [Repliers -> [pc: ReplyPcs, chat: Jids \cup {NoOne}, before: SUBSET Msgs]]
    BY <1>1 DEF IdleReply, ReplyPcs
  <1>4. ReceiptsTyped
    <2>1. channel \in Seq(SeenCmd \cup FlushCmd \cup ClientCmd) BY <1>1
    <2>2. Len(channel) <= ChannelCapacity /\ switches \in 0 .. MaxSwitches BY <1>1, ReceiptsAssumption
    <2>3. pending \in [Key -> Seq(Msgs)]
      <3>1. <<>> \in Seq(Msgs) OBVIOUS
      <3> QED BY <3>1, <1>1
    <2> QED BY <2>1, <2>2, <2>3, <1>1, <1>2, <1>3 DEF ReceiptsTyped
  <1>5. \A m \in Msgs : \A k \in Key : ~In(m, pending[k]) BY <1>1 DEF In
  <1>6. \A m \in Msgs : OnePlace(m)
    BY <1>1, <1>2, <1>5, KeyTypes DEF OnePlace, InChannel, InPending, InTodo, Attempted
  <1>7. SeenOnce /\ KeyedPending /\ KeyedTodo /\ ReceiptOnce /\ ReceiptsNameTheirSender /\ SchedShape
    BY <1>1, <1>2, <1>5 DEF SeenOnce, KeyedPending, KeyedTodo, ReceiptOnce, ReceiptsNameTheirSender, SchedShape
  <1>8. FlushWaits /\ WaitersServed /\ FlushCovers
    BY <1>1, <1>2, <1>3 DEF FlushWaits, WaitersServed, FlushCovers
  <1> QED BY <1>4, <1>6, <1>7, <1>8 DEF RInv

\* The inductive invariant of the scheduler: every message has one place, and every
\* waiting caller its flush behind, or about to cover, what it waits for.
THEOREM ReceiptsInvariant == ReceiptsSpec => []RInv
  <1>1. RInv /\ [ReceiptsNext]_receiptVars => RInv'
    <2> SUFFICES ASSUME RInv, [ReceiptsNext]_receiptVars PROVE RInv' OBVIOUS
    <2>s. /\ sched \in [pc: {"select", "sending", "gone"}, todo: SUBSET Batch,
                        ack: Repliers \cup {NoOne}, then: {"select", "gone"}]
          /\ attached \in BOOLEAN
      BY DEF RInv, ReceiptsTyped
    <2>1. CASE UNCHANGED receiptVars BY <2>1, <2>s, ReceiptsStay DEF receiptVars
    <2>2. CASE Close BY <2>2, <2>s, ReceiptsStay DEF Close, inputs
    <2>3. CASE Tick BY <2>3, DrainAllKeeps DEF Tick, inputs
    <2>4. CASE RecvClosed
      <3>1. CASE sched' = Sending(BatchesOf(pending, Key), NoOne, "gone") /\ pending' = Without(pending, Key)
        BY <2>4, <3>1, DrainAllKeeps DEF RecvClosed, inputs
      <3>2. CASE sched' = Gone /\ UNCHANGED pending
        <4>1. sched.todo = {} /\ sched.ack = NoOne BY <2>4 DEF RecvClosed, RInv, SchedShape
        <4>2. /\ sched'.pc = "gone" /\ sched'.todo = {} /\ sched'.ack = NoOne
              /\ sched' \in [pc: {"select", "sending", "gone"}, todo: SUBSET Batch,
                             ack: Repliers \cup {NoOne}, then: {"select", "gone"}]
          BY <3>2 DEF Gone
        <4> QED BY <2>4, <3>2, <4>1, <4>2, <2>s, ReceiptsStay DEF RecvClosed, inputs
      <3> QED BY <2>4, <3>1, <3>2 DEF RecvClosed
    <2>5. CASE RecvSeen \/ RecvClient \/ RecvFlush \/ Sent
      BY <2>5, RecvSeenKeeps, RecvClientKeeps, RecvFlushKeeps, SentKeeps
    <2>6. CASE \E b \in sched.todo : SendReceipt(b) BY <2>6, SendReceiptKeeps
    <2>7. CASE \E m \in Msgs : Seen(m) BY <2>7, SeenKeeps
    <2>8. CASE \E some \in BOOLEAN : SetClient(some) BY <2>8, ClientKeeps
    <2>9. CASE \E r \in Repliers : Replied(r) \/ \E chat \in Jids : FlushChat(r, chat)
      BY <2>9, RepliedKeeps, FlushKeeps
    <2> QED BY <2>1, <2>2, <2>3, <2>4, <2>5, <2>6, <2>7, <2>8, <2>9 DEF ReceiptsNext, Scheduler
  <1> QED BY InitReceipts, <1>1, PTL DEF ReceiptsSpec

\* A set of at most one element has the cardinality of whether there is one.
LEMMA OneOrNone ==
  ASSUME NEW S, \A x, y \in S : x = y
  PROVE  Cardinality(S) = IF S = {} THEN 0 ELSE 1
  <1>1. CASE S = {} BY <1>1, FS_EmptySet
  <1>2. CASE S # {}
    <2>1. PICK x : S = {x} BY <1>2
    <2> QED BY <2>1, FS_Singleton
  <1> QED BY <1>1, <1>2

\* No receipt is forgotten, none is sent twice, and each names the chat and the member
\* its messages are from (PendingBatch, run_scheduler).
THEOREM ReceiptsAreTrue == ReceiptsSpec => []ReceiptsTrue
  <1>1. ASSUME RInv, NEW m \in reported PROVE Places(m) = 1
    <2> DEFINE A == {i \in DOMAIN channel : channel[i].op = "seen" /\ channel[i].msg = m}
               B == {k \in Key : In(m, pending[k])}
               C == {b \in sched.todo : In(m, b.ids)}
               D == {r \in receipts : In(m, r.ids)}
    <2>0. m \in Msgs BY <1>1 DEF RInv, ReceiptsTyped
    <2>1. \A x, y \in A : x = y BY <1>1 DEF RInv, SeenOnce
    <2>2. \A x, y \in B : x = y BY <1>1, <2>0 DEF RInv, KeyedPending
    <2>3. \A x, y \in C : x = y BY <1>1, <2>0 DEF RInv, KeyedTodo
    <2>4. \A x, y \in D : x = y BY <1>1, <2>0 DEF RInv, ReceiptOnce
    <2>5. /\ (A # {} <=> InChannel(m)) /\ (C # {} <=> InTodo(m))
          /\ (D # {} <=> m \in Attempted)
      BY <2>0 DEF InChannel, InTodo, Attempted
    <2>6. B # {} <=> InPending(m)
      BY <1>1, <2>0, KeyTypes DEF InPending, RInv, KeyedPending
    <2>7. OnePlace(m) BY <1>1, <2>0 DEF RInv
    <2>8. Places(m) = Cardinality(A) + Cardinality(B) + Cardinality(C) + Cardinality(D) BY DEF Places
    <2> HIDE DEF A, B, C, D
    <2>9. /\ Cardinality(A) = IF InChannel(m) THEN 1 ELSE 0
          /\ Cardinality(B) = IF InPending(m) THEN 1 ELSE 0
          /\ Cardinality(C) = IF InTodo(m) THEN 1 ELSE 0
          /\ Cardinality(D) = IF m \in Attempted THEN 1 ELSE 0
      BY <2>1, <2>2, <2>3, <2>4, <2>5, <2>6, OneOrNone
    <2> QED BY <2>7, <2>8, <2>9 DEF OnePlace
  <1>2. RInv => ReceiptsTrue BY <1>1 DEF RInv, ReceiptsTrue, OncePerMessage
  <1> QED BY <1>2, ReceiptsInvariant, PTL

\* A caller that is told its chat was flushed replies after a receipt was tried for
\* every message reported under that JID before its call (flush_read_receipts).
THEOREM FlushesCover == ReceiptsSpec => []FlushCovers
  <1>1. RInv => FlushCovers BY DEF RInv
  <1> QED BY <1>1, ReceiptsInvariant, PTL
====
