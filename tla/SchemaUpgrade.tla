--------------------------- MODULE SchemaUpgrade ---------------------------
(* The database file across releases: the staged migration with its backup,  *)
(* validation and circuit-breaker pin (storage.rs, open_with_mode), the      *)
(* maintenance commands --migrate and --rollback (main.rs), the instance     *)
(* lock, and a process that may be killed between any two steps.             *)
(*                                                                           *)
(* A binary is the schema version it supports (CURRENT_SCHEMA_VERSION is 8   *)
(* in this source): the ceremony is the same for an older or a newer one,    *)
(* which the pin's texts tell the operator to use.                           *)
(*                                                                           *)
(* db    what a reader of the database finds: user_version, the messages,    *)
(*       schema_validated_version, and the probe rows a validation has       *)
(*       inserted and not yet deleted                                        *)
(* wal   whether commits are still in the -wal file beside the main file     *)
(* disk  "own", or, inside a rollback, "torn" (half copied) or "foreign"     *)
(*       (a restored main file beside the old -wal)                          *)
EXTENDS Integers, FiniteSets, FiniteSetsExt

CONSTANTS
  Binaries,        \* schema versions of the binaries the operator may start
  StartVersions,   \* version of the database the history starts from
  Messages,        \* messages that arrive
  Settings,        \* startup settings: [backfill, overrides, rest, mcp, long]
  Process,         \* processes the operator may start
  MaxTime, MaxCrashes, MaxFaults

ASSUME SchemaAssumption ==
  Binaries \subseteq Nat /\ StartVersions \subseteq Nat /\ MaxTime \in Nat

VARIABLES db, wal, disk, pin, baks, clock, proc,
          stored,      \* every message ever committed
          explicit,    \* whether --bak was ever given
          cut,         \* whether a rollback was killed halfway
          mixed,       \* whether a torn or foreign database was opened
          broken,      \* targets whose failure was pinned and not yet overruled
          crashes, faults
history == <<stored, explicit, cut, mixed, broken>>
files == <<db, wal, disk, pin, baks, clock>>
vars == <<db, wal, disk, pin, baks, clock, proc, history, crashes, faults>>

Gate == INSTANCE HttpGate

NoPin == [state |-> "none", pinned |-> 0, blocked |-> 0]
NoBak == [from |-> 0, at |-> 0, copy |-> [ver |-> 0, rows |-> {}, valid |-> 0, probes |-> {}]]
Off == [pc |-> "off", mode |-> "daemon", bin |-> 0, from |-> 0, bak |-> NoBak]
Modes == {"daemon", "migrate", "rollback"}

(* The three ban-critical knobs, each with its override flag. *)
BackfillSafe(k, ov) ==
  /\ k.interval < 3 => ov.fast
  /\ k.concurrent > 3 => ov.concurrency
  /\ k.messages > 50000 => ov.huge

(* A daemon's settings are checked, and its listeners', before the lock is   *)
(* taken and the database opened.                                            *)
MayStart(s) ==
  /\ BackfillSafe(s.backfill, s.overrides)
  /\ Gate!RestMayStart(s.rest)
  /\ Gate!McpMayStart(s.mcp, s.rest, s.long)

(* try_lock_exclusive fails while another process holds the lock, which dies *)
(* with its holder: the newcomer waits two seconds and exits.                *)
LockFree == \A p \in Process : proc[p].pc = "off"

Init ==
  /\ db \in [ver : StartVersions, rows : {{}}, valid : {0}, probes : {{}}]
  /\ wal = FALSE /\ disk = "own" /\ pin = NoPin /\ baks = {} /\ clock = 0
  /\ proc = [p \in Process |-> Off]
  /\ stored = {} /\ explicit = FALSE /\ cut = FALSE /\ mixed = FALSE /\ broken = {}
  /\ crashes = 0 /\ faults = 0

Begin(pc, mode, b) == [pc |-> pc, mode |-> mode, bin |-> b, from |-> 0, bak |-> NoBak]
Moved(me, pc) == [pc |-> pc, mode |-> me.mode, bin |-> me.bin, from |-> me.from, bak |-> me.bak]
Upgrades(me, v, pc) == [pc |-> pc, mode |-> me.mode, bin |-> me.bin, from |-> v, bak |-> me.bak]
Restores(me, b) == [pc |-> "copy", mode |-> me.mode, bin |-> me.bin, from |-> me.from, bak |-> b]
To(p, pc) == proc' = [proc EXCEPT ![p] = Moved(proc[p], pc)]
Fault == faults < MaxFaults /\ faults' = faults + 1
NoFault == UNCHANGED faults
Commit(ver, rows, valid, probes) ==
  db' = [ver |-> ver, rows |-> rows, valid |-> valid, probes |-> probes] /\ wal' = TRUE

(* Opening a database whose files do not belong together replays the old     *)
(* -wal over the restored file.                                              *)
Launch(p, b, mode) ==
  /\ proc[p].pc = "off" /\ LockFree
  /\ mode = "daemon" => \E s \in Settings : MayStart(s)
  /\ proc' = [proc EXCEPT ![p] = Begin(IF mode = "rollback" THEN "restore" ELSE "open", mode, b)]
  /\ mixed' = (mixed \/ (mode # "rollback" /\ disk # "own"))
  /\ disk' = IF mode = "rollback" THEN disk ELSE "own"
  /\ UNCHANGED <<db, wal, pin, baks, clock, stored, explicit, cut, broken, crashes, faults>>

(* Mutant: the binary that failed may try again. *)
OverruledBySame(b, mode) == mode = "migrate" \/ b >= pin.blocked
(* The pin: a failed or rolled-back one blocks a normal start unless this    *)
(* binary is newer than the one that failed; a parked database (rolled back  *)
(* to this binary's own version) is served.  --migrate clears any pin.       *)
Overruled(b, mode) ==
  \/ mode = "migrate"
  \/ /\ pin.state = "failed"
     /\ db.ver < pin.blocked
     /\ b > pin.blocked
  \/ /\ pin.state = "rolled_back"
     /\ db.ver = pin.pinned
     /\ b > pin.blocked
Parked(b) == pin.state = "rolled_back" /\ db.ver = pin.pinned /\ b = pin.pinned

MayOpen(b, mode) == pin = NoPin \/ Overruled(b, mode) \/ Parked(b)

Open(p) ==
  LET me == proc[p] IN
  /\ me.pc = "open"
  /\ IF db.ver > me.bin \/ ~MayOpen(me.bin, me.mode)
     THEN To(p, "close") /\ UNCHANGED <<pin, broken>>
     ELSE /\ proc' = [proc EXCEPT ![p] = Upgrades(me, db.ver, IF db.ver < me.bin THEN "backup" ELSE "schema")]
          /\ pin' = IF Overruled(me.bin, me.mode) THEN NoPin ELSE pin
          /\ broken' = IF me.mode = "migrate" THEN {} ELSE {b \in broken : b >= me.bin}
  /\ UNCHANGED <<db, wal, disk, baks, clock, stored, explicit, cut, mixed, crashes, faults>>

(* The checkpoint, the backup under its final name (the second's timestamp:  *)
(* a backup of the same version in the same second replaces it), the FTS5    *)
(* probe.  Any failure leaves the database as it is.                         *)
WithBak(from, t) == {b \in baks : b.from # from \/ b.at # t} \cup {[from |-> from, at |-> t, copy |-> db]}
(* Mutant: the migration goes on without its backup. *)
BackupBestEffort(p) ==
  /\ proc[p].pc = "backup"
  /\ wal' = FALSE
  /\ \/ /\ NoFault /\ To(p, "schema")
        /\ clock' \in clock .. MaxTime
        /\ baks' = WithBak(proc[p].from, clock')
     \/ Fault /\ To(p, "schema") /\ UNCHANGED <<baks, clock>>
  /\ UNCHANGED <<db, disk, pin, history, crashes>>
Backup(p) ==
  /\ proc[p].pc = "backup"
  /\ wal' = FALSE
  /\ \/ /\ NoFault /\ To(p, "schema")
        /\ clock' \in clock .. MaxTime
        /\ baks' = WithBak(proc[p].from, clock')
     \/ Fault /\ To(p, "close") /\ UNCHANGED <<baks, clock>>
  /\ UNCHANGED <<db, disk, pin, history, crashes>>

(* SCHEMA is applied before the migrations.  Its indexes on outbound_queue   *)
(* name retry_after and wa_message_id, columns that a table of version 2, 3  *)
(* or 4 lacks and the migrations would only add later.                       *)
SchemaApplies(v) == v \notin 2..4
(* Mutant: a database of the current version is served as it is. *)
SchemaTrusting(p) ==
  LET me == proc[p] IN
  /\ me.pc = "schema"
  /\ wal' = TRUE
  /\ To(p, IF me.from < me.bin THEN "migrate" ELSE "up")
  /\ UNCHANGED <<db, disk, pin, baks, clock, history, crashes, faults>>
Schema(p) ==
  LET me == proc[p] IN
  /\ me.pc = "schema"
  /\ IF SchemaApplies(db.ver)
     THEN /\ wal' = TRUE
          /\ To(p, IF me.from < me.bin THEN "migrate" ELSE IF db.valid = me.bin THEN "up" ELSE "probe")
     ELSE UNCHANGED wal /\ To(p, "close")
  /\ UNCHANGED <<db, disk, pin, baks, clock, history, crashes, faults>>

(* All the migrations in one transaction. *)
Migrate(p) ==
  /\ proc[p].pc = "migrate"
  /\ \/ NoFault /\ To(p, "probe") /\ Commit(proc[p].bin, db.rows, db.valid, db.probes)
     \/ Fault /\ To(p, "fail") /\ UNCHANGED <<db, wal>>
  /\ UNCHANGED <<disk, pin, baks, clock, history, crashes>>

(* A failure of the ceremony is pinned, one of a later re-validation is not. *)
Failing(p) == IF proc[p].from < proc[p].bin THEN "fail" ELSE "close"

(* A validation: a row whose key is unique is inserted, looked for and       *)
(* deleted, each statement committed by itself; an error between the two     *)
(* returns with the row still there.                                         *)
Insert(p, pc, probe, next) ==
  /\ proc[p].pc = pc
  /\ IF probe \in db.probes THEN To(p, Failing(p)) /\ UNCHANGED <<db, wal>>
                            ELSE To(p, next) /\ Commit(db.ver, db.rows, db.valid, db.probes \cup {probe})
  /\ UNCHANGED <<disk, pin, baks, clock, history, crashes, faults>>
Delete(p, pc, probe, next) ==
  /\ proc[p].pc = pc
  /\ \/ NoFault /\ To(p, next) /\ Commit(db.ver, db.rows, db.valid, db.probes \ {probe})
     \/ Fault /\ To(p, Failing(p)) /\ Commit(db.ver, db.rows, db.valid, db.probes \ {probe})
     \/ Fault /\ To(p, Failing(p)) /\ UNCHANGED <<db, wal>>
  /\ UNCHANGED <<disk, pin, baks, clock, history, crashes>>
Validate(p) ==
  \/ Insert(p, "probe", "fts", "probed") \/ Delete(p, "probed", "fts", "embed")
  \/ Insert(p, "embed", "emb", "embedded") \/ Delete(p, "embedded", "emb", "record")

Record(p) ==
  /\ proc[p].pc = "record"
  /\ Commit(db.ver, db.rows, proc[p].bin, db.probes)
  /\ To(p, "up")
  /\ UNCHANGED <<disk, pin, baks, clock, history, crashes, faults>>

(* The pin is written after the transaction is rolled back, and a failure to *)
(* write it is ignored.                                                      *)
WritePin(p) ==
  LET me == proc[p] IN
  /\ me.pc = "fail"
  /\ \/ /\ NoFault
        /\ pin' = [state |-> "failed", pinned |-> me.from, blocked |-> me.bin]
        /\ broken' = broken \cup {me.bin}
     \/ Fault /\ UNCHANGED <<pin, broken>>
  /\ To(p, "close")
  /\ UNCHANGED <<db, wal, disk, baks, clock, stored, explicit, cut, mixed, crashes>>

(* The last connection's close checkpoints.  --migrate exits when it is up.  *)
Exit(p) ==
  /\ proc[p].pc = "close" \/ (proc[p].pc = "up" /\ proc[p].mode = "migrate")
  /\ wal' = FALSE
  /\ proc' = [proc EXCEPT ![p] = Off]
  /\ UNCHANGED <<db, disk, pin, baks, clock, history, crashes, faults>>

Serving(p) == proc[p].pc = "up" /\ proc[p].mode = "daemon"
Store(p, msg) ==
  /\ Serving(p) /\ msg \notin stored
  /\ Commit(db.ver, db.rows \cup {msg}, db.valid, db.probes)
  /\ stored' = stored \cup {msg}
  /\ UNCHANGED <<disk, pin, baks, clock, proc, explicit, cut, mixed, broken, crashes, faults>>

(* The daemon leaves by process::exit, its connection still open. *)
Stop(p) ==
  /\ Serving(p)
  /\ proc' = [proc EXCEPT ![p] = Off]
  /\ UNCHANGED <<files, history, crashes, faults>>

(* The newest backup is the last of the names, which begin with the version. *)
Before(o, b) == o.from < b.from \/ (o.from = b.from /\ o.at <= b.at)
Newest == CHOOSE b \in baks : \A o \in baks : Before(o, b)

(* --rollback [--bak path]: only with a failed pin.  An operator who names a *)
(* backup does so a second or more after it was made.                        *)
Choose(p) ==
  /\ proc[p].pc = "restore"
  /\ IF pin.state # "failed" \/ baks = {}
     THEN proc' = [proc EXCEPT ![p] = Off] /\ UNCHANGED <<disk, clock, explicit>>
     ELSE \E b \in baks :
            /\ IF b = Newest THEN UNCHANGED <<clock, explicit>>
                             ELSE explicit' = TRUE /\ clock' \in clock + 1 .. MaxTime
            /\ proc' = [proc EXCEPT ![p] = Restores(proc[p], b)]
            /\ disk' = "torn"
  /\ UNCHANGED <<db, wal, pin, baks, stored, cut, mixed, broken, crashes, faults>>

(* The copy is finished; until the -wal is removed the files are a mixture.  *)
Copy(p) ==
  /\ proc[p].pc = "copy"
  /\ disk' = IF wal THEN "foreign" ELSE "own"
  /\ db' = proc[p].bak.copy
  /\ mixed' = FALSE
  /\ To(p, "unwal")
  /\ UNCHANGED <<wal, pin, baks, clock, stored, explicit, cut, broken, crashes, faults>>

RemoveSidecars(p) ==
  /\ proc[p].pc = "unwal"
  /\ wal' = FALSE /\ disk' = "own"
  /\ To(p, "repin")
  /\ UNCHANGED <<db, pin, baks, clock, history, crashes, faults>>

(* The pin of the restored database blocks this binary's own version; that   *)
(* of the migration that failed is forgotten.                                *)
Repin(p) ==
  /\ proc[p].pc = "repin"
  /\ pin' = [state |-> "rolled_back", pinned |-> db.ver, blocked |-> proc[p].bin]
  /\ broken' = {b \in broken : b <= proc[p].bin}
  /\ proc' = [proc EXCEPT ![p] = Off]
  /\ UNCHANGED <<db, wal, disk, baks, clock, stored, explicit, cut, mixed, crashes, faults>>

Crash(p) ==
  /\ proc[p].pc # "off" /\ crashes < MaxCrashes
  /\ crashes' = crashes + 1
  /\ cut' = (cut \/ disk # "own")
  /\ proc' = [proc EXCEPT ![p] = Off]
  /\ UNCHANGED <<files, stored, explicit, mixed, broken, faults>>

Step(p) ==
  \/ Open(p) \/ Backup(p) \/ Schema(p) \/ Migrate(p) \/ Validate(p) \/ Record(p) \/ WritePin(p)
  \/ Exit(p) \/ Choose(p) \/ Copy(p) \/ RemoveSidecars(p) \/ Repin(p)
Next == \E p \in Process :
  \/ Step(p) \/ Stop(p) \/ Crash(p)
  \/ \E b \in Binaries, mode \in Modes : Launch(p, b, mode)
  \/ \E msg \in Messages : Store(p, msg)

Spec == Init /\ [][Next]_vars
-----------------------------------------------------------------------------
DbType(d) == /\ d.ver \in StartVersions \cup Binaries
             /\ d.rows \subseteq Messages
             /\ d.valid \in Binaries \cup {0}
             /\ d.probes \subseteq {"fts", "emb"}

(* Type correctness; at most one process is past the lock. *)
TypeOK ==
  /\ DbType(db) /\ wal \in BOOLEAN /\ disk \in {"own", "torn", "foreign"}
  /\ pin.state \in {"none", "failed", "rolled_back"}
  /\ \A b \in baks : DbType(b.copy) /\ b.from = b.copy.ver /\ b.at \in 0 .. MaxTime
  /\ Cardinality({p \in Process : proc[p].pc # "off"}) <= 1

Whole == disk = "own" /\ ~mixed
Kept == (IF Whole THEN db.rows ELSE {}) \cup UNION {b.copy.rows : b \in baks}

(* No message is ever lost: through failed migrations, kills at any step and *)
(* rollbacks, each one is in the database or in a backup made before a       *)
(* migration (open_with_mode's fail-closed backup).                          *)
NothingLost == mixed \/ stored \subseteq Kept

(* And as long as --bak was never used, each one is in the database itself:  *)
(* the newest backup by name is the one of the migration that failed.        *)
RollbackKeepsAll == Whole /\ ~explicit => db.rows = stored

(* A daemon that serves does so on a database of its own version that passed *)
(* this version's validation, under no pin or under the one that parked it.  *)
ServesValidated ==
  \A p \in Process : Serving(p) /\ ~mixed =>
    /\ db.ver = proc[p].bin /\ db.valid = proc[p].bin
    /\ pin.state = "none" \/ (pin.state = "rolled_back" /\ pin.pinned = db.ver)

(* The circuit breaker: once the failure of a migration is pinned, no normal *)
(* start of that binary runs it again until the operator forces it, a newer  *)
(* binary takes over or an older one rolls back.                             *)
BreakerHolds ==
  \A p \in Process : proc[p].pc \in {"backup", "migrate"} /\ proc[p].mode = "daemon" =>
    proc[p].bin \notin broken

(* Only a rollback killed halfway leaves files that do not belong together   *)
(* for a later start to open.                                                *)
MixtureNeedsCutRollback == mixed => cut

(* What was stored is kept on every path through upgrades, failures, kills   *)
(* and rollbacks, but for the one mixture of a rollback killed halfway.      *)
MessagesKept ==
  TypeOK /\ NothingLost /\ RollbackKeepsAll /\ MixtureNeedsCutRollback
=============================================================================
