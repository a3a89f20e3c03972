------------------------ MODULE SchemaUpgradeProofs ------------------------
(* For every set of binaries, every history of upgrades, failures, kills and *)
(* rollbacks: messages are kept, what is served was validated, and the       *)
(* circuit breaker holds (SchemaUpgrade).                                    *)
EXTENDS SchemaUpgrade, FiniteSetTheorems, TLAPS

Db == [ver : StartVersions \cup Binaries, rows : SUBSET Messages,
       valid : Binaries \cup {0}, probes : SUBSET {"fts", "emb"}]
Bak == [from : Nat, at : Nat, copy : Db]
Probing == {"probe", "probed", "embed", "embedded", "record"}
Upgrading == {"schema", "migrate", "fail"} \cup Probing   \* the backup is made
Opened == {"backup", "up"} \cup Upgrading
Restoring == {"copy", "unwal", "repin"}
Pcs == {"open", "close", "restore"} \cup Opened \cup Restoring
Proc == {Off} \cup [pc : Pcs, mode : Modes, bin : Binaries, from : Nat, bak : Bak \cup {NoBak}]

Typed ==
  /\ db \in Db /\ wal \in BOOLEAN /\ disk \in {"own", "torn", "foreign"}
  /\ pin \in [state : {"none", "failed", "rolled_back"}, pinned : Nat, blocked : Nat]
  /\ baks \in SUBSET Bak /\ clock \in 0 .. MaxTime
  /\ proc \in [Process -> Proc]
  /\ stored \in SUBSET Messages /\ broken \in SUBSET Nat
  /\ explicit \in BOOLEAN /\ cut \in BOOLEAN /\ mixed \in BOOLEAN

(* One process at a time is past the lock. *)
Locked == \A p, q \in Process : proc[p].pc # "off" /\ proc[q].pc # "off" => p = q

Copies == UNION {b.copy.rows : b \in baks}
IsNewest(b) == \A o \in baks : Before(o, b)
NewestHoldsAll == \E b \in baks : IsNewest(b) /\ b.copy.rows = stored
(* What a rollback needs of the backups: nothing is missing from them, nor,  *)
(* while --bak was never used, from the newest one.                          *)
Covered == stored \subseteq Copies /\ (~explicit => NewestHoldsAll)

(* The version the database has while a process is at work on it. *)
VersionAt(me) ==
  /\ me.pc \in {"backup", "migrate", "fail"} => me.from < me.bin
  /\ me.pc \in {"backup", "schema", "migrate"} => db.ver = me.from /\ me.from <= me.bin
  /\ me.pc \in Probing => db.ver = me.bin /\ me.from <= me.bin
  /\ me.pc = "up" => db.ver = me.bin /\ db.valid = me.bin

(* A process that got past the pin found none, or the one that parks the     *)
(* database at its own version; an upgrade starts with nothing broken.       *)
PinAt(me) ==
  /\ me.pc \in Opened =>
       \/ pin.state = "none"
       \/ pin.state = "rolled_back" /\ pin.pinned = db.ver /\ me.from = me.bin
  /\ me.pc \in Opened /\ me.from < me.bin => pin.state = "none" /\ broken = {}

(* An upgrade has its backup; a rollback has a failed pin and restores the   *)
(* newest backup, or one the operator named a second or more after the last. *)
BackupAt(me) ==
  /\ me.pc \in Upgrading /\ me.from < me.bin => Covered
  /\ me.pc \in Restoring => pin.state = "failed"
  /\ me.pc = "copy" => me.bak \in baks /\ (IsNewest(me.bak) \/ (explicit /\ \A b \in baks : b.at < clock))
  /\ me.pc \in {"open", "repin"} \cup Opened => disk = "own"

Phase(me) == VersionAt(me) /\ PinAt(me) /\ BackupAt(me)

(* A backup is known by its version and second; one of this second is not    *)
(* newer than the database, and one of its version holds no more.            *)
BackupsOrdered ==
  /\ \A b \in baks : b.from = b.copy.ver /\ b.at <= clock
  /\ \A b, c \in baks : b.from = c.from /\ b.at = c.at => b = c
  /\ \A b \in baks : b.at = clock => b.from <= db.ver
  /\ \A b \in baks : b.at = clock /\ b.from = db.ver => b.copy.rows \subseteq db.rows
  /\ \A b \in baks : ~explicit => b.from <= db.ver
  /\ baks = {} \/ \E b \in baks : IsNewest(b)

PinKept ==
  /\ pin.state = "failed" => Covered
  /\ \A b \in broken : pin.state # "none" /\ b <= pin.blocked

FilesKept ==
  /\ disk # "own" => pin.state = "failed"
  /\ disk # "own" => cut \/ \E p \in Process : proc[p].pc \in {"copy", "unwal"}
  /\ mixed => cut

RowsKept ==
  /\ stored \subseteq db.rows \cup Copies
  /\ ~explicit => db.rows = stored

UInv ==
  /\ Typed /\ Locked /\ \A p \in Process : Phase(proc[p])
  /\ BackupsOrdered /\ PinKept /\ FilesKept /\ RowsKept

-----------------------------------------------------------------------------
(* What the actions share *)

(* A step of the process past the lock, or the one that takes the lock. *)
LEMMA ProcMoves ==
  ASSUME Typed, Locked, NEW p \in Process, NEW r \in Proc,
         proc' = [proc EXCEPT ![p] = r],
         proc[p].pc # "off" \/ LockFree
  PROVE  /\ proc' \in [Process -> Proc] /\ proc'[p] = r /\ Locked'
         /\ \A q \in Process : q # p => proc[q].pc = "off" /\ proc'[q].pc = "off"
  <1>1. proc' \in [Process -> Proc] /\ proc'[p] = r BY DEF Typed
  <1>2. \A q \in Process : q # p => proc'[q] = proc[q] BY DEF Typed
  <1>3. \A q \in Process : q # p => proc[q].pc = "off" BY DEF Locked, LockFree
  <1>4. Locked' BY <1>2, <1>3 DEF Locked
  <1> QED BY <1>1, <1>2, <1>3, <1>4

LEMMA PhasesOf ==
  ASSUME NEW p \in Process, \A q \in Process : q # p => proc'[q].pc = "off", Phase(proc[p])'
  PROVE  (\A q \in Process : Phase(proc[q]))'
  <1>1. ASSUME NEW q \in Process, q # p PROVE Phase(proc[q])'
    BY <1>1 DEF Phase, VersionAt, PinAt, BackupAt, Opened, Upgrading, Probing, Restoring
  <1> QED BY <1>1

LEMMA SameBackups ==
  ASSUME baks' = baks
  PROVE  /\ Copies' = Copies
         /\ \A b : IsNewest(b)' = IsNewest(b)
         /\ stored' = stored /\ explicit' = explicit => Covered' = Covered
  BY DEF Copies, IsNewest, Covered, NewestHoldsAll

LEMMA ProcOf ==
  ASSUME Typed, NEW p \in Process
  PROVE  /\ proc[p] \in Proc /\ proc[p].bin \in Nat /\ proc[p].from \in Nat
         /\ proc[p].pc # "off" => /\ proc[p] \in [pc : Pcs, mode : Modes, bin : Binaries,
                                                 from : Nat, bak : Bak \cup {NoBak}]
                                  /\ \A pc \in Pcs : Moved(proc[p], pc) \in Proc
  <1>1. proc[p] \in Proc BY DEF Typed
  <1>2. CASE proc[p] = Off BY <1>1, <1>2 DEF Off
  <1>3. CASE proc[p] # Off
    <2>1. proc[p] \in [pc : Pcs, mode : Modes, bin : Binaries, from : Nat, bak : Bak \cup {NoBak}]
      BY <1>1, <1>3 DEF Proc
    <2>2. proc[p].bin \in Nat /\ proc[p].from \in Nat BY <2>1, SchemaAssumption
    <2>3. \A pc \in Pcs : Moved(proc[p], pc) \in Proc BY <2>1 DEF Moved, Proc
    <2> QED BY <1>1, <2>1, <2>2, <2>3
  <1> QED BY <1>2, <1>3

LEMMA OffIsProc == Off \in Proc
  BY DEF Proc

LEMMA DbTypes ==
  ASSUME Typed
  PROVE  /\ db.ver \in StartVersions \cup Binaries /\ db.ver \in Nat
         /\ db.rows \in SUBSET Messages /\ db.valid \in Binaries \cup {0}
         /\ db.probes \in SUBSET {"fts", "emb"}
         /\ clock \in Nat
  <1>1. db \in Db /\ clock \in 0 .. MaxTime BY DEF Typed
  <1>2. /\ db.ver \in StartVersions \cup Binaries
        /\ db.rows \in SUBSET Messages /\ db.valid \in Binaries \cup {0}
        /\ db.probes \in SUBSET {"fts", "emb"}
    BY <1>1 DEF Db
  <1>3. db.ver \in Nat BY <1>2, SchemaAssumption
  <1>4. clock \in Nat BY <1>1, SchemaAssumption
  <1> QED BY <1>2, <1>3, <1>4

(* A step that only moves the process on. *)
LEMMA ToMoves ==
  ASSUME Typed, Locked, NEW p \in Process, NEW pc \in Pcs, To(p, pc), proc[p].pc # "off"
  PROVE  /\ proc' \in [Process -> Proc] /\ Locked'
         /\ proc'[p].pc = pc /\ proc'[p].mode = proc[p].mode /\ proc'[p].bin = proc[p].bin
         /\ proc'[p].from = proc[p].from /\ proc'[p].bak = proc[p].bak
         /\ \A q \in Process : q # p => proc[q].pc = "off" /\ proc'[q].pc = "off"
  <1>1. Moved(proc[p], pc) \in Proc BY ProcOf
  <1>2. /\ proc' \in [Process -> Proc] /\ Locked' /\ proc'[p] = Moved(proc[p], pc)
        /\ \A q \in Process : q # p => proc[q].pc = "off" /\ proc'[q].pc = "off"
    BY <1>1, ProcMoves DEF To
  <1> QED BY <1>2 DEF Moved

(* A process that is not past the pin has nothing to keep. *)
LEMMA QuietPhase ==
  ASSUME NEW p \in Process, proc'[p].pc \in {"off", "open", "close", "restore"},
         proc'[p].pc = "open" => disk' = "own"
  PROVE  Phase(proc[p])'
  BY DEF Phase, VersionAt, PinAt, BackupAt, Opened, Upgrading, Probing, Restoring

(* A step that changes nothing but the process, the counters, and whether    *)
(* the -wal is there.                                                        *)
LEMMA GlobalSame ==
  ASSUME UInv, NEW p \in Process, NEW r \in Proc, proc' = [proc EXCEPT ![p] = r],
         proc[p].pc # "off" \/ LockFree,
         UNCHANGED <<db, disk, pin, baks, clock, stored, explicit, cut, mixed, broken>>,
         wal' \in BOOLEAN,
         proc[p].pc \notin {"copy", "unwal"},
         Phase(proc[p])'
  PROVE  UInv'
  <1>1. /\ proc' \in [Process -> Proc] /\ proc'[p] = r /\ Locked'
        /\ \A q \in Process : q # p => proc[q].pc = "off" /\ proc'[q].pc = "off"
    BY ProcMoves DEF UInv
  <1>3. (\A q \in Process : Phase(proc[q]))' BY <1>1, PhasesOf
  <1>4. Typed' BY <1>1 DEF UInv, Typed
  <1>5. Copies' = Copies /\ (\A b : IsNewest(b)' = IsNewest(b)) /\ Covered' = Covered
    BY SameBackups
  <1>6. BackupsOrdered' BY <1>5 DEF UInv, BackupsOrdered
  <1>7. PinKept' BY <1>5 DEF UInv, PinKept
  <1>8. FilesKept' BY <1>1 DEF UInv, FilesKept
  <1>9. RowsKept' BY <1>5 DEF UInv, RowsKept
  <1> QED BY <1>1, <1>3, <1>4, <1>6, <1>7, <1>8, <1>9 DEF UInv

(* A commit that leaves the rows alone: a migration, a probe, the record of  *)
(* a validation.                                                             *)
LEMMA DbMoves ==
  ASSUME UInv, NEW p \in Process, NEW r \in Proc, proc' = [proc EXCEPT ![p] = r],
         proc[p].pc \in Opened,
         NEW v \in StartVersions \cup Binaries, NEW x \in Binaries \cup {0}, NEW P \in SUBSET {"fts", "emb"},
         Commit(v, db.rows, x, P), v >= db.ver,
         UNCHANGED <<disk, pin, baks, clock, stored, explicit, cut, mixed, broken>>,
         Phase(proc[p])'
  PROVE  UInv'
  <1>1. /\ proc' \in [Process -> Proc] /\ proc'[p] = r /\ Locked'
        /\ \A q \in Process : q # p => proc[q].pc = "off" /\ proc'[q].pc = "off"
    <2>1. proc[p].pc # "off" BY DEF Opened, Upgrading, Probing
    <2> QED BY <2>1, ProcMoves DEF UInv
  <1>3. (\A q \in Process : Phase(proc[q]))' BY <1>1, PhasesOf
  <1>d. db' \in Db /\ db'.ver = v /\ db'.rows = db.rows
    BY DEF UInv, Typed, Db, Commit
  <1>4. Typed' BY <1>1, <1>d DEF UInv, Typed, Commit
  <1>5. Copies' = Copies /\ (\A b : IsNewest(b)' = IsNewest(b)) /\ Covered' = Covered
    BY SameBackups
  <1>v. v \in Nat /\ db.ver \in Nat BY SchemaAssumption DEF UInv, Typed, Db
  <1>6. BackupsOrdered'
    <2>1. \A b \in baks : b.from \in Nat BY DEF UInv, Typed, Bak
    <2>2. ASSUME NEW b \in baks, b.at = clock, b.from = v PROVE b.copy.rows \subseteq db.rows
      <3>1. b.from <= db.ver BY <2>2 DEF UInv, BackupsOrdered
      <3>2. b.from = db.ver BY <2>1, <2>2, <3>1, <1>v
      <3> QED BY <3>2, <2>2 DEF UInv, BackupsOrdered
    <2>3. \A b \in baks : b.from <= db.ver => b.from <= v BY <2>1, <1>v
    <2> QED BY <1>5, <1>d, <2>2, <2>3 DEF UInv, BackupsOrdered
  <1>7. PinKept' BY <1>5 DEF UInv, PinKept
  <1>8. FilesKept' BY <1>1 DEF UInv, FilesKept, BackupAt, Phase
  <1>9. RowsKept' BY <1>5, <1>d DEF UInv, RowsKept
  <1> QED BY <1>1, <1>3, <1>4, <1>6, <1>7, <1>8, <1>9 DEF UInv

-----------------------------------------------------------------------------
(* The actions *)

LEMMA LaunchKeeps ==
  ASSUME UInv, NEW p \in Process, NEW b \in Binaries, NEW mode \in Modes, Launch(p, b, mode)
  PROVE  UInv'
  <1> DEFINE r == Begin(IF mode = "rollback" THEN "restore" ELSE "open", mode, b)
  <1>0. b \in Nat BY SchemaAssumption
  <1>1. r \in Proc BY <1>0 DEF Begin, Proc, Pcs
  <1>2. LockFree /\ proc' = [proc EXCEPT ![p] = r] /\ wal' = wal
    BY DEF Launch
  <1>w. disk' = (IF mode = "rollback" THEN disk ELSE "own") BY DEF Launch
  <1>m. mixed' = (mixed \/ (mode # "rollback" /\ disk # "own")) BY Zenon DEF Launch
  <1>3. UNCHANGED <<db, pin, baks, clock, stored, explicit, cut, broken>> BY DEF Launch
  <1>4. /\ proc' \in [Process -> Proc] /\ proc'[p] = r /\ Locked'
        /\ \A q \in Process : q # p => proc[q].pc = "off" /\ proc'[q].pc = "off"
    BY <1>1, <1>2, ProcMoves DEF UInv
  <1>5. proc'[p].pc \in {"open", "restore"} /\ (proc'[p].pc = "open" => disk' = "own")
    BY <1>w, <1>4 DEF Begin
  <1>6. Phase(proc[p])' BY <1>5, QuietPhase
  <1>7. (\A q \in Process : Phase(proc[q]))' BY <1>4, <1>6, PhasesOf
  <1>8. Typed'
    <2>1. mixed' \in BOOLEAN BY <1>m, Zenon DEF UInv, Typed
    <2> QED BY <2>1, <1>2, <1>w, <1>3, <1>4 DEF UInv, Typed
  <1>9. Copies' = Copies /\ (\A x : IsNewest(x)' = IsNewest(x)) /\ Covered' = Covered
    BY <1>3, SameBackups
  <1>10. BackupsOrdered' BY <1>3, <1>9 DEF UInv, BackupsOrdered
  <1>11. PinKept' BY <1>3, <1>9 DEF UInv, PinKept
  <1>12. disk # "own" => cut BY <1>2 DEF UInv, FilesKept, LockFree
  <1>13. FilesKept'
    <2>1. mixed' => mixed \/ disk # "own" BY <1>m
    <2> QED BY <2>1, <1>w, <1>3, <1>12 DEF UInv, FilesKept
  <1>14. RowsKept' BY <1>3, <1>9 DEF UInv, RowsKept
  <1> QED BY <1>4, <1>7, <1>8, <1>10, <1>11, <1>13, <1>14 DEF UInv

(* Steps that only move the process on. *)
LEMMA ToKeeps ==
  ASSUME UInv, NEW p \in Process, NEW pc \in Pcs, To(p, pc), proc[p].pc # "off",
         proc[p].pc \notin {"copy", "unwal"},
         UNCHANGED <<db, disk, pin, baks, clock, stored, explicit, cut, mixed, broken>>,
         wal' \in BOOLEAN, Phase(proc[p])'
  PROVE  UInv'
  <1>1. Moved(proc[p], pc) \in Proc BY ProcOf DEF UInv
  <1> QED BY <1>1, GlobalSame DEF To

LEMMA OpenKeeps ==
  ASSUME UInv, NEW p \in Process, Open(p)
  PROVE  UInv'
  <1> DEFINE me == proc[p]
  <1>0. Typed /\ me \in Proc /\ me.bin \in Nat /\ me.pc = "open" /\ disk = "own"
    BY ProcOf DEF UInv, Open, Phase, BackupAt
  <1>d. db.ver \in Nat BY <1>0, DbTypes
  <1>b. wal' = wal /\ UNCHANGED <<db, disk, baks, clock, stored, explicit, cut, mixed>> BY DEF Open
  <1>1. CASE db.ver > me.bin \/ ~MayOpen(me.bin, me.mode)
    <2>1. To(p, "close") /\ UNCHANGED <<pin, broken>> BY <1>1 DEF Open
    <2>3. "close" \in Pcs /\ wal' \in BOOLEAN BY <1>0, <1>b DEF Pcs, Typed
    <2>2. Phase(proc[p])'
      <3>1. proc'[p].pc = "close" BY <2>1, <2>3, <1>0, ToMoves DEF UInv
      <3> QED BY <3>1, QuietPhase
    <2> QED BY <2>1, <2>2, <2>3, <1>0, <1>b, ToKeeps
  <1>2. CASE ~(db.ver > me.bin \/ ~MayOpen(me.bin, me.mode))
    <2> DEFINE r == Upgrades(me, db.ver, IF db.ver < me.bin THEN "backup" ELSE "schema")
    <2>1. /\ proc' = [proc EXCEPT ![p] = r]
          /\ pin' = (IF Overruled(me.bin, me.mode) THEN NoPin ELSE pin)
          /\ broken' = (IF me.mode = "migrate" THEN {} ELSE {b \in broken : b >= me.bin})
      BY <1>2 DEF Open
    <2>2. r \in Proc
      BY <1>0, <1>d, ProcOf DEF Upgrades, Proc, Pcs, Opened, Upgrading
    <2>3. /\ proc' \in [Process -> Proc] /\ proc'[p] = r /\ Locked'
          /\ \A q \in Process : q # p => proc[q].pc = "off" /\ proc'[q].pc = "off"
      BY <1>0, <2>1, <2>2, ProcMoves DEF UInv
    <2>4. db.ver <= me.bin BY <1>0, <1>d, <1>2
    <2>t. broken \in SUBSET Nat /\ pin.blocked \in Nat BY <1>0 DEF Typed
    <2>6. me.mode # "migrate" /\ Overruled(me.bin, me.mode) => broken' = {} /\ pin'.state = "none"
      <3>1. ASSUME me.mode # "migrate", Overruled(me.bin, me.mode) PROVE broken' = {}
        <4>1. me.bin > pin.blocked BY <3>1 DEF Overruled
        <4>2. \A b \in broken : b <= pin.blocked BY DEF UInv, PinKept
        <4>3. \A b \in broken : ~(b >= me.bin) BY <4>1, <4>2, <2>t, <1>0
        <4> QED BY <4>3, <3>1, <2>1
      <3> QED BY <3>1, <2>1 DEF NoPin
    <2>7. ~Overruled(me.bin, me.mode) => pin' = pin /\ (pin = NoPin \/ Parked(me.bin))
      BY <1>2, <2>1 DEF MayOpen
    <2>8. ~Overruled(me.bin, me.mode) /\ pin = NoPin => broken' = {} /\ pin'.state = "none"
      BY <2>1, <2>7 DEF UInv, PinKept, NoPin
    <2>9. \/ broken' = {} /\ pin'.state = "none"
          \/ pin' = pin /\ Parked(me.bin) /\ broken' \subseteq broken
      <3>1. CASE me.mode = "migrate" BY <2>1, <3>1 DEF Overruled, NoPin
      <3>2. CASE me.mode # "migrate" BY <2>1, <2>6, <2>7, <2>8, <3>2
      <3> QED BY <3>1, <3>2
    <2>10. /\ proc'[p].pc = (IF db.ver < me.bin THEN "backup" ELSE "schema")
           /\ proc'[p].from = db.ver /\ proc'[p].bin = me.bin
      BY <2>3 DEF Upgrades
    <2>11. VersionAt(proc[p])' BY <1>b, <1>0, <1>d, <2>4, <2>10 DEF VersionAt, Probing
    <2>12. PinAt(proc[p])'
      <3>1. CASE broken' = {} /\ pin'.state = "none" BY <3>1 DEF PinAt
      <3>2. CASE pin' = pin /\ Parked(me.bin)
        <4>1. pin.state = "rolled_back" /\ pin.pinned = db.ver /\ db.ver = me.bin BY <3>2 DEF Parked
        <4>2. proc'[p].from = proc'[p].bin /\ ~(proc'[p].from < proc'[p].bin) BY <4>1, <2>10, <1>d
        <4> QED BY <4>1, <4>2, <3>2, <1>b DEF PinAt
      <3> QED BY <2>9, <3>1, <3>2
    <2>13. BackupAt(proc[p])'
      <3>1. proc'[p].pc = "schema" => ~(proc'[p].from < proc'[p].bin) BY <2>4, <2>10, <1>d, <1>0
      <3> QED BY <3>1, <1>0, <1>b, <2>10 DEF BackupAt, Restoring, Upgrading, Probing
    <2>14. (\A q \in Process : Phase(proc[q]))'
      <3>1. Phase(proc[p])' BY <2>11, <2>12, <2>13 DEF Phase
      <3> QED BY <3>1, <2>3, PhasesOf
    <2>15. Typed'
      <3>1. pin' \in [state : {"none", "failed", "rolled_back"}, pinned : Nat, blocked : Nat]
        BY <2>1, <1>0 DEF Typed, NoPin
      <3>2. broken' \in SUBSET Nat BY <2>9, <2>t
      <3> QED BY <1>b, <1>0, <2>3, <3>1, <3>2 DEF Typed
    <2>16. Copies' = Copies /\ (\A x : IsNewest(x)' = IsNewest(x)) /\ Covered' = Covered
      BY <1>b, SameBackups
    <2>17. BackupsOrdered' BY <1>b, <2>16 DEF UInv, BackupsOrdered
    <2>18. PinKept' BY <2>9, <2>16 DEF UInv, PinKept, Parked
    <2>19. FilesKept' BY <1>0, <1>b DEF UInv, FilesKept
    <2>20. RowsKept' BY <1>b, <2>16 DEF UInv, RowsKept
    <2> QED BY <2>3, <2>14, <2>15, <2>17, <2>18, <2>19, <2>20 DEF UInv
  <1> QED BY <1>1, <1>2

LEMMA SchemaKeeps ==
  ASSUME UInv, NEW p \in Process, Schema(p)
  PROVE  UInv'
  <1> DEFINE me == proc[p]
             pc == IF me.from < me.bin THEN "migrate" ELSE IF db.valid = me.bin THEN "up" ELSE "probe"
  <1>0. Typed /\ me.pc = "schema" /\ me.from \in Nat /\ me.bin \in Nat /\ Phase(me)
    BY ProcOf DEF UInv, Schema
  <1>b. UNCHANGED <<db, disk, pin, baks, clock, stored, explicit, cut, mixed, broken>>
    BY DEF Schema, history
  <1>w. wal' \in BOOLEAN BY <1>0 DEF Schema, Typed
  <1>1. CASE To(p, "close")
    <2>1. "close" \in Pcs BY DEF Pcs
    <2>2. proc'[p].pc = "close" BY <2>1, <1>1, <1>0, ToMoves DEF UInv
    <2> QED BY <2>1, <2>2, <1>0, <1>1, <1>b, <1>w, ToKeeps, QuietPhase
  <1>2. CASE To(p, pc)
    <2>1. pc \in Pcs BY DEF Pcs, Opened, Upgrading, Probing
    <2>2. proc'[p].pc = pc /\ proc'[p].bin = me.bin /\ proc'[p].from = me.from
      BY <2>1, <1>2, <1>0, ToMoves DEF UInv
    <2>3. db.ver = me.from /\ me.from <= me.bin BY <1>0 DEF Phase, VersionAt
    <2>4. VersionAt(proc[p])' BY <2>2, <2>3, <1>0, <1>b DEF VersionAt, Probing
    <2>5. PinAt(proc[p])'
      BY <2>2, <1>0, <1>b DEF Phase, PinAt, Opened, Upgrading, Probing
    <2>6. Covered' = Covered BY <1>b, SameBackups
    <2>7. BackupAt(proc[p])'
      BY <2>2, <2>6, <1>0, <1>b DEF Phase, BackupAt, Opened, Upgrading, Probing, Restoring
    <2> QED BY <2>1, <2>4, <2>5, <2>7, <1>2, <1>0, <1>b, <1>w, ToKeeps DEF Phase
  <1> QED BY <1>1, <1>2 DEF Schema

(* Between the steps of an upgrade the promises of the phase carry over. *)
LEMMA UpgradePhase ==
  ASSUME UInv, NEW p \in Process, NEW pc \in Opened \cup {"close"}, To(p, pc),
         proc[p].pc \in Upgrading,
         UNCHANGED <<disk, pin, baks, clock, stored, explicit, broken>>,
         pc \in Opened => db'.ver = db.ver \/ proc[p].from < proc[p].bin,
         VersionAt(proc[p])'
  PROVE  Phase(proc[p])'
  <1>1. pc \in Pcs BY DEF Pcs
  <1>2. /\ proc'[p].pc = pc /\ proc'[p].bin = proc[p].bin /\ proc'[p].from = proc[p].from
        /\ proc[p].pc # "off"
    <2>1. proc[p].pc # "off" BY DEF Upgrading, Probing
    <2> QED BY <2>1, <1>1, ToMoves DEF UInv
  <1>3. Phase(proc[p]) BY DEF UInv
  <1>4. PinAt(proc[p])'
    BY <1>2, <1>3 DEF Phase, PinAt, Opened, Upgrading, Probing
  <1>5. Covered' = Covered BY SameBackups
  <1>6. BackupAt(proc[p])'
    BY <1>2, <1>3, <1>5 DEF Phase, BackupAt, Opened, Upgrading, Probing, Restoring
  <1> QED BY <1>4, <1>6 DEF Phase

LEMMA MigrateKeeps ==
  ASSUME UInv, NEW p \in Process, Migrate(p)
  PROVE  UInv'
  <1> DEFINE me == proc[p]
  <1>0. Typed /\ me.pc = "migrate" /\ me.from \in Nat /\ me.bin \in Nat /\ Phase(me)
    BY ProcOf DEF UInv, Migrate
  <1>b. UNCHANGED <<disk, pin, baks, clock, stored, explicit, cut, mixed, broken>>
    BY DEF Migrate, history
  <1>v. db.ver = me.from /\ me.from < me.bin BY <1>0 DEF Phase, VersionAt
  <1>n. me.pc # "off" /\ me.pc \in Upgrading /\ me.pc \in Opened /\ me.pc \notin {"copy", "unwal"}
    BY <1>0 DEF Opened, Upgrading
  <1>d. /\ db.valid \in Binaries \cup {0} /\ db.probes \in SUBSET {"fts", "emb"}
    BY <1>0, DbTypes
  <1>1. CASE To(p, "probe") /\ Commit(me.bin, db.rows, db.valid, db.probes)
    <2>1. "probe" \in Opened /\ "probe" \in Pcs BY DEF Opened, Upgrading, Probing, Pcs
    <2>2. proc'[p].pc = "probe" /\ proc'[p].bin = me.bin /\ proc'[p].from = me.from
      BY <2>1, <1>1, <1>n, ToMoves DEF UInv
    <2>3. db'.ver = me.bin BY <1>1 DEF Commit
    <2>4. VersionAt(proc[p])' BY <2>2, <2>3, <1>v, <1>0 DEF VersionAt
    <2>5. Phase(proc[p])' BY <2>1, <2>4, <1>1, <1>n, <1>b, <1>v, UpgradePhase
    <2>6. Moved(me, "probe") \in Proc BY <2>1, <1>0, ProcOf
    <2>7. me.bin >= db.ver BY <1>v, <1>0
    <2>8. me.bin \in StartVersions \cup Binaries BY <1>0, <1>n, ProcOf
    <2> QED BY <2>5, <2>6, <2>7, <2>8, <1>1, <1>n, <1>b, <1>d, DbMoves DEF To
  <1>2. CASE To(p, "fail") /\ UNCHANGED <<db, wal>>
    <2>1. "fail" \in Opened /\ "fail" \in Pcs BY DEF Opened, Upgrading, Pcs
    <2>2. proc'[p].pc = "fail" /\ proc'[p].bin = me.bin /\ proc'[p].from = me.from
      BY <2>1, <1>2, <1>n, ToMoves DEF UInv
    <2>4. VersionAt(proc[p])' BY <2>2, <1>v DEF VersionAt, Probing
    <2>5. Phase(proc[p])' BY <2>1, <2>4, <1>2, <1>n, <1>b, <1>v, UpgradePhase
    <2>6. wal' \in BOOLEAN BY <1>2, <1>0 DEF Typed
    <2> QED BY <2>1, <2>5, <2>6, <1>2, <1>n, <1>b, ToKeeps
  <1> QED BY <1>1, <1>2 DEF Migrate

LEMMA ProbePcs == /\ Probing \subseteq Upgrading /\ Upgrading \subseteq Opened /\ Opened \subseteq Pcs
                  /\ "close" \in Pcs /\ "off" \notin Opened /\ "fail" \in Upgrading
                  /\ \A pc \in Opened : pc \notin {"copy", "unwal"}
  BY DEF Probing, Upgrading, Opened, Pcs

(* A step of the validation, whose commits touch the probe rows only. *)
LEMMA ProbeMoves ==
  ASSUME UInv, NEW p \in Process, proc[p].pc \in Probing, NEW pc \in Probing, To(p, pc),
         NEW P \in SUBSET {"fts", "emb"}, Commit(db.ver, db.rows, db.valid, P),
         UNCHANGED <<disk, pin, baks, clock, history>>
  PROVE  UInv'
  <1>0. Typed /\ db.ver \in Nat /\ db.ver \in StartVersions \cup Binaries /\ db.valid \in Binaries \cup {0}
    BY DbTypes DEF UInv
  <1>1. proc[p].pc # "off" /\ pc \in Pcs /\ pc \in Opened /\ proc[p].pc \in Upgrading /\ proc[p].pc \in Opened
    BY ProbePcs
  <1>2. proc'[p].pc = pc /\ proc'[p].bin = proc[p].bin /\ proc'[p].from = proc[p].from
    BY <1>0, <1>1, ToMoves DEF UInv
  <1>3. db'.ver = db.ver BY DEF Commit
  <1>4. VersionAt(proc[p])' BY <1>2, <1>3 DEF UInv, Phase, VersionAt, Probing
  <1>5. Phase(proc[p])' BY <1>1, <1>3, <1>4, UpgradePhase DEF history
  <1>6. Moved(proc[p], pc) \in Proc BY <1>0, <1>1, ProcOf
  <1>7. db.ver >= db.ver BY <1>0
  <1> QED BY <1>0, <1>1, <1>5, <1>6, <1>7, DbMoves DEF To, history

(* A validation that fails: its phase is that of a failed upgrade, or none. *)
LEMMA FailMoves ==
  ASSUME UInv, NEW p \in Process, proc[p].pc \in Probing, To(p, Failing(p)),
         \/ UNCHANGED <<db, wal>>
         \/ \E P \in SUBSET {"fts", "emb"} : Commit(db.ver, db.rows, db.valid, P),
         UNCHANGED <<disk, pin, baks, clock, history>>
  PROVE  UInv'
  <1> DEFINE pc == Failing(p)
  <1>0. Typed /\ db.ver \in Nat /\ db.ver \in StartVersions \cup Binaries /\ db.valid \in Binaries \cup {0}
    BY DbTypes DEF UInv
  <1>1. (pc = "fail" /\ proc[p].from < proc[p].bin) \/ pc = "close" BY DEF Failing
  <1>2. /\ proc[p].pc # "off" /\ pc \in Pcs /\ pc \in Opened \cup {"close"}
        /\ proc[p].pc \in Upgrading /\ proc[p].pc \in Opened /\ proc[p].pc \notin {"copy", "unwal"}
    BY <1>1, ProbePcs
  <1>3. proc'[p].pc = pc /\ proc'[p].bin = proc[p].bin /\ proc'[p].from = proc[p].from
    BY <1>0, <1>2, ToMoves DEF UInv
  <1>4. db'.ver = db.ver BY DEF Commit
  <1>5. VersionAt(proc[p])' BY <1>1, <1>3 DEF VersionAt, Probing
  <1>6. Phase(proc[p])' BY <1>2, <1>4, <1>5, UpgradePhase DEF history
  <1>7. CASE UNCHANGED <<db, wal>>
    <2>1. wal' \in BOOLEAN BY <1>0, <1>7 DEF Typed
    <2> QED BY <2>1, <1>2, <1>6, <1>7, ToKeeps DEF history
  <1>8. ASSUME NEW P \in SUBSET {"fts", "emb"}, Commit(db.ver, db.rows, db.valid, P) PROVE UInv'
    <2>1. Moved(proc[p], pc) \in Proc BY <1>0, <1>2, ProcOf
    <2>2. db.ver >= db.ver BY <1>0
    <2> QED BY <2>1, <2>2, <1>0, <1>2, <1>6, <1>8, DbMoves DEF To, history
  <1> QED BY <1>7, <1>8

LEMMA InsertKeeps ==
  ASSUME UInv, NEW p \in Process, NEW pc \in Probing, NEW probe \in {"fts", "emb"}, NEW next \in Probing,
         Insert(p, pc, probe, next)
  PROVE  UInv'
  <1>0. db.probes \in SUBSET {"fts", "emb"} BY DbTypes DEF UInv
  <1>1. proc[p].pc \in Probing /\ UNCHANGED <<disk, pin, baks, clock, history>> BY DEF Insert
  <1>2. CASE To(p, Failing(p)) /\ UNCHANGED <<db, wal>> BY <1>1, <1>2, FailMoves
  <1>3. CASE To(p, next) /\ Commit(db.ver, db.rows, db.valid, db.probes \cup {probe})
    <2>1. db.probes \cup {probe} \in SUBSET {"fts", "emb"} BY <1>0
    <2> QED BY <2>1, <1>1, <1>3, ProbeMoves
  <1> QED BY <1>2, <1>3 DEF Insert

LEMMA DeleteKeeps ==
  ASSUME UInv, NEW p \in Process, NEW pc \in Probing, NEW probe \in {"fts", "emb"}, NEW next \in Probing,
         Delete(p, pc, probe, next)
  PROVE  UInv'
  <1>0. db.probes \ {probe} \in SUBSET {"fts", "emb"} BY DbTypes DEF UInv
  <1>1. proc[p].pc \in Probing /\ UNCHANGED <<disk, pin, baks, clock, history>> BY DEF Delete
  <1>2. CASE To(p, Failing(p)) /\ UNCHANGED <<db, wal>> BY <1>1, <1>2, FailMoves
  <1>3. CASE To(p, Failing(p)) /\ Commit(db.ver, db.rows, db.valid, db.probes \ {probe})
    BY <1>0, <1>1, <1>3, FailMoves
  <1>4. CASE To(p, next) /\ Commit(db.ver, db.rows, db.valid, db.probes \ {probe})
    BY <1>0, <1>1, <1>4, ProbeMoves
  <1> QED BY <1>2, <1>3, <1>4 DEF Delete

LEMMA ValidateKeeps ==
  ASSUME UInv, NEW p \in Process, Validate(p)
  PROVE  UInv'
  BY InsertKeeps, DeleteKeeps DEF Validate, Probing

LEMMA RecordKeeps ==
  ASSUME UInv, NEW p \in Process, Record(p)
  PROVE  UInv'
  <1> DEFINE me == proc[p]
  <1>0. /\ Typed /\ db.ver \in Nat /\ db.ver \in StartVersions \cup Binaries
        /\ db.probes \in SUBSET {"fts", "emb"}
    BY DbTypes DEF UInv
  <1>1. me.pc = "record" /\ To(p, "up") /\ Commit(db.ver, db.rows, me.bin, db.probes)
        /\ UNCHANGED <<disk, pin, baks, clock, history>>
    BY DEF Record
  <1>2. me.pc \in Probing /\ "up" \in Opened /\ "up" \in Pcs /\ me.pc # "off"
    BY <1>1 DEF Probing, Opened, Pcs
  <1>3. proc'[p].pc = "up" /\ proc'[p].bin = me.bin /\ proc'[p].from = me.from
    BY <1>0, <1>1, <1>2, ToMoves DEF UInv
  <1>4. db'.ver = db.ver /\ db'.valid = me.bin BY <1>1 DEF Commit
  <1>5. db.ver = me.bin BY <1>2 DEF UInv, Phase, VersionAt
  <1>6. VersionAt(proc[p])' BY <1>3, <1>4, <1>5 DEF VersionAt, Probing
  <1>7. me.pc \in Upgrading /\ me.pc \in Opened BY <1>2, ProbePcs
  <1>8. Phase(proc[p])' BY <1>1, <1>2, <1>4, <1>6, <1>7, UpgradePhase DEF history
  <1>9. Moved(me, "up") \in Proc /\ me.bin \in Binaries BY <1>0, <1>2, ProcOf
  <1>10. db.ver >= db.ver /\ me.bin \in Binaries \cup {0} BY <1>0, <1>9
  <1> QED BY <1>0, <1>1, <1>7, <1>8, <1>9, <1>10, DbMoves DEF To, history

LEMMA ExitKeeps ==
  ASSUME UInv, NEW p \in Process, Exit(p)
  PROVE  UInv'
  <1>1. /\ proc[p].pc \in {"close", "up"} /\ proc[p].pc # "off" /\ proc[p].pc \notin {"copy", "unwal"}
        /\ proc' = [proc EXCEPT ![p] = Off] /\ wal' \in BOOLEAN
        /\ UNCHANGED <<db, disk, pin, baks, clock, history>>
    BY DEF Exit
  <1>2. proc'[p] = Off BY <1>1, OffIsProc, ProcMoves DEF UInv
  <1>3. Phase(proc[p])' BY <1>2, QuietPhase DEF Off
  <1> QED BY <1>1, <1>3, OffIsProc, GlobalSame DEF history

LEMMA WritePinKeeps ==
  ASSUME UInv, NEW p \in Process, WritePin(p)
  PROVE  UInv'
  <1> DEFINE me == proc[p]
  <1>0. /\ Typed /\ me.pc = "fail" /\ me.from \in Nat /\ me.bin \in Nat /\ me.pc # "off"
        /\ me.pc \notin {"copy", "unwal"} /\ To(p, "close") /\ "close" \in Pcs
    BY ProcOf DEF UInv, WritePin, Pcs
  <1>b. UNCHANGED <<db, wal, disk, baks, clock, stored, explicit, cut, mixed>> BY DEF WritePin
  <1>1. me.from < me.bin /\ broken = {} /\ Covered
    BY <1>0 DEF UInv, Phase, VersionAt, PinAt, BackupAt, Opened, Upgrading
  <1>2. /\ proc' \in [Process -> Proc] /\ Locked' /\ proc'[p].pc = "close"
        /\ \A q \in Process : q # p => proc[q].pc = "off" /\ proc'[q].pc = "off"
    BY <1>0, ToMoves DEF UInv
  <1>3. (\A q \in Process : Phase(proc[q]))' BY <1>2, QuietPhase, PhasesOf
  <1>4. /\ Copies' = Copies /\ (\A b : IsNewest(b)' = IsNewest(b)) /\ Covered' = Covered
    BY <1>b, SameBackups
  <1>5. \/ UNCHANGED <<pin, broken>>
        \/ /\ pin' = [state |-> "failed", pinned |-> me.from, blocked |-> me.bin]
           /\ broken' = {me.bin}
    BY <1>1 DEF WritePin
  <1>6. Typed'
    <2>1. pin' \in [state : {"none", "failed", "rolled_back"}, pinned : Nat, blocked : Nat]
      BY <1>0, <1>5 DEF Typed
    <2>2. broken' \in SUBSET Nat BY <1>0, <1>5 DEF Typed
    <2> QED BY <2>1, <2>2, <1>0, <1>2, <1>b DEF Typed
  <1>7. BackupsOrdered' BY <1>b, <1>4 DEF UInv, BackupsOrdered
  <1>8. PinKept' BY <1>0, <1>1, <1>4, <1>5 DEF UInv, PinKept
  <1>9. disk = "own" BY <1>0 DEF UInv, Phase, BackupAt, Opened, Upgrading
  <1>10. FilesKept' BY <1>9, <1>b DEF UInv, FilesKept
  <1>11. RowsKept' BY <1>b, <1>4 DEF UInv, RowsKept
  <1> QED BY <1>2, <1>3, <1>6, <1>7, <1>8, <1>10, <1>11 DEF UInv

(* The backups after one of the database was made at time t. *)
LEMMA BackupMade ==
  ASSUME UInv, NEW t \in 0 .. MaxTime, clock <= t, clock' = t, baks' = WithBak(db.ver, t),
         UNCHANGED <<db, stored, explicit>>
  PROVE  /\ baks' \in SUBSET Bak /\ BackupsOrdered' /\ RowsKept' /\ Covered'
  <1> DEFINE new == [from |-> db.ver, at |-> t, copy |-> db]
  <1>0. /\ Typed /\ db \in Db /\ db.ver \in Nat /\ clock \in Nat /\ t \in Nat /\ baks \in SUBSET Bak
        /\ \A b \in baks : b.from \in Nat /\ b.at \in Nat /\ b.at <= clock
    <2>1. Typed /\ db \in Db /\ baks \in SUBSET Bak /\ t \in Nat BY SchemaAssumption DEF UInv, Typed
    <2>2. db.ver \in Nat /\ clock \in Nat BY <2>1, DbTypes
    <2> QED BY <2>1, <2>2 DEF Bak, UInv, BackupsOrdered
  <1>1. /\ \A b \in baks' : b = new \/ (b \in baks /\ (b.from # db.ver \/ b.at # t))
        /\ new \in baks' /\ \A b \in baks : b.from # db.ver \/ b.at # t => b \in baks'
        /\ new.from = db.ver /\ new.at = t /\ new.copy = db
    BY DEF WithBak
  <1>2. baks' \in SUBSET Bak BY <1>0, <1>1 DEF Bak
  <1>3. Copies \subseteq db.rows \cup Copies'
    <2>1. ASSUME NEW b \in baks PROVE b.copy.rows \subseteq db.rows \cup Copies'
      <3>1. CASE b \in baks' BY <3>1 DEF Copies
      <3>2. CASE b \notin baks'
        <4>1. b.from = db.ver /\ b.at = t BY <1>1, <3>2
        <4>2. b.at = clock BY <4>1, <1>0
        <4> QED BY <4>1, <4>2 DEF UInv, BackupsOrdered
      <3> QED BY <3>1, <3>2
    <2> QED BY <2>1 DEF Copies
  <1>4. stored \subseteq Copies'
    <2>1. db.rows \subseteq Copies' BY <1>1 DEF Copies
    <2> QED BY <2>1, <1>3 DEF UInv, RowsKept
  <1>5. RowsKept' BY <1>4 DEF UInv, RowsKept
  <1>6. ASSUME ~explicit PROVE (\A o \in baks : Before(o, new)) /\ (\A o \in baks' : Before(o, new))
    <2>1. \A o \in baks : o.from <= db.ver /\ o.at <= t BY <1>0, <1>6 DEF UInv, BackupsOrdered
    <2>2. \A o \in baks : Before(o, new) BY <2>1, <1>0, <1>1 DEF Before
    <2>3. Before(new, new) BY <1>0, <1>1 DEF Before
    <2> QED BY <2>2, <2>3, <1>1
  <1>7. Covered'
    <2>1. ASSUME ~explicit PROVE NewestHoldsAll'
      <3>1. new.copy.rows = stored BY <1>1, <2>1 DEF UInv, RowsKept
      <3> QED BY <3>1, <1>1, <1>6, <2>1 DEF NewestHoldsAll, IsNewest
    <2> QED BY <2>1, <1>4 DEF Covered
  <1>8. \A b \in baks' : b.from = b.copy.ver /\ b.at <= t
    BY <1>0, <1>1 DEF UInv, BackupsOrdered
  <1>9. \A b, c \in baks' : b.from = c.from /\ b.at = c.at => b = c
    BY <1>1 DEF UInv, BackupsOrdered
  <1>10. \A b \in baks' : b.at = t => b.from <= db.ver /\ (b.from = db.ver => b.copy.rows \subseteq db.rows)
    <2>1. ASSUME NEW b \in baks, b.at = t, b.from # db.ver PROVE b.from <= db.ver
      <3>1. b.at = clock BY <1>0, <2>1
      <3> QED BY <3>1, <2>1 DEF UInv, BackupsOrdered
    <2> QED BY <2>1, <1>0, <1>1
  <1>11. \A b \in baks' : ~explicit => b.from <= db.ver
    BY <1>0, <1>1 DEF UInv, BackupsOrdered
  <1>12. \E b \in baks' : IsNewest(b)'
    <2>1. CASE \A o \in baks : Before(o, new)
      <3>1. Before(new, new) BY <1>0, <1>1 DEF Before
      <3> QED BY <2>1, <3>1, <1>1 DEF IsNewest
    <2>2. CASE \E o \in baks : ~Before(o, new)
      <3>1. PICK b \in baks : IsNewest(b) BY <2>2 DEF UInv, BackupsOrdered
      <3>2. PICK o \in baks : ~Before(o, new) BY <2>2
      <3>3. Before(o, b) BY <3>1 DEF IsNewest
      <3>4. b.from # db.ver \/ b.at # t
        BY <3>2, <3>3, <1>0, <1>1 DEF Before
      <3>5. Before(new, b) BY <3>2, <3>3, <1>0, <1>1 DEF Before
      <3>6. b \in baks' BY <3>4, <1>1
      <3> QED BY <3>1, <3>5, <3>6, <1>1 DEF IsNewest
    <2> QED BY <2>1, <2>2
  <1>13. BackupsOrdered' BY <1>8, <1>9, <1>10, <1>11, <1>12 DEF BackupsOrdered
  <1> QED BY <1>2, <1>5, <1>7, <1>13

LEMMA BackupKeeps ==
  ASSUME UInv, NEW p \in Process, Backup(p)
  PROVE  UInv'
  <1> DEFINE me == proc[p]
  <1>0. /\ Typed /\ me.pc = "backup" /\ me.pc # "off" /\ me.pc \notin {"copy", "unwal"}
        /\ wal' = FALSE /\ clock \in Nat
    BY DbTypes DEF UInv, Backup
  <1>b. UNCHANGED <<db, disk, pin, stored, explicit, cut, mixed, broken>> BY DEF Backup, history
  <1>v. db.ver = me.from /\ me.from < me.bin BY <1>0 DEF UInv, Phase, VersionAt
  <1>1. CASE To(p, "close") /\ UNCHANGED <<baks, clock>>
    <2>1. "close" \in Pcs BY DEF Pcs
    <2>2. proc'[p].pc = "close" BY <2>1, <1>0, <1>1, ToMoves DEF UInv
    <2> QED BY <2>1, <2>2, <1>0, <1>1, <1>b, QuietPhase, ToKeeps
  <1>2. CASE To(p, "schema") /\ clock' \in clock .. MaxTime /\ baks' = WithBak(me.from, clock')
    <2>1. "schema" \in Pcs BY DEF Pcs, Opened, Upgrading
    <2>2. /\ proc' \in [Process -> Proc] /\ Locked' /\ proc'[p].pc = "schema"
          /\ proc'[p].bin = me.bin /\ proc'[p].from = me.from
          /\ \A q \in Process : q # p => proc[q].pc = "off" /\ proc'[q].pc = "off"
      BY <2>1, <1>0, <1>2, ToMoves DEF UInv
    <2>3. PICK t \in clock .. MaxTime : clock' = t /\ baks' = WithBak(db.ver, t) BY <1>2, <1>v
    <2>4. t \in 0 .. MaxTime /\ clock <= t BY <1>0, SchemaAssumption
    <2>5. baks' \in SUBSET Bak /\ BackupsOrdered' /\ RowsKept' /\ Covered'
      BY <2>3, <2>4, <1>b, BackupMade
    <2>6. Phase(me) BY DEF UInv
    <2>7. VersionAt(proc[p])' 
      <3>1. me.from <= me.bin BY <1>v, <1>0, ProcOf
      <3> QED BY <3>1, <2>2, <1>b, <1>v DEF VersionAt, Probing
    <2>8. PinAt(proc[p])' BY <2>2, <2>6, <1>0, <1>b DEF Phase, PinAt, Opened, Upgrading
    <2>9. BackupAt(proc[p])'
      BY <2>2, <2>5, <2>6, <1>0, <1>b DEF Phase, BackupAt, Opened, Upgrading, Probing, Restoring
    <2>10. (\A q \in Process : Phase(proc[q]))' BY <2>2, <2>7, <2>8, <2>9, PhasesOf DEF Phase
    <2>11. Typed' BY <2>2, <2>3, <2>4, <2>5, <1>0, <1>b DEF Typed
    <2>12. PinKept' BY <2>5, <1>b DEF UInv, PinKept
    <2>13. FilesKept' BY <2>2, <1>0, <1>b DEF UInv, FilesKept
    <2> QED BY <2>2, <2>5, <2>10, <2>11, <2>12, <2>13 DEF UInv
  <1> QED BY <1>1, <1>2 DEF Backup

LEMMA StoreKeeps ==
  ASSUME UInv, NEW p \in Process, NEW msg \in Messages, Store(p, msg)
  PROVE  UInv'
  <1> DEFINE me == proc[p]
  <1>0. /\ Typed /\ me.pc = "up" /\ db.ver \in Nat /\ stored' = stored \cup {msg}
        /\ UNCHANGED <<disk, pin, baks, clock, proc, explicit, cut, mixed, broken>>
        /\ Commit(db.ver, db.rows \cup {msg}, db.valid, db.probes)
    BY DbTypes DEF UInv, Store, Serving
  <1>1. /\ db' \in Db /\ db'.ver = db.ver /\ db'.valid = db.valid /\ db'.rows = db.rows \cup {msg}
        /\ wal' = TRUE
    BY <1>0 DEF Commit, Typed, Db
  <1>2. Typed' BY <1>0, <1>1 DEF Typed
  <1>3. Locked' BY <1>0 DEF UInv, Locked
  <1>4. \A q \in Process : q # p => proc'[q].pc = "off" BY <1>0 DEF UInv, Locked
  <1>5. Phase(me) BY DEF UInv
  <1>6. Phase(proc[p])'
    BY <1>0, <1>1, <1>5
       DEF Phase, VersionAt, PinAt, BackupAt, Opened, Upgrading, Probing, Restoring
  <1>7. (\A q \in Process : Phase(proc[q]))' BY <1>4, <1>6, PhasesOf
  <1>8. Copies' = Copies /\ (\A b : IsNewest(b)' = IsNewest(b)) BY <1>0, SameBackups
  <1>9. BackupsOrdered' BY <1>0, <1>1, <1>8 DEF UInv, BackupsOrdered
  <1>10. pin.state # "failed" BY <1>0, <1>5 DEF Phase, PinAt, Opened
  <1>11. PinKept' BY <1>0, <1>10 DEF UInv, PinKept
  <1>12. FilesKept' BY <1>0 DEF UInv, FilesKept
  <1>13. RowsKept' BY <1>0, <1>1, <1>8 DEF UInv, RowsKept
  <1> QED BY <1>2, <1>3, <1>7, <1>9, <1>11, <1>12, <1>13 DEF UInv

LEMMA StopKeeps ==
  ASSUME UInv, NEW p \in Process, Stop(p)
  PROVE  UInv'
  <1>1. /\ proc[p].pc # "off" /\ proc[p].pc \notin {"copy", "unwal"}
        /\ proc' = [proc EXCEPT ![p] = Off] /\ UNCHANGED <<files, history>>
    BY DEF Stop, Serving
  <1>2. proc'[p] = Off BY <1>1, OffIsProc, ProcMoves DEF UInv
  <1>3. Phase(proc[p])' BY <1>2, QuietPhase DEF Off
  <1>4. wal' \in BOOLEAN BY <1>1 DEF files, UInv, Typed
  <1> QED BY <1>1, <1>3, <1>4, OffIsProc, GlobalSame DEF history, files

LEMMA CrashKeeps ==
  ASSUME UInv, NEW p \in Process, Crash(p)
  PROVE  UInv'
  <1>1. /\ proc[p].pc # "off" /\ proc' = [proc EXCEPT ![p] = Off]
        /\ UNCHANGED <<db, wal, disk, pin, baks, clock, stored, explicit, mixed, broken>>
    BY DEF Crash, files
  <1>c. cut' = (cut \/ disk # "own") BY Zenon DEF Crash
  <1>2. /\ proc' \in [Process -> Proc] /\ Locked' /\ proc'[p] = Off
        /\ \A q \in Process : q # p => proc[q].pc = "off" /\ proc'[q].pc = "off"
    BY <1>1, OffIsProc, ProcMoves DEF UInv
  <1>3. (\A q \in Process : Phase(proc[q]))'
    <2>1. proc'[p].pc = "off" BY <1>2 DEF Off
    <2> QED BY <2>1, <1>2, QuietPhase, PhasesOf
  <1>4. Typed'
    <2>1. cut' \in BOOLEAN BY <1>c, Zenon
    <2> QED BY <2>1, <1>1, <1>2 DEF UInv, Typed
  <1>5. Copies' = Copies /\ (\A b : IsNewest(b)' = IsNewest(b)) /\ Covered' = Covered
    BY <1>1, SameBackups
  <1>6. BackupsOrdered' BY <1>1, <1>5 DEF UInv, BackupsOrdered
  <1>7. PinKept' BY <1>1, <1>5 DEF UInv, PinKept
  <1>8. FilesKept'
    <2>1. (cut => cut') /\ (disk # "own" => cut') BY <1>c
    <2> QED BY <2>1, <1>1 DEF UInv, FilesKept
  <1>9. RowsKept' BY <1>1, <1>5 DEF UInv, RowsKept
  <1> QED BY <1>2, <1>3, <1>4, <1>6, <1>7, <1>8, <1>9 DEF UInv

LEMMA ChooseKeeps ==
  ASSUME UInv, NEW p \in Process, Choose(p)
  PROVE  UInv'
  <1> DEFINE me == proc[p]
  <1>0. /\ Typed /\ me.pc = "restore" /\ me.pc # "off" /\ me.pc \notin {"copy", "unwal"} /\ clock \in Nat
        /\ UNCHANGED <<db, wal, pin, baks, stored, cut, mixed, broken>>
    BY DbTypes DEF UInv, Choose
  <1>1. CASE proc' = [proc EXCEPT ![p] = Off] /\ UNCHANGED <<disk, clock, explicit>>
    <2>1. proc'[p] = Off BY <1>1, <1>0, OffIsProc, ProcMoves DEF UInv
    <2>2. Phase(proc[p])' BY <2>1, QuietPhase DEF Off
    <2>3. wal' \in BOOLEAN BY <1>0 DEF Typed
    <2> QED BY <1>0, <1>1, <2>2, <2>3, OffIsProc, GlobalSame
  <1>2. ASSUME NEW b \in baks, pin.state = "failed",
               proc' = [proc EXCEPT ![p] = Restores(me, b)], disk' = "torn",
               \/ b = Newest /\ UNCHANGED <<clock, explicit>>
               \/ explicit' = TRUE /\ clock' \in clock + 1 .. MaxTime
        PROVE  UInv'
    <2>1. Restores(me, b) \in Proc
      BY <1>0, ProcOf DEF Restores, Proc, Pcs, Restoring, Typed
    <2>2. /\ proc' \in [Process -> Proc] /\ Locked' /\ proc'[p] = Restores(me, b)
          /\ \A q \in Process : q # p => proc[q].pc = "off" /\ proc'[q].pc = "off"
      BY <1>0, <1>2, <2>1, ProcMoves DEF UInv
    <2>3. proc'[p].pc = "copy" /\ proc'[p].bak = b BY <2>2 DEF Restores
    <2>4. /\ clock' \in 0 .. MaxTime /\ clock' >= clock /\ clock' \in Nat
          /\ explicit' \in BOOLEAN /\ (explicit => explicit')
      <3>1. clock \in 0 .. MaxTime /\ explicit \in BOOLEAN BY <1>0 DEF Typed
      <3>2. CASE UNCHANGED <<clock, explicit>> BY <3>1, <3>2, <1>0
      <3>3. CASE explicit' = TRUE /\ clock' \in clock + 1 .. MaxTime
        BY <3>1, <3>3, <1>0, SchemaAssumption
      <3> QED BY <1>2, <3>2, <3>3
    <2>5. \A o \in baks : o.at \in Nat /\ o.at <= clock BY <1>0 DEF UInv, BackupsOrdered, Typed, Bak
    <2>6. Copies' = Copies /\ (\A o : IsNewest(o)' = IsNewest(o)) BY <1>0, SameBackups
    <2>7. IsNewest(b) \/ (explicit' /\ \A o \in baks : o.at < clock')
      <3>1. CASE b = Newest
        <4>1. \E o \in baks : IsNewest(o) BY DEF UInv, BackupsOrdered
        <4>2. IsNewest(Newest) BY <4>1 DEF Newest, IsNewest
        <4> QED BY <3>1, <4>2
      <3>2. CASE explicit' = TRUE /\ clock' \in clock + 1 .. MaxTime
        BY <3>2, <2>5, <1>0, SchemaAssumption
      <3> QED BY <3>1, <3>2, <1>2
    <2>8. Phase(proc[p])'
      BY <2>3, <2>6, <2>7, <1>0, <1>2
         DEF Phase, VersionAt, PinAt, BackupAt, Opened, Upgrading, Probing, Restoring
    <2>9. (\A q \in Process : Phase(proc[q]))' BY <2>2, <2>8, PhasesOf
    <2>10. Typed' BY <2>2, <2>4, <1>0, <1>2 DEF Typed
    <2>11. BackupsOrdered'
      <3>1. \A o \in baks : o.at <= clock' /\ (o.at = clock' => o.at = clock)
        BY <2>4, <2>5, <1>0
      <3>2. ~explicit' => ~explicit BY <2>4
      <3> QED BY <3>1, <3>2, <2>6, <1>0 DEF UInv, BackupsOrdered
    <2>12. Covered' BY <2>4, <2>6, <1>0, <1>2 DEF UInv, PinKept, Covered, NewestHoldsAll
    <2>13. PinKept' BY <2>12, <1>0 DEF UInv, PinKept
    <2>14. FilesKept' BY <2>3, <1>0, <1>2 DEF UInv, FilesKept
    <2>15. RowsKept' BY <2>4, <2>6, <1>0 DEF UInv, RowsKept
    <2> QED BY <2>2, <2>9, <2>10, <2>11, <2>13, <2>14, <2>15 DEF UInv
  <1> QED BY <1>0, <1>1, <1>2 DEF Choose

LEMMA CopyKeeps ==
  ASSUME UInv, NEW p \in Process, Copy(p)
  PROVE  UInv'
  <1> DEFINE me == proc[p]
  <1>0. /\ Typed /\ me.pc = "copy" /\ me.pc # "off" /\ To(p, "unwal") /\ "unwal" \in Pcs
        /\ disk' = (IF wal THEN "foreign" ELSE "own") /\ db' = me.bak.copy /\ mixed' = FALSE
        /\ UNCHANGED <<wal, pin, baks, clock, stored, explicit, cut, broken>>
    BY DEF UInv, Copy, Pcs, Restoring
  <1>1. /\ me.bak \in baks /\ pin.state = "failed" /\ Covered
        /\ IsNewest(me.bak) \/ (explicit /\ \A b \in baks : b.at < clock)
    BY <1>0 DEF UInv, Phase, BackupAt, Restoring, PinKept
  <1>2. /\ proc' \in [Process -> Proc] /\ Locked' /\ proc'[p].pc = "unwal"
        /\ \A q \in Process : q # p => proc[q].pc = "off" /\ proc'[q].pc = "off"
    BY <1>0, ToMoves DEF UInv
  <1>3. Phase(proc[p])'
    BY <1>0, <1>1, <1>2 DEF Phase, VersionAt, PinAt, BackupAt, Opened, Upgrading, Probing, Restoring
  <1>4. (\A q \in Process : Phase(proc[q]))' BY <1>2, <1>3, PhasesOf
  <1>5. /\ db' \in Db /\ db'.ver = me.bak.from /\ clock \in Nat
        /\ \A b \in baks : b.from \in Nat /\ b.at \in Nat /\ b.at <= clock
    <2>1. baks \in SUBSET Bak /\ clock \in Nat BY <1>0, DbTypes DEF Typed
    <2> QED BY <2>1, <1>0, <1>1 DEF Bak, UInv, BackupsOrdered
  <1>6. Typed' BY <1>0, <1>2, <1>5 DEF Typed
  <1>7. /\ Copies' = Copies /\ (\A b : IsNewest(b)' = IsNewest(b)) /\ Covered' = Covered
    BY <1>0, SameBackups
  <1>8. IsNewest(me.bak) => \A b \in baks : Before(b, me.bak) BY DEF IsNewest
  <1>9. \A b, c \in baks : b.from = c.from /\ b.at = c.at => b = c BY DEF UInv, BackupsOrdered
  <1>10. BackupsOrdered'
    <2>1. ASSUME NEW b \in baks, IsNewest(me.bak) PROVE b.from <= me.bak.from
      <3>1. Before(b, me.bak) BY <1>8, <2>1
      <3> QED BY <3>1, <1>1, <1>5 DEF Before
    <2>2. ASSUME NEW b \in baks, b.at = clock, b.from = me.bak.from
          PROVE  b.copy.rows \subseteq me.bak.copy.rows
      <3>1. IsNewest(me.bak) BY <2>2, <1>1, <1>5
      <3>2. Before(b, me.bak) BY <3>1, <1>8
      <3>3. b.at = me.bak.at BY <3>2, <2>2, <1>1, <1>5 DEF Before
      <3>4. b = me.bak BY <3>3, <2>2, <1>1, <1>9
      <3> QED BY <3>4
    <2>3. \A b \in baks : b.at = clock => IsNewest(me.bak) BY <1>1, <1>5
    <2>4. ~explicit => IsNewest(me.bak) BY <1>1
    <2>5. db'.rows = me.bak.copy.rows BY <1>0
    <2> QED BY <2>1, <2>2, <2>3, <2>4, <2>5, <1>0, <1>5, <1>7 DEF UInv, BackupsOrdered
  <1>11. PinKept' BY <1>0, <1>7 DEF UInv, PinKept
  <1>12. FilesKept' BY <1>0, <1>1, <1>2 DEF FilesKept
  <1>13. RowsKept'
    <2>1. stored \subseteq Copies BY <1>1 DEF Covered
    <2>2. ASSUME ~explicit PROVE me.bak.copy.rows = stored
      <3>1. IsNewest(me.bak) BY <1>1, <2>2
      <3>2. PICK n \in baks : IsNewest(n) /\ n.copy.rows = stored BY <1>1, <2>2 DEF Covered, NewestHoldsAll
      <3>3. Before(n, me.bak) /\ Before(me.bak, n) BY <3>1, <3>2, <1>1 DEF IsNewest
      <3>4. n.from = me.bak.from /\ n.at = me.bak.at BY <3>3, <1>1, <1>5 DEF Before
      <3>5. n = me.bak BY <3>4, <1>1, <1>9
      <3> QED BY <3>2, <3>5
    <2> QED BY <2>1, <2>2, <1>0, <1>7 DEF RowsKept
  <1> QED BY <1>2, <1>4, <1>6, <1>10, <1>11, <1>12, <1>13 DEF UInv

LEMMA RemoveSidecarsKeeps ==
  ASSUME UInv, NEW p \in Process, RemoveSidecars(p)
  PROVE  UInv'
  <1>0. /\ Typed /\ proc[p].pc = "unwal" /\ To(p, "repin") /\ "repin" \in Pcs
        /\ wal' = FALSE /\ disk' = "own" /\ UNCHANGED <<db, pin, baks, clock, history>>
    BY DEF UInv, RemoveSidecars, Pcs, Restoring
  <1>1. /\ proc' \in [Process -> Proc] /\ Locked' /\ proc'[p].pc = "repin"
        /\ \A q \in Process : q # p => proc[q].pc = "off" /\ proc'[q].pc = "off"
    BY <1>0, ToMoves DEF UInv
  <1>2. pin.state = "failed" BY <1>0 DEF UInv, Phase, BackupAt, Restoring
  <1>3. Phase(proc[p])'
    BY <1>0, <1>1, <1>2 DEF Phase, VersionAt, PinAt, BackupAt, Opened, Upgrading, Probing, Restoring
  <1>4. (\A q \in Process : Phase(proc[q]))' BY <1>1, <1>3, PhasesOf
  <1>5. Typed' BY <1>0, <1>1 DEF Typed, history
  <1>6. Copies' = Copies /\ (\A b : IsNewest(b)' = IsNewest(b)) /\ Covered' = Covered
    BY <1>0, SameBackups DEF history
  <1>7. BackupsOrdered' BY <1>0, <1>6 DEF UInv, BackupsOrdered, history
  <1>8. PinKept' BY <1>0, <1>6 DEF UInv, PinKept, history
  <1>9. FilesKept' BY <1>0 DEF UInv, FilesKept, history
  <1>10. RowsKept' BY <1>0, <1>6 DEF UInv, RowsKept, history
  <1> QED BY <1>1, <1>4, <1>5, <1>7, <1>8, <1>9, <1>10 DEF UInv

LEMMA RepinKeeps ==
  ASSUME UInv, NEW p \in Process, Repin(p)
  PROVE  UInv'
  <1> DEFINE me == proc[p]
  <1>0. /\ Typed /\ me.pc = "repin" /\ me.pc # "off" /\ me.bin \in Nat /\ db.ver \in Nat
        /\ proc' = [proc EXCEPT ![p] = Off]
        /\ pin' = [state |-> "rolled_back", pinned |-> db.ver, blocked |-> me.bin]
        /\ broken' = {b \in broken : b <= me.bin}
        /\ UNCHANGED <<db, wal, disk, baks, clock, stored, explicit, cut, mixed>>
    BY ProcOf, DbTypes DEF UInv, Repin
  <1>1. /\ proc' \in [Process -> Proc] /\ Locked' /\ proc'[p] = Off
        /\ \A q \in Process : q # p => proc[q].pc = "off" /\ proc'[q].pc = "off"
    BY <1>0, OffIsProc, ProcMoves DEF UInv
  <1>2. (\A q \in Process : Phase(proc[q]))'
    <2>1. proc'[p].pc = "off" BY <1>1 DEF Off
    <2> QED BY <2>1, <1>1, QuietPhase, PhasesOf
  <1>3. disk = "own" BY <1>0 DEF UInv, Phase, BackupAt
  <1>4. Typed'
    <2>1. pin' \in [state : {"none", "failed", "rolled_back"}, pinned : Nat, blocked : Nat] BY <1>0
    <2>2. broken' \in SUBSET Nat BY <1>0 DEF Typed
    <2> QED BY <2>1, <2>2, <1>0, <1>1 DEF Typed
  <1>5. Copies' = Copies /\ (\A b : IsNewest(b)' = IsNewest(b)) BY <1>0, SameBackups
  <1>6. BackupsOrdered' BY <1>0, <1>5 DEF UInv, BackupsOrdered
  <1>7. PinKept' BY <1>0 DEF PinKept
  <1>8. FilesKept' BY <1>0, <1>3 DEF UInv, FilesKept
  <1>9. RowsKept' BY <1>0, <1>5 DEF UInv, RowsKept
  <1> QED BY <1>1, <1>2, <1>4, <1>6, <1>7, <1>8, <1>9 DEF UInv

-----------------------------------------------------------------------------
LEMMA InitUInv == Init => UInv
  <1> SUFFICES ASSUME Init PROVE UInv OBVIOUS
  <1>1. proc = [p \in Process |-> Off] /\ baks = {} /\ pin = NoPin /\ disk = "own" BY DEF Init
  <1>2. \A p \in Process : Phase(proc[p])
    BY <1>1 DEF Phase, VersionAt, PinAt, BackupAt, Off, Opened, Upgrading, Probing, Restoring
  <1>3. Locked BY <1>1 DEF Locked, Off
  <1>4. Typed
    <2>1. db \in Db BY DEF Init, Db
    <2>2. proc \in [Process -> Proc] BY <1>1, OffIsProc
    <2>3. clock \in 0 .. MaxTime BY SchemaAssumption DEF Init
    <2>4. pin \in [state : {"none", "failed", "rolled_back"}, pinned : Nat, blocked : Nat] BY <1>1 DEF NoPin
    <2> QED BY <2>1, <2>2, <2>3, <2>4, <1>1 DEF Init, Typed
  <1>5. BackupsOrdered BY <1>1 DEF BackupsOrdered
  <1>6. PinKept BY <1>1 DEF PinKept, NoPin, Init
  <1>7. FilesKept BY DEF FilesKept, Init
  <1>8. RowsKept BY DEF RowsKept, Init
  <1> QED BY <1>2, <1>3, <1>4, <1>5, <1>6, <1>7, <1>8 DEF UInv

\* The inductive invariant: where in its ceremony a process is tells the
\* version of the database, the pin it found and the backup that exists, and
\* while a failed pin stands everything stored is in the backups.
THEOREM UpgradeInvariant == Spec => []UInv
  <1>1. UInv /\ [Next]_vars => UInv'
    <2> SUFFICES ASSUME UInv, [Next]_vars PROVE UInv' OBVIOUS
    <2>1. CASE UNCHANGED vars
      <3>1. UNCHANGED <<db, wal, disk, pin, baks, clock, proc, stored, explicit, cut, mixed, broken>>
        BY <2>1 DEF vars, history
      <3>2. Copies' = Copies /\ (\A b : IsNewest(b)' = IsNewest(b)) /\ Covered' = Covered
        BY <3>1, SameBackups
      <3>3. Typed' /\ Locked' BY <3>1 DEF UInv, Typed, Locked
      <3>4. (\A p \in Process : Phase(proc[p]))'
        BY <3>1, <3>2 DEF UInv, Phase, VersionAt, PinAt, BackupAt
      <3>5. BackupsOrdered' BY <3>1, <3>2 DEF UInv, BackupsOrdered
      <3>6. PinKept' /\ FilesKept' /\ RowsKept'
        BY <3>1, <3>2 DEF UInv, PinKept, FilesKept, RowsKept
      <3> QED BY <3>3, <3>4, <3>5, <3>6 DEF UInv
    <2>2. ASSUME NEW p \in Process, Step(p) PROVE UInv'
      BY <2>2, OpenKeeps, BackupKeeps, SchemaKeeps, MigrateKeeps, ValidateKeeps, RecordKeeps, WritePinKeeps,
         ExitKeeps, ChooseKeeps, CopyKeeps, RemoveSidecarsKeeps, RepinKeeps DEF Step
    <2>3. ASSUME NEW p \in Process, Stop(p) \/ Crash(p) PROVE UInv' BY <2>3, StopKeeps, CrashKeeps
    <2>4. ASSUME NEW p \in Process, NEW b \in Binaries, NEW mode \in Modes, Launch(p, b, mode) PROVE UInv'
      BY <2>4, LaunchKeeps
    <2>5. ASSUME NEW p \in Process, NEW msg \in Messages, Store(p, msg) PROVE UInv' BY <2>5, StoreKeeps
    <2> QED BY <2>1, <2>2, <2>3, <2>4, <2>5 DEF Next
  <1> QED BY InitUInv, <1>1, PTL DEF Spec

-----------------------------------------------------------------------------
(* The properties the run checks *)

LEMMA OneProcess ==
  ASSUME Locked PROVE Cardinality({p \in Process : proc[p].pc # "off"}) <= 1
  <1> DEFINE Live == {p \in Process : proc[p].pc # "off"}
  <1>1. CASE Live = {} BY <1>1, FS_EmptySet
  <1>2. CASE Live # {}
    <2>1. PICK p \in Live : TRUE BY <1>2
    <2>2. Live = {p} BY <2>1 DEF Locked
    <2>3. Cardinality({p}) = 1 BY FS_Singleton
    <2> QED BY <2>2, <2>3
  <1> QED BY <1>1, <1>2

\* Nothing stored is ever missing from the database and its backups; without
\* --bak it is all in the database; and files are mixed only by a rollback
\* killed halfway.
THEOREM UpgradesKeepMessages == Spec => []MessagesKept
  <1>1. ASSUME UInv PROVE MessagesKept
    <2>1. TypeOK
      <3>1. Cardinality({p \in Process : proc[p].pc # "off"}) <= 1 BY <1>1, OneProcess DEF UInv
      <3>2. DbType(db) BY <1>1 DEF UInv, Typed, Db, DbType
      <3>3. \A b \in baks : DbType(b.copy) /\ b.from = b.copy.ver /\ b.at \in 0 .. MaxTime
        <4>1. ASSUME NEW b \in baks PROVE DbType(b.copy) /\ b.from = b.copy.ver /\ b.at \in 0 .. MaxTime
          <5>1. b \in Bak /\ b.at <= clock /\ b.from = b.copy.ver BY <1>1 DEF UInv, Typed, BackupsOrdered
          <5>2. clock \in 0 .. MaxTime BY <1>1 DEF UInv, Typed
          <5>3. b.copy \in Db /\ b.at \in Nat BY <5>1 DEF Bak
          <5>4. b.at \in 0 .. MaxTime BY <5>1, <5>2, <5>3, SchemaAssumption
          <5> QED BY <5>1, <5>3, <5>4 DEF Db, DbType
        <4> QED BY <4>1
      <3> QED BY <3>1, <3>2, <3>3, <1>1 DEF UInv, Typed, TypeOK
    <2>2. NothingLost
      <3>1. disk # "own" => stored \subseteq Copies
        BY <1>1 DEF UInv, FilesKept, PinKept, Covered
      <3>2. stored \subseteq db.rows \cup Copies BY <1>1 DEF UInv, RowsKept
      <3> QED BY <3>1, <3>2 DEF NothingLost, Kept, Whole, Copies
    <2>3. RollbackKeepsAll BY <1>1 DEF UInv, RowsKept, RollbackKeepsAll
    <2>4. MixtureNeedsCutRollback BY <1>1 DEF UInv, FilesKept, MixtureNeedsCutRollback
    <2> QED BY <2>1, <2>2, <2>3, <2>4 DEF MessagesKept
  <1> QED BY <1>1, UpgradeInvariant, PTL

\* A daemon serves only a database of its own version that passed its own
\* validation, under no pin but the one that parks it there.
THEOREM ServedWasValidated == Spec => []ServesValidated
  <1>1. UInv => ServesValidated
    BY DEF UInv, Phase, VersionAt, PinAt, Opened, Serving, ServesValidated
  <1> QED BY <1>1, UpgradeInvariant, PTL

\* Once a migration's failure is pinned no normal start of that binary runs it
\* again by itself.
THEOREM BreakerStaysOpen == Spec => []BreakerHolds
  <1>1. UInv => BreakerHolds
    BY DEF UInv, Phase, VersionAt, PinAt, Opened, Upgrading, BreakerHolds
  <1> QED BY <1>1, UpgradeInvariant, PTL
=============================================================================
