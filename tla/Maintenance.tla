----------------------------- MODULE Maintenance -----------------------------
(***************************************************************************)
(* The contract's housekeeping: ship snapshots, backups and exports        *)
(* (state_snapshot.rs) over ships and their energy (energy_manager.rs);    *)
(* the cache with time to live (cache_ttl_manager.rs) and the audit log    *)
(* (audit_logger.rs), pruned together; bumped storage with its burst-read  *)
(* limit, write-back entries and packing (storage_optim.rs); batched       *)
(* operations (batch_processor.rs); schema migrations                      *)
(* (migration_framework.rs).  A call that fails leaves no trace, so only   *)
(* the calls that succeed are actions.                                     *)
(***************************************************************************)
EXTENDS Integers, Sequences, FiniteSets, SequencesExt, FiniteSetsExt, Functions

CONSTANTS Player, NoOne, Ship, Hull,
          MaxSnapshotsPerSession, AutoSnapshotInterval, BackupInterval, MaxBackupRetention,
          MaxEnergy, BaseRechargeRate, BasePassiveRegen, PassiveRegenInterval,
          Word,               \* 2^32 in the code
          Resources,          \* amounts of energy used and of resources burnt for it
          Namespace, Key, Ttl,
          MaxKeysPerNamespace, AutoPruneBatch, MaxPruneBatch, PruneScanFactor,
          AuditAutoPrune, AuditMaxPrune, Retention, DefaultRetention,
          MaxBurstReads, Bumps, DefaultBump, Value,
          Part,               \* a word is packed from parts below Part (2^32 or 2^64)
          BloomKey,           \* the three positions a key sets, each below 128
          MaxBatchSize, GasPerBatchOp, DefaultBatchGasBudget, MaxCallsPerWindow, Window,
          Version, MigrationId, MaxMigrationBatch,
          MaxTime, MaxIds, MaxLogged, MaxOps \* bounds of the runs

VARIABLES now,
          ship, energy, regenRate, lastRegen,
          regenCalled,                 \* history: when passive regeneration was last asked for
          snapshots, snapshotCounter, shipSnapshots, sessionCount, lastAuto,
          backups, backupList, lastBackup, exports,
          cached, audit,
          optim, nebulaData, burst, bump, upgradeTarget, cell, handle, filter,
          served, direct, inserted,    \* history of the storage helpers
          batch, rate, ops,            \* ops: history, what became of each player's operations
          migrationAdmin, version, dryRun, incompatible, batchState, checkpoint

snapshotVars == <<ship, energy, regenRate, lastRegen, regenCalled, snapshots, snapshotCounter,
                  shipSnapshots, sessionCount, lastAuto, backups, backupList, lastBackup, exports>>
cacheVars == <<cached, audit>>
storageVars == <<optim, nebulaData, burst, bump, upgradeTarget, cell, handle, filter, served,
                 direct, inserted>>
batchVars == <<batch, rate, ops>>
migrationVars == <<migrationAdmin, version, dryRun, incompatible, batchState, checkpoint>>
vars == <<now, snapshotVars, cacheVars, storageVars, batchVars, migrationVars>>

With(f, k, v) == [x \in DOMAIN f \cup {k} |-> IF x = k THEN v ELSE f[x]]
Get(f, k, default) == IF k \in DOMAIN f THEN f[k] ELSE default
Least(x, y) == IF x <= y THEN x ELSE y
Ascending(s) == \A i \in 1..(Len(s) - 1) : s[i] < s[i + 1]

Init ==
  /\ now = 0
  /\ ship \in [Ship -> [owner : Player, hull : {Max(Hull)}]]
  /\ energy = << >> /\ regenRate = BasePassiveRegen /\ lastRegen = << >> /\ regenCalled = << >>
  /\ snapshots = << >> /\ snapshotCounter = 0 /\ shipSnapshots = << >> /\ sessionCount = << >>
  /\ lastAuto = << >> /\ backups = << >> /\ backupList = << >> /\ lastBackup = 0 /\ exports = << >>
  /\ cached = [index |-> [n \in Namespace |-> << >>], entry |-> << >>, stale |-> << >>,
               cursor |-> << >>]
  /\ audit = [count |-> 0, oldest |-> 0, entry |-> << >>, retention |-> DefaultRetention]
  /\ optim = << >> /\ nebulaData = << >> /\ burst = 0 /\ bump = DefaultBump
  /\ upgradeTarget = NoOne /\ cell = NoOne /\ filter = {} /\ served = 0 /\ direct = NoOne
  /\ handle = [value |-> NoOne, loaded |-> FALSE, dirty |-> FALSE] /\ inserted = {}
  /\ batch = << >> /\ rate = << >>
  /\ ops = [p \in Player |-> [queued |-> 0, succeeded |-> 0, failed |-> 0, dropped |-> 0]]
  /\ migrationAdmin = NoOne /\ version = 0 /\ dryRun = << >> /\ incompatible = {}
  /\ batchState = << >> /\ checkpoint = << >>

Tick ==
  /\ now < MaxTime
  /\ now' = now + 1
  /\ UNCHANGED <<snapshotVars, cacheVars, storageVars, batchVars, migrationVars>>
-----------------------------------------------------------------------------
(* energy_manager.rs, and the changes of a ship the snapshots must survive *)

\* EnergyKey::EnergyBalance, a full tank when the ship never used any.
EnergyOf(s) == Get(energy, s, MaxEnergy)

ConsumeEnergy(s, amount) ==
  /\ amount > 0 /\ EnergyOf(s) >= amount
  /\ energy' = With(energy, s, EnergyOf(s) - amount)
  /\ UNCHANGED <<ship, regenRate, lastRegen, regenCalled, snapshots, snapshotCounter,
                 shipSnapshots, sessionCount, lastAuto, backups, backupList, lastBackup, exports>>

RechargeEnergy(s, amount) ==
  /\ amount > 0
  /\ LET gained == Least((Least((amount % Word) * 85, Word - 1)) \div 100, BaseRechargeRate)
     IN  energy' = With(energy, s, Least(EnergyOf(s) + gained, MaxEnergy))
  /\ UNCHANGED <<ship, regenRate, lastRegen, regenCalled, snapshots, snapshotCounter,
                 shipSnapshots, sessionCount, lastAuto, backups, backupList, lastBackup, exports>>

\* The call succeeds whether or not a tick has passed; it writes only when it has.
ApplyPassiveRegen(s) ==
  LET last == Get(lastRegen, s, now)
      ticks == (now - last) \div PassiveRegenInterval
      regen == Least(regenRate * ticks, MaxEnergy - EnergyOf(s))
      due == now >= last + PassiveRegenInterval /\ regen > 0
  IN  /\ energy' = IF due THEN With(energy, s, Least(EnergyOf(s) + regen, MaxEnergy)) ELSE energy
      /\ lastRegen' = IF due THEN With(lastRegen, s, now) ELSE lastRegen
      /\ regenCalled' = With(regenCalled, s, now)
      /\ UNCHANGED <<ship, regenRate, snapshots, snapshotCounter, shipSnapshots, sessionCount,
                     lastAuto, backups, backupList, lastBackup, exports>>

SetRegenRate(r) ==
  /\ regenRate' = r
  /\ UNCHANGED <<ship, energy, lastRegen, regenCalled, snapshots, snapshotCounter, shipSnapshots,
                 sessionCount, lastAuto, backups, backupList, lastBackup, exports>>

\* ship_nft.rs damages, repairs and transfers ships between the calls below.
ChangeShip(s, owner, hull) ==
  /\ ship' = [ship EXCEPT ![s] = [owner |-> owner, hull |-> hull]]
  /\ UNCHANGED <<energy, regenRate, lastRegen, regenCalled, snapshots, snapshotCounter,
                 shipSnapshots, sessionCount, lastAuto, backups, backupList, lastBackup, exports>>
-----------------------------------------------------------------------------
(* state_snapshot.rs *)

\* SHA-256 over the fields' bytes: equal exactly when the fields are.
IntegrityHash(s, hull, balance, created) == <<s, hull, balance, created>>

VerifyIntegrity(snap) ==
  snap.hash = IntegrityHash(snap.ship, snap.hull, snap.balance, snap.created)

\* The balance a snapshot reads: nothing when the ship never used energy.
ReadBalance(s) == Get(energy, s, 0)

\* take_snapshot.
Snapshot(caller, s) ==
  LET id == snapshotCounter + 1
      balance == ReadBalance(s)
  IN  /\ id <= MaxIds
      /\ Get(sessionCount, s, 0) < MaxSnapshotsPerSession
      /\ ship[s].owner = caller
      /\ sessionCount' = With(sessionCount, s, Get(sessionCount, s, 0) + 1)
      /\ snapshotCounter' = id
      /\ snapshots' = With(snapshots, id,
           [ship |-> s, owner |-> caller, hull |-> ship[s].hull, balance |-> balance,
            hash |-> IntegrityHash(s, ship[s].hull, balance, now), created |-> now])
      /\ shipSnapshots' = With(shipSnapshots, s, Append(Get(shipSnapshots, s, << >>), id))

TakeSnapshot(caller, s) ==
  /\ Snapshot(caller, s)
  /\ UNCHANGED <<ship, energy, regenRate, lastRegen, regenCalled, lastAuto, backups, backupList,
                 lastBackup, exports>>

AutoSnapshot(caller, s) ==
  /\ now - Get(lastAuto, s, 0) >= AutoSnapshotInterval
  /\ Snapshot(caller, s)
  /\ lastAuto' = With(lastAuto, s, now)
  /\ UNCHANGED <<ship, energy, regenRate, lastRegen, regenCalled, backups, backupList, lastBackup,
                 exports>>

RestoreFromSnapshot(caller, id) ==
  /\ id \in DOMAIN snapshots
  /\ LET snap == snapshots[id]
     IN  /\ snap.owner = caller
         /\ VerifyIntegrity(snap)
         /\ ship[snap.ship].owner = caller
         /\ ship' = [ship EXCEPT ![snap.ship].hull = snap.hull]
         /\ energy' = With(energy, snap.ship, snap.balance)
  /\ UNCHANGED <<regenRate, lastRegen, regenCalled, snapshots, snapshotCounter, shipSnapshots,
                 sessionCount, lastAuto, backups, backupList, lastBackup, exports>>

ResetSessionCount(s) ==
  /\ sessionCount' = With(sessionCount, s, 0)
  /\ UNCHANGED <<ship, energy, regenRate, lastRegen, regenCalled, snapshots, snapshotCounter,
                 shipSnapshots, lastAuto, backups, backupList, lastBackup, exports>>

\* Mutant: the oldest backup leaves the list but not the store.
CreateBackupKept ==
  LET id == snapshotCounter + 1
      longer == Append(backupList, id)
  IN  /\ id <= MaxIds
      /\ now - lastBackup >= BackupInterval
      /\ snapshotCounter' = id
      /\ backups' = With(backups, id, [created |-> now, ships |-> Cardinality(Ship),
                                       snapshots |-> snapshotCounter])
      /\ backupList' = IF Len(longer) > MaxBackupRetention THEN Tail(longer) ELSE longer
      /\ lastBackup' = now
      /\ UNCHANGED <<ship, energy, regenRate, lastRegen, regenCalled, snapshots, shipSnapshots,
                     sessionCount, lastAuto, exports>>

\* The oldest backup goes when the list would outgrow the retention.
CreateAutomatedBackup ==
  LET id == snapshotCounter + 1
      longer == Append(backupList, id)
      full == Len(longer) > MaxBackupRetention
  IN  /\ id <= MaxIds
      /\ now - lastBackup >= BackupInterval
      /\ snapshotCounter' = id
      /\ backups' = With(IF full THEN Restrict(backups, DOMAIN backups \ {longer[1]}) ELSE backups,
                         id, [created |-> now, ships |-> Cardinality(Ship),
                              snapshots |-> snapshotCounter])
      /\ backupList' = IF full THEN Tail(longer) ELSE longer
      /\ lastBackup' = now
      /\ UNCHANGED <<ship, energy, regenRate, lastRegen, regenCalled, snapshots, shipSnapshots,
                     sessionCount, lastAuto, exports>>

\* The checksum covers the backup's id and the location, which nothing changes.
ExportState(id) ==
  /\ snapshotCounter + 1 <= MaxIds
  /\ id \in DOMAIN backups
  /\ snapshotCounter' = snapshotCounter + 1
  /\ exports' = With(exports, snapshotCounter', id)
  /\ UNCHANGED <<ship, energy, regenRate, lastRegen, regenCalled, snapshots, shipSnapshots,
                 sessionCount, lastAuto, backups, backupList, lastBackup>>

\* restore_from_backup changes nothing; an export can be restored while its backup is kept.
RestoreFromBackup(exportId) == exportId \in DOMAIN exports /\ exports[exportId] \in DOMAIN backups

EnergyNext ==
  /\ \/ \E s \in Ship, n \in Resources : ConsumeEnergy(s, n) \/ RechargeEnergy(s, n)
     \/ \E s \in Ship : ApplyPassiveRegen(s)
     \/ \E n \in Resources : SetRegenRate(n)
  /\ UNCHANGED <<now, cacheVars, storageVars, batchVars, migrationVars>>

SnapshotNext ==
  /\ \/ \E s \in Ship, n \in Resources : ConsumeEnergy(s, n)
     \/ \E s \in Ship, p \in Player, h \in Hull : ChangeShip(s, p, h)
     \/ \E p \in Player, s \in Ship : TakeSnapshot(p, s) \/ AutoSnapshot(p, s)
     \/ \E p \in Player, id \in 1..MaxIds : RestoreFromSnapshot(p, id)
     \/ \E s \in Ship : ResetSessionCount(s)
  /\ UNCHANGED <<now, cacheVars, storageVars, batchVars, migrationVars>>

BackupNext ==
  /\ \/ \E p \in Player, s \in Ship : TakeSnapshot(p, s)
     \/ CreateAutomatedBackup
     \/ \E id \in 1..MaxIds : ExportState(id)
  /\ UNCHANGED <<now, cacheVars, storageVars, batchVars, migrationVars>>
-----------------------------------------------------------------------------
(* cache_ttl_manager.rs.  c is the cache: for each namespace the index of  *)
(* its keys and the prune cursor, for each key its entry and stale flag.   *)
(* Entries are stored valid and is_valid is never cleared.                 *)

Stale(c, n, k) == Get(c.stale, <<n, k>>, FALSE)
Expired(c, n, k) == now - c.entry[<<n, k>>].at > c.entry[<<n, k>>].ttl
IsPrunable(c, n, k) == <<n, k>> \notin DOMAIN c.entry \/ Stale(c, n, k) \/ Expired(c, n, k)

IsCacheValid(c, n, k) == <<n, k>> \in DOMAIN c.entry /\ ~Stale(c, n, k) /\ ~Expired(c, n, k)

GetRemainingTtl(c, n, k) ==
  LET e == c.entry[<<n, k>>] IN IF now - e.at >= e.ttl THEN 0 ELSE e.ttl - (now - e.at)

\* remove_entry, for a set of keys.
RemoveEntries(c, n, keys) ==
  LET gone == {n} \X keys
  IN  [c EXCEPT !.entry = Restrict(c.entry, DOMAIN c.entry \ gone),
                !.stale = Restrict(c.stale, DOMAIN c.stale \ gone)]

\* Mutant: the cursor does not move past what was examined.
PruneFromStart(c, n, maxEntries) ==
  LET index == c.index[n]
      len == Len(index)
      limit == Least(maxEntries, MaxPruneBatch)
      seen == {index[i] : i \in 1..Least(len, limit * PruneScanFactor)}
      pruned == CHOOSE keys \in SUBSET {k \in seen : IsPrunable(c, n, k)} :
                  Cardinality(keys) = Least(limit, Cardinality({k \in seen : IsPrunable(c, n, k)}))
  IN  [RemoveEntries(c, n, pruned) EXCEPT !.index[n] = SelectSeq(index, LAMBDA k : k \notin pruned)]

\* prune_expired_entries: examine the index from the cursor on, wrapping
\* around, until enough keys were examined or pruned.
Prune(c, n, maxEntries) ==
  LET index == c.index[n]
      len == Len(index)
      limit == Least(maxEntries, MaxPruneBatch)
      start == Get(c.cursor, n, 0) % len
      scan == Least(len, limit * PruneScanFactor)
      At(i) == index[((start + i - 1) % len) + 1]
      PrunedBy(i) == {k \in {At(j) : j \in 1..i} : IsPrunable(c, n, k)}
      scanned == Min({i \in 0..scan : i = scan \/ Cardinality(PrunedBy(i)) = limit})
      pruned == PrunedBy(scanned)
      remaining == len - Cardinality(pruned)
      kept == [RemoveEntries(c, n, pruned) EXCEPT
                 !.index[n] = SelectSeq(index, LAMBDA k : k \notin pruned)]
  IN  IF limit = 0 \/ len = 0 THEN c
      ELSE IF remaining = 0 THEN [kept EXCEPT !.cursor = Restrict(@, DOMAIN @ \ {n})]
      ELSE [kept EXCEPT
              !.cursor = With(@, n, (start + scanned - Cardinality(pruned)) % remaining)]

CacheWithTtl(n, k, ttl) ==
  LET c == Prune(cached, n, AutoPruneBatch)
      known == Contains(c.index[n], k)
  IN  /\ ttl > 0
      /\ known \/ Len(c.index[n]) < MaxKeysPerNamespace
      /\ cached' = [c EXCEPT !.index[n] = IF known THEN @ ELSE Append(@, k),
                             !.entry = With(@, <<n, k>>, [at |-> now, ttl |-> ttl]),
                             !.stale = With(@, <<n, k>>, FALSE)]
      /\ UNCHANGED audit

\* get_cached_with_ttl on an entry that may not be served marks it stale; the
\* mark stays when the calling function handles the error.
MarkStale(n, k) ==
  /\ <<n, k>> \in DOMAIN cached.entry
  /\ ~IsCacheValid(cached, n, k)
  /\ cached' = [cached EXCEPT !.stale = With(@, <<n, k>>, TRUE)]
  /\ UNCHANGED audit

InvalidateCacheEntry(n, k) ==
  /\ cached' = [cached EXCEPT !.stale = With(@, <<n, k>>, TRUE)]
  /\ UNCHANGED audit

\* Mutant: the entries go and the index stays.
InvalidateNamespaceListed(n) ==
  /\ cached' = RemoveEntries(cached, n, Range(cached.index[n]))
  /\ UNCHANGED audit

InvalidateNamespace(n) ==
  /\ cached' = [RemoveEntries(cached, n, Range(cached.index[n])) EXCEPT
                  !.index[n] = << >>, !.cursor = Restrict(@, DOMAIN @ \ {n})]
  /\ UNCHANGED audit

PruneExpiredEntries(n, maxEntries) ==
  /\ cached' = Prune(cached, n, maxEntries)
  /\ UNCHANGED audit
-----------------------------------------------------------------------------
(* audit_logger.rs.  a is the log: entries oldest .. count - 1 are kept.   *)

Removable(a, n) ==
  /\ n < a.count
  /\ \/ a.count - n > a.retention.entries
     \/ now - a.entry[n] > a.retention.age

\* Mutant: the number of entries kept is off by one.
PruneAuditLess(a, maxEntries) ==
  LET next == IF a.count - a.oldest >= a.retention.entries /\ a.count > a.oldest
              THEN a.oldest + 1 ELSE a.oldest
  IN  [a EXCEPT !.oldest = next, !.entry = Restrict(@, {n \in DOMAIN @ : n >= next})]

\* prune_audit_logs: from the oldest on, up to the batch, until one is kept.
PruneAudit(a, maxEntries) ==
  LET limit == Least(maxEntries, AuditMaxPrune)
      removed == Max({r \in 0..limit : \A n \in a.oldest .. (a.oldest + r - 1) : Removable(a, n)})
      next == a.oldest + removed
  IN  [a EXCEPT !.oldest = next, !.entry = Restrict(@, {n \in DOMAIN @ : n >= next})]

LogAuditEvent ==
  /\ audit.count < MaxLogged
  /\ audit' = PruneAudit([audit EXCEPT !.count = @ + 1, !.entry = With(@, audit.count, now)],
                         AuditAutoPrune)
  /\ UNCHANGED cached

SetAuditRetention(policy) ==
  /\ policy.age > 0 /\ policy.entries > 0
  /\ audit' = [audit EXCEPT !.retention = policy]
  /\ UNCHANGED cached

\* storage_optim.rs prune_expired_data, for one namespace and the audit log.
PruneExpiredData(n) ==
  /\ cached' = Prune(cached, n, MaxPruneBatch)
  /\ audit' = PruneAudit(audit, AuditMaxPrune)

CacheNext ==
  /\ \/ \E n \in Namespace, k \in Key, t \in Ttl : CacheWithTtl(n, k, t)
     \/ \E n \in Namespace, k \in Key : MarkStale(n, k) \/ InvalidateCacheEntry(n, k)
     \/ \E n \in Namespace : InvalidateNamespace(n) \/ PruneExpiredEntries(n, 1)
  /\ UNCHANGED <<now, snapshotVars, storageVars, batchVars, migrationVars>>

AuditNext ==
  /\ \/ LogAuditEvent
     \/ \E r \in Retention : SetAuditRetention(r)
     \/ \E n \in Namespace : PruneExpiredData(n)
  /\ UNCHANGED <<now, snapshotVars, storageVars, batchVars, migrationVars>>
-----------------------------------------------------------------------------
(* storage_optim.rs.  The re-entrancy guard is taken and released inside a *)
(* call, and a call that fails gives it back, so no call finds it taken.   *)

\* store_with_bump, and batch_store_with_bump for several keys.
BatchStoreWithBump(keys) ==
  /\ optim' = [k \in DOMAIN optim \cup keys |-> IF k \in keys THEN bump.default ELSE optim[k]]
  /\ UNCHANGED <<nebulaData, burst, bump, upgradeTarget, cell, handle, filter, served, direct,
                 inserted>>

StoreShipNebula(s, n) ==
  /\ nebulaData' = With(nebulaData, <<s, n>>, bump.default)
  /\ UNCHANGED <<optim, burst, bump, upgradeTarget, cell, handle, filter, served, direct, inserted>>

TrackBurstReads(n) ==
  /\ burst < MaxBurstReads /\ burst + n <= MaxBurstReads
  /\ burst' = burst + n

\* Mutant: a batch counts as one read.
GetEntriesAsOne(keys) ==
  /\ TrackBurstReads(1)
  /\ keys \subseteq DOMAIN optim
  /\ served' = served + Cardinality(keys)
  /\ UNCHANGED <<optim, nebulaData, bump, upgradeTarget, cell, handle, filter, direct, inserted>>

\* get_optimized_entry, and get_optimized_entries for several keys.
GetOptimizedEntries(keys) ==
  /\ TrackBurstReads(Cardinality(keys))
  /\ keys \subseteq DOMAIN optim
  /\ served' = served + Cardinality(keys)
  /\ UNCHANGED <<optim, nebulaData, bump, upgradeTarget, cell, handle, filter, direct, inserted>>

\* get_ship_nebula, and get_ship_nebula_batch for several nebulae.
GetShipNebulaBatch(s, nebulae) ==
  /\ TrackBurstReads(Cardinality(nebulae))
  /\ ({s} \X nebulae) \subseteq DOMAIN nebulaData
  /\ served' = served + Cardinality(nebulae)
  /\ UNCHANGED <<optim, nebulaData, bump, upgradeTarget, cell, handle, filter, direct, inserted>>

ResetBurstCounter ==
  /\ burst' = 0 /\ served' = 0
  /\ UNCHANGED <<optim, nebulaData, bump, upgradeTarget, cell, handle, filter, direct, inserted>>

InitializeBumpConfig ==
  /\ bump' = DefaultBump
  /\ UNCHANGED <<optim, nebulaData, burst, upgradeTarget, cell, handle, filter, served, direct,
                 inserted>>

UpdateBumpConfig(b) ==
  /\ b.default # 0 /\ b.max # 0 /\ b.default <= b.max
  /\ bump' = b
  /\ UNCHANGED <<optim, nebulaData, burst, upgradeTarget, cell, handle, filter, served, direct,
                 inserted>>

SetUpgradeTarget(p) ==
  /\ upgradeTarget' = p
  /\ UNCHANGED <<optim, nebulaData, burst, bump, cell, handle, filter, served, direct, inserted>>

\* CachedEntry::get: the first call reads the cell, later ones the copy.
Loaded == IF handle.loaded THEN handle ELSE [handle EXCEPT !.value = cell, !.loaded = TRUE]

EntryGet ==
  /\ handle' = Loaded
  /\ UNCHANGED <<optim, nebulaData, burst, bump, upgradeTarget, cell, filter, served, direct,
                 inserted>>

\* CachedEntry::set; direct is the cell had it been written at once.
EntrySet(v) ==
  /\ handle' = [value |-> v, loaded |-> TRUE, dirty |-> TRUE]
  /\ direct' = v
  /\ UNCHANGED <<optim, nebulaData, burst, bump, upgradeTarget, cell, filter, served, inserted>>

\* Mutant: the flag is cleared and the value is not written.
FlushNothing ==
  /\ handle.dirty
  /\ handle' = [handle EXCEPT !.dirty = FALSE]
  /\ UNCHANGED <<cell, optim, nebulaData, burst, bump, upgradeTarget, filter, served, direct,
                 inserted>>

EntryFlush ==
  /\ handle.dirty
  /\ cell' = IF handle.value # NoOne THEN handle.value ELSE cell
  /\ handle' = [handle EXCEPT !.dirty = FALSE]
  /\ UNCHANGED <<optim, nebulaData, burst, bump, upgradeTarget, filter, served, direct, inserted>>

\* The handle goes out of scope at the end of a call; an unflushed value is lost.
EntryNew ==
  /\ handle' = [value |-> NoOne, loaded |-> FALSE, dirty |-> FALSE]
  /\ direct' = cell
  /\ UNCHANGED <<optim, nebulaData, burst, bump, upgradeTarget, cell, filter, served, inserted>>

\* pack_u32x3 and pack_u64x2, low part first, and their inverses.
PackU32x3(x, y, z) == x + y * Part + z * Part * Part
UnpackU32x3(p) == <<p % Part, (p \div Part) % Part, (p \div (Part * Part)) % Part>>
PackU64x2(lo, hi) == lo + hi * Part
UnpackU64x2(p) == <<p % Part, (p \div Part) % Part>>

\* bloom_insert: a filter is the set of its bits.
BloomInsert(key) ==
  /\ filter' = filter \cup Range(key)
  /\ inserted' = inserted \cup {key}
  /\ UNCHANGED <<optim, nebulaData, burst, bump, upgradeTarget, cell, handle, served, direct>>

BloomMayContain(key) == Range(key) \subseteq filter

StorageNext ==
  /\ \/ \E keys \in SUBSET Key : BatchStoreWithBump(keys) \/ GetOptimizedEntries(keys)
     \/ \E s \in Ship, n \in Namespace : StoreShipNebula(s, n)
     \/ \E s \in Ship, ns \in SUBSET Namespace : GetShipNebulaBatch(s, ns)
     \/ ResetBurstCounter \/ InitializeBumpConfig
     \/ \E b \in Bumps : UpdateBumpConfig(b)
     \/ \E p \in Player : SetUpgradeTarget(p)
  /\ UNCHANGED <<now, snapshotVars, cacheVars, batchVars, migrationVars>>

EntryNext ==
  /\ \/ EntryGet \/ EntryFlush \/ EntryNew
     \/ \E v \in Value : EntrySet(v)
     \/ \E k \in BloomKey : BloomInsert(k)
  /\ UNCHANGED <<now, snapshotVars, cacheVars, batchVars, migrationVars>>
-----------------------------------------------------------------------------
(* batch_processor.rs *)

EstimateBatchGas(n) == n * GasPerBatchOp

MaxOpsForBudget(budget) == Least(budget \div GasPerBatchOp, MaxBatchSize)

AdjustBatchToBudget(operations, budget) ==
  SubSeq(operations, 1, Least(Len(operations), MaxOpsForBudget(budget)))

\* What a batch of n saves, in percent; the differences are unsigned.
GasSavings(n, perOp, overhead, batchOverhead) ==
  ((n * (perOp + overhead) - (batchOverhead + n * perOp)) * 100) \div (n * (perOp + overhead))

\* rate_limiter.rs check_rate_limit for the batch operations.
CheckRateLimit(p) ==
  LET w == Get(rate, p, [calls |-> 0, start |-> now])
      cur == IF now >= w.start + Window THEN [calls |-> 0, start |-> now] ELSE w
  IN  /\ cur.calls < MaxCallsPerWindow
      /\ rate' = With(rate, p, [cur EXCEPT !.calls = @ + 1])

\* A queued batch replaces the one before it.
QueueBatchOperation(p, operations) ==
  LET replaced == Len(Get(batch, p, << >>))
  IN  /\ CheckRateLimit(p)
      /\ Len(operations) \in 1..MaxBatchSize
      /\ EstimateBatchGas(Len(operations)) <= DefaultBatchGasBudget
      /\ ops[p].queued + Len(operations) <= MaxOps
      /\ batch' = With(batch, p, operations)
      /\ ops' = [ops EXCEPT ![p].queued = @ + Len(operations), ![p].dropped = @ + replaced]

\* Mutant: the batch stays queued after it ran.
ExecuteBatchKept(p, ships) ==
  /\ p \in DOMAIN batch
  /\ LET done == Len(SelectSeq(batch[p], LAMBDA s : s \in ships))
     IN  ops' = [ops EXCEPT ![p].succeeded = @ + done, ![p].failed = @ + (Len(batch[p]) - done)]
  /\ UNCHANGED <<batch, rate>>

\* An operation succeeds exactly when its ship is among those given.
ExecuteBatch(p, ships) ==
  /\ p \in DOMAIN batch
  /\ LET done == Len(SelectSeq(batch[p], LAMBDA s : s \in ships))
     IN  ops' = [ops EXCEPT ![p].succeeded = @ + done, ![p].failed = @ + (Len(batch[p]) - done)]
  /\ batch' = Restrict(batch, DOMAIN batch \ {p})
  /\ UNCHANGED rate

ClearBatch(p) ==
  /\ ops' = [ops EXCEPT ![p].dropped = @ + Len(Get(batch, p, << >>))]
  /\ batch' = Restrict(batch, DOMAIN batch \ {p})
  /\ UNCHANGED rate

\* execute_batch_mint and execute_batch_trade count, and mint or trade nothing.
ExecuteBatchMint(p, n) == n \in 1..MaxBatchSize /\ CheckRateLimit(p) /\ UNCHANGED <<batch, ops>>

BatchNext ==
  /\ \E p \in Player :
       \/ \E operations \in BoundedSeq(Ship, MaxBatchSize) : QueueBatchOperation(p, operations)
       \/ \E ships \in SUBSET Ship : ExecuteBatch(p, ships)
       \/ ClearBatch(p)
       \/ ExecuteBatchMint(p, 1)
  /\ UNCHANGED <<now, snapshotVars, cacheVars, storageVars, migrationVars>>
-----------------------------------------------------------------------------
(* migration_framework.rs *)

\* The first call decides; later ones succeed and change nothing.
InitializeMigrations(admin, v) ==
  /\ version' = IF version = 0 THEN v ELSE version
  /\ migrationAdmin' = IF version = 0 THEN admin ELSE migrationAdmin
  /\ UNCHANGED <<dryRun, incompatible, batchState, checkpoint>>

\* records: for each sample, whether it has any bytes.
DryRunMigration(admin, m, records) ==
  /\ admin = migrationAdmin
  /\ Len(records) <= MaxMigrationBatch
  /\ dryRun' = With(dryRun, m, [succeeds |-> \A i \in DOMAIN records : records[i],
                                records |-> Len(records)])
  /\ UNCHANGED <<migrationAdmin, version, incompatible, batchState, checkpoint>>

MarkIncompatible(admin, from, to) ==
  /\ admin = migrationAdmin
  /\ incompatible' = incompatible \cup {<<from, to>>}
  /\ UNCHANGED <<migrationAdmin, version, dryRun, batchState, checkpoint>>

ExecuteMigrationBatch(admin, m, n, size) ==
  /\ admin = migrationAdmin
  /\ size <= MaxMigrationBatch
  /\ batchState' = With(batchState, m, [batch |-> n, at |-> now, size |-> size])
  /\ checkpoint' = With(checkpoint, m, [batch |-> n, at |-> now, size |-> size])
  /\ UNCHANGED <<migrationAdmin, version, dryRun, incompatible>>

\* Mutant: rolling back forgets the batch and keeps the checkpoint.
RollbackBatch(admin, m) ==
  /\ admin = migrationAdmin
  /\ m \in DOMAIN checkpoint
  /\ batchState' = Restrict(batchState, DOMAIN batchState \ {m})
  /\ UNCHANGED <<migrationAdmin, version, dryRun, incompatible, checkpoint>>

RollbackMigration(admin, m) ==
  /\ admin = migrationAdmin
  /\ m \in DOMAIN checkpoint
  /\ checkpoint' = Restrict(checkpoint, DOMAIN checkpoint \ {m})
  /\ UNCHANGED <<migrationAdmin, version, dryRun, incompatible, batchState>>

MigrationNext ==
  /\ \/ \E p \in Player, v \in Version : InitializeMigrations(p, v)
     \/ \E p \in Player, m \in MigrationId, r \in BoundedSeq(BOOLEAN, MaxMigrationBatch) :
          DryRunMigration(p, m, r)
     \/ \E p \in Player, from, to \in Version : MarkIncompatible(p, from, to)
     \/ \E p \in Player, m \in MigrationId, n \in 1..2, size \in 0..MaxMigrationBatch :
          ExecuteMigrationBatch(p, m, n, size)
     \/ \E p \in Player, m \in MigrationId : RollbackMigration(p, m)
  /\ UNCHANGED <<now, snapshotVars, cacheVars, storageVars, batchVars>>

Next ==
  \/ Tick \/ EnergyNext \/ SnapshotNext \/ BackupNext \/ CacheNext \/ AuditNext
  \/ StorageNext \/ EntryNext \/ BatchNext \/ MigrationNext

Spec == Init /\ [][Next]_vars
-----------------------------------------------------------------------------
(* Properties *)

\* Keys that have a value are keys of the parts they belong to.
TypeOK ==
  /\ snapshotCounter \in 0..MaxIds /\ burst \in 0..MaxBurstReads
  /\ DOMAIN snapshots \cup DOMAIN backups \cup DOMAIN exports \subseteq 1..snapshotCounter
  /\ \A s \in DOMAIN energy : energy[s] \in 0..MaxEnergy
  /\ DOMAIN batch \subseteq Player /\ version \in Version \cup {0}

\* Whatever happens to ships in between, every stored snapshot can still be
\* verified and is listed once, in order, under its ship; the backup list
\* names exactly the backups kept, oldest first and no closer together than
\* the interval; one counter numbers snapshots, backups and exports apart
\* (state_snapshot.rs take_snapshot, create_automated_backup, export_state).
SnapshotsListed ==
  /\ \A id \in DOMAIN snapshots :
       VerifyIntegrity(snapshots[id]) /\ Contains(Get(shipSnapshots, snapshots[id].ship, << >>), id)
  /\ \A s \in DOMAIN shipSnapshots :
       /\ Ascending(shipSnapshots[s])
       /\ \A id \in Range(shipSnapshots[s]) : id \in DOMAIN snapshots /\ snapshots[id].ship = s
  /\ Range(backupList) = DOMAIN backups /\ Ascending(backupList)
  /\ Len(backupList) <= MaxBackupRetention
  /\ \A i \in 1..(Len(backupList) - 1) :
       backups[backupList[i + 1]].created - backups[backupList[i]].created >= BackupInterval
  /\ DOMAIN snapshots \cap DOMAIN backups = {} /\ DOMAIN exports \cap DOMAIN backups = {}
  /\ \A e \in DOMAIN exports : RestoreFromBackup(e) \/ exports[e] < Min({e} \cup Range(backupList))

\* The index of a namespace names each of its entries once and nothing else,
\* within the limit, and the cursor stays inside it (cache_ttl_manager.rs).
CacheIndexed ==
  \A n \in Namespace :
    LET index == cached.index[n]
    IN  /\ IsInjective(index) /\ Len(index) <= MaxKeysPerNamespace
        /\ Range(index) = {k \in Key : <<n, k>> \in DOMAIN cached.entry}
        /\ Get(cached.cursor, n, 0) < Max({Len(index), 1})
        /\ \A k \in Range(index) : GetRemainingTtl(cached, n, k) > 0 => ~Expired(cached, n, k)

\* Pruning one entry at a time from wherever the cursor stands, no more often
\* than twice for each key, leaves no entry that could be pruned and removes
\* none that is live: the cursor starves no key (prune_expired_entries).
SweepsFinish ==
  \A n \in Namespace :
    LET len == Len(cached.index[n])
        after[i \in 0..(2 * len)] == IF i = 0 THEN cached ELSE Prune(after[i - 1], n, 1)
    IN  Range(after[2 * len].index[n])
          = {k \in Range(cached.index[n]) : IsCacheValid(cached, n, k)}

\* The log keeps a gapless run of the latest entries in the order of time, and
\* a step removes only entries too old or too many under the policy in force
\* (audit_logger.rs log_audit_event, prune_audit_logs).
AuditKept == [][
  /\ DOMAIN audit'.entry = audit'.oldest .. (audit'.count - 1)
  /\ \A n \in DOMAIN audit'.entry \ {audit'.oldest} : audit'.entry[n - 1] <= audit'.entry[n]
  /\ \A n \in DOMAIN audit.entry \ DOMAIN audit'.entry :
       \/ audit'.count - n > audit'.retention.entries
       \/ now - audit.entry[n] > audit'.retention.age]_vars

\* Between two resets the entries served, batch reads included, stay within
\* the burst limit (storage_optim.rs track_burst_reads).
ReadsWithinBurst == served <= MaxBurstReads

\* A call that reads and writes through a write-back entry sees what it would
\* have seen writing at once, and a clean entry leaves the cell in that state;
\* a Bloom filter never denies a key that was inserted; packed words unpack to
\* their parts (storage_optim.rs CachedEntry, bloom_insert, pack_u32x3).
StorageTransparent ==
  /\ Loaded.value = direct
  /\ ~handle.dirty => cell = direct
  /\ \A k \in inserted : BloomMayContain(k)
  /\ \A x, y, z \in 0..(Part - 1) :
       UnpackU32x3(PackU32x3(x, y, z)) = <<x, y, z>> /\ UnpackU64x2(PackU64x2(x, y)) = <<x, y>>

\* Every operation a player queued is still pending, ran once, or was dropped
\* with its batch; a queued batch fits the default budget, and batching never
\* costs more gas than running the operations alone (batch_processor.rs).
BatchesAccounted ==
  /\ \A p \in Player :
       ops[p].queued = Len(Get(batch, p, << >>)) + ops[p].succeeded + ops[p].failed + ops[p].dropped
  /\ \A p \in DOMAIN batch : AdjustBatchToBudget(batch[p], DefaultBatchGasBudget) = batch[p]
  /\ \A n \in 1..MaxBatchSize : GasSavings(n, 5000, 3000, 2000) \in 0..100
                             /\ GasSavings(n, 8000, 4000, 3000) \in 0..100

\* A migration can be rolled back only to the batch that ran last, and once
\* for each batch; only the first initialization counts (migration_framework.rs).
CheckpointsFollowBatches ==
  /\ \A m \in DOMAIN checkpoint : m \in DOMAIN batchState /\ checkpoint[m] = batchState[m]
  /\ (version = 0) = (migrationAdmin = NoOne)
  /\ migrationAdmin = NoOne => DOMAIN batchState = {} /\ dryRun = << >> /\ incompatible = {}
=============================================================================
