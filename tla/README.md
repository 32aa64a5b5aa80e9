# Verification of the Combined Checkpoint/Restart Library

TLA+ models of the library in `src/src/*.c`: the checkpoint, recovery and
version negotiation protocols, and the parts below and around them (coding, file
layout, process groups, agreement of communities, memory on error paths); TLC
configurations that check them, and TLAPS proofs about them. Paths are relative
to the repository; "src/src/combined.c" is the library's `src/combined.c`.

## 1. The system

The library is linked into an MPI program; every rank calls `COMB_Init`,
`COMB_Protect`, `COMB_Recover` once and `COMB_Checkpoint` again and again. Ranks
are processes without threads. They interact only through MPI calls on
communicators, most of them collectives, and through what an earlier run of the
job left on their local disks.

A community (`ccomm`) is a grid of `m*n` ranks. A row is a *partner group*
(`pcomm`), whose ranks store each other's data and parity; a column is an *XOR
group* (`xcomm`), which computes the parity. A checkpoint that has only gone
through the XOR group is `XORDATA`, one that also went through the partner group
is `FULLDATA`; a rank that has nothing is `NODATA`.

| component | code | state | operations | talks to |
| --- | --- | --- | --- | --- |
| process groups | `COMB_Init` | communicators, `rank`, `prank`, `xrank` | init, split | every component |
| registered data | `COMB_Protect` | `protected_data`, `totaldatasize` | register | checkpoint, load |
| checkpoint call | `COMB_Checkpoint`, `xor_checkpoint`, `partner_checkpoint`, `all_transfer_and_write` | `version`, `cps`, `xorstruct` | one call | xcomm (Reduce_scatter), pcomm (Allgather), disk |
| files and metadata | `naming_utils.c`, `write_metadata_file`, `load_local_metadata` | per slot `version % cpcount`: `cp-*.dat`, `meta-*.dat` | open, write, remove, read | checkpoint, recovery |
| negotiation | `global_negotiate_version`, `theoretical_repair`, `make_hashset` | `version`, `lostpgroup` | once per recovery | ccomm (Gather, Bcast), interccomm (Allreduce) |
| partner phase | `assign_partner`, `partner_recover`, `pair_transfer` | `pstates`, `cp->state` | rounds | pcomm, pairs |
| local load | `load_local_checkpoint` | protected data, parity | once | disk |
| XOR phase | `xor_recover` | protected data, parity | once | xcomm (Allreduce, Reduce) |
| exchange phase | `exchange_local_cps` | files, metadata | once | pcomm |
| job life | `COMB_Init` .. `COMB_Finalize`, `free_cps_files` | everything | start, kill, finalize | |
| XOR coding | `xor_struct.c`, `compute_xor_op` | chunk layout | fill, compute | xcomm |
| agreement of communities | `intersect_op` | global versions | Allreduce | interccomm |
| memory of checkpoints | `free_cps_mem`, `check_code_failed` | `cps`, `chunk`, `xorstruct` | free | error paths |
| data chunks | `memcpy_from_vars`, `memcpy_to_vars`, `fit_datasize` | offsets | copy | files, MPI |
| configuration | `ini.c`, `extra.c` | | parse, print | |

### What is hard

- **No barrier in a checkpoint.** Neither collective spans the community. How
  far ranks drift apart follows from how columns and rows interlock, and the
  whole use of two slots hangs on it.
- **Killed anywhere.** A run may be killed between any two file operations, in
  `COMB_Checkpoint`, in the middle of `COMB_Recover`, between two files a
  cleanup removes; the next run sees each rank's disk at another point.
- **Disks lost** with the failure, in any pattern.
- **Decisions made once.** `lostpgroup` is decided at the root before anything
  is repaired and every phase relies on it; the verdict of `theoretical_repair`
  must match what the phases then really can do.
- **Collectives that fail** at some of their ranks only, perhaps in the middle of
  a loop over chunks: the others stay in the loop, and the next call of those
  that left joins them there.
- **Version numbers** that are reused after a restart, share slots, and collide
  in a hash set.
- **Pairs** that each rank computes alone, and which deadlock if two disagree.
- **Offsets** computed three times, by the writer, the loader and the receiver,
  over data that is padded chunk by chunk and parity that is not where a failed
  Allgather left it.
- **Leftovers**: buffers that are not cleared, a freed `chunk` whose pointer
  stays, a global `fd` with the number of a closed file, a failure reported once
  by every function on the way up.
- **Sizes that do not divide**: communities that are not full, nodes of
  different size, data of any length.

`PROJECT.json` lists these as `hazards`, each at the line where it bites.

### What makes each component correct

- checkpoint call: bounded drift (`DriftBounded`), the predecessor is complete
  before it can be needed (`PreviousKept`), losses within one row and one column
  cost no completed checkpoint (`LossTolerated`), calls return (`CallsReturn`);
- metadata: says nothing false about the data in its file (`MetadataTruthful`);
- negotiation: verdicts are exact (`RepairDecides`), the arrays suffice and no
  version vanishes in the hash set (`RecoverablesFit`, `HashKeysDistinct`), the
  flag is right when it is used (`XorHasParity`);
- recovery: if no checkpoint file is missing every rank gets the data of one
  checkpoint (`RecoveryDelivers`) and it ends (`RecoveryEnds`); it may be killed
  (`RecoveryKillable`);
- partner phase: pairs agree and rounds make progress (`PairsAgree`,
  `RoundDoubles`, `RoundsEnd`);
- coding: any lost rank comes back (`DataRebuilt`, `ParityRebuilt`), the counts
  agree (`ParityFits`);
- file layout: the rank's part is found again (`DataRestored`, `ParityRestored`,
  `ShortReads`);
- process groups: a full community is the grid (`FullGrid`), which others work
  (`ShortCommunities`), a node lost is one rank lost (`OneRankPerNode`);
- agreement: the newest common version (`NewestCommonAgreed`), and when there is
  one (`DriftTolerated`);
- memory: failures have the outcome the protocol models give them
  (`FaultsAsModelled`), and leave nothing for a later call (`CleanCalls`,
  `StructPresent`, `ForeignCloses`);
- job life: what can be recovered is exactly what the scheme promises
  (`LossesThatRecover`) and progress is not lost (`ProgressKept`).

## 2. Modules

```
Grid --- Repair --- PartnerRounds --- PartnerProofs
           |                                 Pace (abstract)
           |                                   ^  implemented by
       Community --- Negotiation --- Checkpoint --- MCCheckpoint, CheckpointProofs
                          |              |
                       Recovery ---- Combined --- MCCombined

CheckpointProofs --- RecoveryProofs --- DeliveryProofs

Sizes --- XorCode ------.            XorCode --- XorProofs
      `-- FileLayout ---|            FileLayout --- FileProofs
Groups -----------------+-- MCParts
Communities ------------|
Lifecycle --------------'            Groups, Communities, Lifecycle --- PartsProofs
```

**Grid** is one community: `PIDs` (rows; a set of model values, so that TLC may
permute them) times `PRank` (columns, numbers because the partner phase
calculates with them). A rank is a pair.

**Repair** has the pure functions: `theoretical_repair` with its two simulated
phases, `assign_partner`, `imbalance_partners`,
`version_state_in_presented_versions`. `Rebuildable` is the reference definition
for the first: the closure of the ranks that have the data under "a partner has
it" and "all others of the column have it".

**Community** holds the variables all protocols share, and the two file steps
both calls use (`OpenCpFile`, `MetaOpen`/`MetaWrite`).

| variable | code |
| --- | --- |
| `pc` | where the rank is between two points at which the others, or a crash, can tell a difference |
| `version`, `lostpgroup` | the globals |
| `mem` | the protected data, as `<<run, version>>` of the checkpoint it is |
| `cp` | the record `cps_t` the call works on: `state`, `loaded`, `failoffset`, `parity`; `chunks` is how far the loop is that the rank is in (`computedb`, `sentb`) |
| `partner` | the local `partner` of the partner phase |
| `meta[r][s]` | `meta-<s>-<r>.dat`: absent, torn (truncated, not written) or valid |
| `file[r][s]` | `cp-<s>-<r>.dat`: whose data and parity it holds; `whole` with all partners' parts, `local` with the rank's own parity only, `empty` while it is absent or not written to its end |
| `run`, `faults` | which start of the job this is; MPI errors so far (not in the code) |

`failoffset` is reduced to none (-1), parity (the transfer of the parity failed)
and unset: the record allocated in `COMB_Recover` (src/src/combined.c:176-181)
never gets a value, so the metadata gets what `malloc` returned: -1 or anything
(`wild`).

**Negotiation** says which version a restart would choose from the disks as they
are, also after the loss of a set `L`: `Outcomes(L)`. It is a set because the
order in which versions enter the hash set is the order of ranks and directory
entries, and of two versions with one key the last stays.

**Checkpoint** is `COMB_Checkpoint`. A collective is one step of its
communicator when the last rank has arrived; what a rank then does alone on its
own disk is a step of the rank: opening (metadata removed, file truncated),
truncating the metadata, writing it.

A loop over chunks is a loop of collectives; `XorChunks`, `DataChunks` and
`ParityChunks` are its turns. `EnterXor(x, k, S)` is `k` turns of the loop of
`xor_checkpoint`, `Transfer(p, k, S)` of that of `all_transfer_and_write`, the
last of which returns an error to the ranks of `S`. As long as turns succeed any
number of them is one step, since nothing reads the file before its metadata
exists. `XorFails` and `ParityFails` take the turns up to one that fails, at any
place in the loop. The ranks of `S` leave; the others are still in the loop if it
was not the last turn, `cp.chunks` says where, and wait for the next collective.
The next `COMB_Checkpoint` of the ranks of `S` calls it, so a step needs all
members in the loop or at its begin, not at the same turn. Once they are not
(`Aligned`), the parity is of two versions, `Garbage`; and a rank that ends
its loop leaves the others where they are in theirs.

**Pace** is the abstract specification of the checkpoint calls: a counter per
XOR group and per partner group, no ranks, files or phases.

**Recovery** is `COMB_Recover`: negotiation, rounds of the partner phase, local
load, XOR phase, exchange phase, barrier. An error return leaves a rank `failed`
while the others wait. A rank whose file is gone (`Missing`) fails when it loads
it or sends it to a partner (`SenderFails`).

**Combined** is the life of the job: runs, `Crash(L)` at any step with the loss
of the disks of `L`, restarts, `Finalize` with or without cleanup. `RemoveMeta`
and `RemoveFile` are one turn of the loop of `free_cps_files` each; the loop
follows `readdir`, so they come in any order, and a crash may come in between.

**PartnerRounds** is the loop of the partner phase on its own, so that larger
groups can be checked than the whole protocol allows.

**XorCode** is the coding of one XOR group: `CheckpointChunk` and `RecoverChunk`
are one turn of the loops of `xor_checkpoint` and `xor_recover`. A byte is the
set of the symbols XORed into it; a byte that `malloc` returned is a symbol of
its own, so nothing comes out right by luck. `dirty` are the ranks whose buffer
had been used before; the others' is zero, as fresh pages are.

**FileLayout** is the file of one rank, byte by byte, written by
`WriteDataChunk` and `WriteParityChunk` (or `WriteParityFails`, or `WriteAlone`
in a group of one), then read by `load_local_checkpoint` (`LoadDataChunk`,
`LoadParityChunk`) or sent by a partner (`ReceiveDataChunk`,
`ReceiveParityChunk`). A registered byte has a place, byte `k` of variable `v`;
`PlaceOf` numbers the places in the order of the list, and `Walk` is the loop of
`memcpy_from_vars` and `memcpy_to_vars` in closed form: the next `n` places from
a cursor on, and the cursor behind them, which stays in the variable where the
last of them lies. The module backs what Recovery states of a file in one line
(`PairTransfer`, `DataLoads`, `ParityLoads`).

**Sizes** has what the two share: `fit_datasize` and the chunk limit.

**Groups** is `COMB_Init`: the counting of hosts around the ring, communities,
the two splits, and what `theoretical_repair` and `compute_xstruct` require of
the result.

**Communities** is a job of several communities. Of each only the pace is left,
`low` (returned from by all its ranks) and `high` (worked on by one), and at the
restart the set of versions it finds recoverable, anything between `Certain` and
`Possible`; `Checkpoint!WindowRecoverable` is that a community's negotiation
gives just that. `intersect_list_op(a, b)` merges one root's list into
another's, in any order.

**Lifecycle** is the memory and the descriptor of one rank over a few calls in
which any step may fail. `check_code_failed` is an action that runs as often as
functions on the way up report the failure (`Reports`); `ResumesAt` says where
the code goes on, which is not always the return of the call.

**MCCheckpoint, MCCombined** add the symmetry set. **MCParts** puts the five
modules above side by side: a behaviour moves one of them (`part`), the others
stay in an initial state. They share no state, so nothing is lost by that, and
one run checks them all. **CheckpointProofs, RecoveryProofs, DeliveryProofs,
PartnerProofs, XorProofs, FileProofs, PartsProofs** hold the theorems,
**Numbers** the facts of arithmetic and finite sets they need.

### Choices a reader should know

- A crash is the death of the processes; what they wrote stays. The checkpoint
  files are synced, the metadata is not; loss of power is outside what the
  models say.
- MPI errors in `COMB_Recover` are not separate: a rank that meets one returns,
  the job can only be killed, and `Crash` is enabled at every step.
- An error in the Allgather of the *data* is not a `Transfer` case:
  `check_code_failed` closes the file and frees `chunk`, the error path then
  fails to write and frees it again, which aborts; with more than one variable
  left it spins at src/src/checkpoint_utils.c:190-194. Lifecycle has both
  (`FaultsAsModelled`); for the protocol either is a `Crash`, since a job that
  spins is killed.
- Two ranks of one loop that are at different turns may pass different counts to
  the collective, the last chunk being smaller. MPI leaves that undefined; the
  models take the result as `Garbage`, in memory and in the file, and go on.
- A failed write of the metadata (`MetaFails`) leaves it truncated and the call
  returns; the job runs on.
- After an error in the Allgather of the *parity* the record `cp` has been freed
  but is still used to write the metadata (src/src/combined.c:284). The models
  take what the build does: its fields are read back intact, the metadata says
  `XORDATA`, and the call returns success, which is what Lifecycle derives.
- A rank's data is a stamp, so "the right data" means: of one run and version.
  Rebuilding by XOR yields the stamp if all inputs have it, else `Garbage`.
  `DataRebuilt` is why. For the parity it is right for the sizes `ParityRebuilt`
  names: when the last chunk's data ends before the hole of a survivor in front
  of the lost rank, what was left in a buffer gets into the rebuilt parity.
- The application goes on after a failed call, as the repository's example does,
  which ignores the result (src/example/heatdis_combined.c:116,138).
- Removing the metadata and truncating the checkpoint file is one step
  (`OpenCpFile`), so their order is not told apart from the reverse.
- `Lifecycle` counts a descriptor as closed after the metadata was loaded, which
  the code leaves open; `ForeignCloses` is an upper bound there.

## 3. Runs

The runs of the protocol have three partner groups of two ranks, the smallest
grid the configuration admits (`partner_group_size` at least 2, `xor_group_size`
at least 3), and two slots (the default). In that grid a column can lose one
rank or more, a row can lose all, two rows can be gone, and every phase of the
recovery can occur. `PIDs` is a symmetry set where no liveness is checked; no
definition orders its members (`Witness` picks one, which only `PaceKept` uses,
in a run without symmetry).

| run | bounds | what it shows |
| --- | --- | --- |
| `checkpoint` | 4 versions, no MPI error | `TypeOK`, `DriftBounded`, `PreviousKept`, `LossTolerated`, `WindowRecoverable`, `RecoverablesFit`, `HashKeysDistinct`; with fairness `CallsReturn` and the refinement `PaceKept` |
| `faults` | 3 versions, 1 failed call, loops of 4 chunks for the parity computed, 3 and 2 for data and parity transferred | `DriftBounded`, `MetadataTruthful` |
| `restart` | 1 version, 2 runs, any disks lost, no cleanup | `TypeOK`, `RecoveryDelivers`, `LossesThatRecover`, `RecoveryKillable`; with fairness `RecoveryEnds` |
| `cleanup` | 1 version, 2 runs, killed while files are removed one by one, no disk lost | `RecoveryDelivers`, `XorHasParity`, `RepairDecides` |
| `job` | 2 versions, 2 runs, no disk lost, no cleanup | `RecoveryDelivers`, `ProgressKept`, `Intact` |
| `partner_rounds` | partner group of 7 | `PairsAgree`, `RoundDoubles`, `RoundsEnd` |
| `parts` | see below | the 15 invariants of XorCode, FileLayout, Groups, Communities and Lifecycle |
| `torn` | 2 versions | `KeepsOneCheckpoint` is violated |
| `skew` | 2 versions, 1 failed collective | `PartnersShareVersion` is violated |
| `exchange` | 1 version, 3 runs, 2 disks per failure | `NoRankFails` is violated |
| `mixed` | 2 versions, 3 runs, no disk lost | `OneCheckpointChosen` is violated |
| `xordata` | 1 version, 1 failed collective | `RecoveryDelivers` is violated |

Why the bounds are enough. Four versions in two slots: each slot is overwritten,
with the drift of one a rank may be at 4 while another is at 3 and a third still
presents 1 or 2, and versions 1 and 4 have the same hash key (`HashKeysDistinct`
says that they are never presented together, which three versions could not
show). `restart` and `cleanup` start where one checkpoint is complete
(`StartVersion`); what a crash in the middle of checkpoints leaves is the
subject of `checkpoint` (through `Outcomes`) and of `job`, which recovers from
it. `MaxFaults = 1`: with one failed collective the ranks already disagree in
every way the error paths allow; two drift further, which the theorem covers.
Only in `faults` do the loops have more than one turn; without an error their
turns are one step whatever their number. Four turns of the parity let a loop
break in its first, a middle and its last turn, and go on from there in the
others; data and parity of 3 and 2 chunks let an Allgather of the parity fail in
either turn, with partners before and behind it. `cleanup` removes metadata and
files of six ranks in every order, which leaves every pattern of both on the
disks, those of `restart` without a file missing among them; `XorHasParity` and
`RepairDecides` after more restarts than one are theorems.

`parts`: a base size of 2 bytes and chunks of 8 stand for 8 bytes and 1.6 MB, so
that data of up to 17 bytes makes one, two or three chunks, full, short by one
byte or by a segment. XOR groups have 3 or 4 ranks, any of which is lost. Files
are those of partner groups of 1, 2 and 3 (a member in the middle first occurs
in 3), with variables that end in, at and across chunks and an empty one. Groups
divides 5 to 21 ranks on nodes of 1, 2 and 3, dealt out or of unequal size, for
three grids: full, smaller and several communities. Three communities make two
rounds of up to two checkpoints with a history of two, where the interval
reaches the history and `DriftTolerated` would be false. Three calls in
Lifecycle: one to leave something behind, one to trip over it, one after.

Most of these invariants are equivalences: they say when the code works and when
it does not, so a condition that is too strict is found as well.

- `ParityRebuilt`: the rebuilt parity is wrong only with leftovers as described
  above.
- `DataRestored`: data comes back unless a `failoffset` lies in front of its
  last chunk and the rank is not the first of its group. The code sets no such
  value, but a record of a recovery may carry one (src/src/combined.c:176-181).
- `ParityRestored`: from a file with the group's whole parity it comes back if
  there is no `failoffset`, or to the last member also with one behind the
  parity's last chunk begin. The parity a rank appended by itself is found by
  accident only, by a member in the middle whose offsets happen to fit; never in
  groups of two.
- `ShortCommunities`: a smaller last community works exactly if its ranks are a
  multiple of the partner group size and at least two partner groups.
- `OneRankPerNode` holds for nodes of one size with their ranks in blocks; the
  run has placements of other kinds, for which it claims nothing.

`LossTolerated` is tight: a rank whose metadata is torn counts as lost, and the
set of lost and torn ranks may cover one whole row and one whole column. With
members of two rows and two columns the scheme cannot repair, and the run `torn`
shows what that costs.

Fairness. `CheckpointFairSpec` and `CombinedFairSpec` assume weak fairness of
each collective (once its last rank has arrived MPI completes it) and of each
rank's own steps (a process runs on), a failing read included. In `checkpoint` every rank also calls
again; the library demands it, its calls are collective. Crashes, failed
collectives and `Finalize` are not fair, they may never happen. `RecoveryEnds`
says that each recovery that starts with no checkpoint file missing ends in all
ranks being back in the application; it would be false if a crash could come for ever, and `MaxRuns`
bounds them.

Deadlock is checked except in `parts`, where every part simply ends, and in
`faults`: after a failed collective the ranks are out of step for good, and at
the bound `MaxVersion` the last of them wait. `CheckpointsMade` and `JobEnded`
are the regular ends. `JobHangs` is a rank whose recovery failed: the others
wait in a collective for it. Through `RecoveryDelivers` the passing runs show
that it is reached only in `cleanup`, and there only if a file is missing.

### Disagreements found

Each is a run that expects a violation, with the quotation under `findings`.

- `torn`: `write_metadata_file` truncates first and writes later, and one torn
  file hides all slots of its rank. Ranks of two rows torn at once (an ordinary
  kill during a checkpoint) lose the completed previous checkpoint too.
- `exchange`: `exchange_local_cps` never sets the state to `FULLDATA`, against its
  own comment (src/src/recovery_utils.c:238), so the metadata it writes after a
  complete exchange says `XORDATA`. The next recovery has the same row exchange
  again; nothing is lost, so `lostpgroup` is not set, and the Allgather of the
  parity has a NULL buffer. (A recovery killed before the exchange leaves no such
  metadata: `xor_recover` writes none, the rebuilt rank is `NODATA` again.)
- `mixed`: after a restart version numbers are made again; a third run can
  assemble one version from two executions.
- `xordata`: the rank's own parity after a failed Allgather lies where
  `load_local_checkpoint` does not look.
- `skew`: a failed Reduce_scatter leaves one column a version ahead; partners
  then store two versions in one `FULLDATA` file and return success.

Five more have no run of their own; the first two are reached in `faults` and
`cleanup`, whose properties allow for them, the third was found with other
bounds, the others come from invariants that hold:

- A Reduce_scatter that fails before the last chunk. The ranks that did not see
  it end their loop together with the next call of those that did, take a parity
  mixed of two versions, transfer it, write `FULLDATA` metadata and return
  success. `MetadataTruthful` holds of the data; of the own parity it can only
  say that it is right or such a mixture. A later rebuild by XOR would read it.
- A kill inside `free_cps_files` may leave valid metadata whose checkpoint file
  is gone. The negotiation reads metadata only, so a restart chooses a version
  whose file a rank cannot read: the rank returns from `COMB_Recover`, the others
  wait for it in a collective (src/src/combined.c:217-227), though
  src/include/combined.h:42 promises the most recent recoverable checkpoint. The
  recovery properties therefore ask for `Intact`, which `IntactWithoutCleanup`
  shows of every job that does not clean up.

- A restart that finds nothing (src/src/combined.c:160) leaves the metadata of
  the versions it could not recover, and the job begins at version 1. In
  `make_hashset` (src/src/common.c:55-65) such a version can hide a new one with
  the same key. `ProgressKept` is violated in the instance of `job` with
  `StartVersion = MaxVersion = 4` and `MaxLost = 4`: the first run fails with
  checkpoint 4 and loses two rows of three, the second completes version 1 on
  all ranks, in the other slot, and is killed without a loss. Version 4, still
  presented by the third row, has the key of version 1 (`cpcount = 2`) and may
  be gathered last; it cannot be repaired, and the third run finds nothing, while
  src/include/combined.h:42 promises the most recent recoverable checkpoint.
- src/README.md:49 says that the last community is "automatically be adjusted"
  if the ranks do not fill it. `ShortCommunities` gives the exact condition:
  with any other remainder some rank has no XOR partner, and `compute_xstruct`
  divides by `xranks - 1 = 0`, or `theoretical_repair` leaves its array.
- src/README.md:52 (`consider_ranks_per_node`) says that groups contain at most
  one process of a node. `OneRankPerNode` needs nodes of one size whose ranks
  are neighbours: `nodesize` is a quotient (src/src/combined.c:91).

## 4. Proofs

**CheckpointProofs** is about `CheckpointSpec` for every `PIDs`, `PSize`,
`CpCount`, `MaxVersion`, `MaxFaults`, `XorChunks`, `DataChunks`, `ParityChunks`
that satisfies the named assumptions of `Grid`, `Community` and `Checkpoint`.

- `TypeCorrect`: `CheckpointSpec => []TypeOK`.
- `DriftIsBounded`. `DriftBounded` is not inductive: it does not say what the
  groups have done, nor where in a loop a rank is. `Gap` is how many loops, begun
  ones counted whole, a rank is ahead of another. `PaceInv` bounds the sum of two
  gaps, from any rank over a member of its column to one of that one's row, by
  the failed calls. All members of a loop take the same number of turns in a step,
  so no gap grows unless some leave early (`GapStep`); the sum, and not each gap,
  is what one failure raises by one. `PaceStep` shows that every action keeps it.
- `MetadataIsTruthful`, for loops of any number of chunks broken at any of them.
  The strengthening `FilesInv` adds `Work`: what the record in memory and the file
  of the slot in work hold at each `pc`, also between two chunks of the transfer,
  and that the metadata of that slot is not valid from the opening to the
  metadata write. It is needed because only the last step of a call makes the
  metadata valid. The theorem says of the own data that it is of the version the
  metadata names, and of the own parity that it is too, unless `XorChunks > 1` and
  a call has failed: then it may be a mixture, which the code does produce
  (section 3).
- `PreviousIsKept` needs at least two slots: the slot a rank works on is then
  not that of its predecessor (`SlotDistinct`). `KeptInv` says of every rank, on
  its own, that it holds every version of its window (`Kept`): the last
  `CpCount` it has finished, less the one whose slot it is overwriting; a column
  enters a version only from the application, together.
- `HashHoldsAll`: `[]HashKeysDistinct`. `RecentInv` says that no metadata is
  older than the checkpoint the rank overwrites next, and only until it opens
  the file; with `PaceInv` all versions presented lie within `cpcount + 1` of
  each other.
- `PaceImplemented`: without MPI errors initial states map to initial states of
  `Pace` and every step maps to a step of it or a stutter, from `PaceInv`.

Every strengthening was checked by TLC on the instance of `faults` before it was
proved.

- `KeptInvariant` and `RecentInvariant` state the two strengthenings as
  invariants of the specification, for the proofs below.

**RecoveryProofs** is about `CombinedSpec`: any number of runs, crashes with any
disks lost, failed collectives.

- `JobTypeCorrect`. `TypeOK` is strengthened by `VersionsBounded`, since a
  restart takes its version from the disks.
- `IntactWithoutCleanup`: `[]Intact` if `~Cleanup`, whatever fails. `BackedInv`
  adds that while the file of a slot is written (by a checkpoint, a partner, an
  exchange) its metadata is not valid, and that the file is complete before the
  metadata is opened.
- `LostGroupsHaveParity`: `[]XorHasParity`. `ParityInv` says that without
  `lostpgroup` no rank is without data once the partner phase is over: the
  negotiation returned 1 for the version, so every row has a full member
  (`NegotiateDecides`), and no step of the phase takes the last one away
  (`HelpInRecovery`, `HelpElsewhere`).

It also has the decision function, for every grid:

- `RepairExact`: `theoretical_repair(st) > 0` exactly if `Rebuildable(st)`. If
  it rejects, two ranks `a`, `b` of a column stay without data, and all ranks
  but these two are a closed set (`Closed`); if it accepts, every closed set has
  all ranks the partner phase fills and with them the one each column may miss.
- `RepairAlwaysDecides`: hence `[]RepairDecides` for `CombinedSpec`; nothing
  about the reachable states is needed.

Its last part is about what a restart finds after `CheckpointSpec`. All three
theorems rest on `CallsInv`, the conjunction of the invariants above, and on
`RowsRecover`: a version is repairable if every row but one has a full member.

- `LossIsTolerated`: if the lost and torn ranks lie in one row and one column,
  the other rows keep a member in another column that holds the last complete
  checkpoint (`KeptInv`); no version vanishes in the hash set
  (`HashKeysDistinct`), so it is a candidate, and the newest candidate is at
  least it (`NewestIsGreatest`). At least two slots.
- `WindowIsRecoverable`: the same for every version of the window, and
  `RecentInv` for the other bound. Any number of slots.
- `RecoverablesAlwaysFit`: `cpcount + 1` versions would have to be recoverable
  at once, the oldest and the newest of the window with them. Each needs a rank
  that presents it in every row but one, so of three rows (`ThirdRow`) one has
  both; but a row that has transferred the newest has no rank left with the file
  of the oldest (`NotBothEnds`).

**DeliveryProofs** is about the first restart of a job, under `CombinedSpec`
with `MaxFaults = 0`: no collective fails. (With failures the properties are
false; `xordata` and `skew` show how.) The grid, `CpCount`, the number of
versions, of chunks, `Cleanup` and the disks a crash takes are arbitrary, and the
first run may be killed at any step of any checkpoint and between any two files
that `COMB_Finalize` removes.

`JobInv` is the inductive invariant. Of the first run it keeps what
CheckpointProofs shows and `Shown`, what metadata each rank presents at each
`pc`. Of the second it says that the disks hold what the first left
(`LeftBehind`) until the negotiation has chosen a `V`, and then that the
recovery carries `V` (`Carried`): at each `pc` every rank has the data of the
first run's checkpoint `V` in memory or on disk, or no data where a later phase
will bring it, and a column never waits for two ranks (`OneLost`). `OnDisk` says
what a restart in the middle would see: the disks suffice for `V` (`Enough`) and
never for a newer version (`NoneNewer`). A killed cleanup leaves metadata without its file (`Left`); a rank
may then be `failed`, but only with such an `Orphan` on its disk, and everything
else is carried on as before.
`RepairExact` is why a version accepted by the root can be carried at all.

- `FirstRecoveryDelivers`: `run <= 2 => RecoveryDelivers` always, whatever the
  number of runs. It speaks of the data in memory and of failing ranks, where
  `Intact`, and says nothing of the parity, which a rebuild may get wrong
  (`ParityRebuilt`); `OneRecoveryDelivers` is `[]RecoveryDelivers` for
  `MaxRuns <= 2`. Later recoveries are excluded because the property is false of
  them: `exchange` and `mixed` are its counterexamples.
- `FirstRecoveryIsKillable`: `[]RecoveryKillable`, from `OnDisk`. That a version
  the first run had torn at some rank does not become repairable when the
  recovery overwrites the torn file is what `TornBehind` in `LeftBehind` is for.
- `LossesAreDecided`: `[]LossesThatRecover` for jobs whose first run has made
  its last checkpoint, which is what the property speaks of: `StartVersion =
  MaxVersion`, not zero, so that version is all the first run leaves.
- `ProgressIsKept`: `run <= 2 => ProgressKept` always, for at least two slots,
  if the restart satisfies `NothingHidden`; `ProgressOfOneRestart` is
  `[]ProgressKept` for `MaxRuns <= 2` and at most `cpcount + 1` versions, which
  the instance of `job` satisfies. `ProgressInv` follows the disks through the
  restart. In both runs calls start from some version `b` that all ranks present
  (`Making(b)`): 0, the version recovered, or `StartVersion`. `Keeps` says that a
  rank presents every version from `b` on that it must still hold, those after
  `b` with its partners' parts; `Near` that nothing else on its disk, left by the
  first run, is so far away that it could have the key of one of these. A killed
  first run leaves versions close together (`Spread`), and while `V` is recovered
  whoever has its file presents it (`Returning`). So the last complete version
  stays in every hash set (`CloseIsInHash`), or a newer one a whole column holds.
  `NothingHidden` leaves out the one case where `Near` cannot start: the restart
  finds nothing and counts from 1 again while a version beyond `cpcount + 1` is
  on the disks. There the property is false (section 3).

**PartnerProofs** is about `RoundsSpec` for partner groups of any size.

- `PairsAlwaysAgree`: `[]PairsAgree`. `assign_partner` walks around the ring and
  stops where full and waiting members balance. The first such place is the
  least element of a set of numbers, which stands for the induction
  (`FirstBalance`); seen from there backwards, the walk of the other member
  balances first at this one (`BalanceBack`, `Mutual`).
- `RoundsDouble`: the action property. All members of the smaller side have a
  partner (`SmallerSidePairs`), so a round adds as many full members as there
  are, or fills the group (`RoundCount`).

**XorProofs** is about `XorSpec` for every size of group, element, chunk and
data, and whatever `malloc` returns. `XorIInv` has three parts: types and
buffer sizes; `ParitiesRight`, what each byte of each rank's parity is the XOR
of, for the chunks done; `Recovering`, that the bytes rebuilt so far are right.

- `ParityFitsHolds`: `[]ParityFits`; `TurnFacts` and `StartsApart` relate the two
  ways of counting, by chunks done and by the sum compute_xstruct makes.
- `DataRebuiltHolds`: `[]DataRebuilt`. In the segment of the lost rank's data
  that survivor `s` keeps the parity of, all symbols cancel but the lost rank's
  (`OthersCancel`, `XorMembers`); the margin is zero on both sides.
- `ParityRebuiltHolds`: `[]ParityRebuilt`, both directions: the rebuilt parity is
  right exactly if no leftover gets into it. `RebuildIInv` adds to `XorIInv` what
  a buffer holds behind its hole, in the first turn what `malloc` returned, later
  what the turn before left (`Buffered`), and when the parity rebuilt so far is
  right (`ParityBack`). A leftover does not cancel (`SymbolLeft`): no other
  member has its symbol.

**FileProofs** is about `FileSpec` for every size of group, element and chunk,
every list of variables (empty ones too), every parity and every `failoffset`.

- `FileInvariant`: `[]FileInv`. The invariant has one disjunct per loop of the
  code, and says of each what it has done up to its counter: `WritesData`,
  `WritesParity`; then `FileIs(w)`, the finished file with the parity's Allgather
  failed at byte `w` or not at all, with `ReadsData`, `ReadsParity` or `HasRead`.
  `DataLaid` and `ParityLaid` say where each byte lies, `GotData` whose data has
  been read: behind a `failoffset` (`Hid`) that of the first member. `ParityOnly`
  says that no byte of the own parity lies anywhere else, which is needed for the
  direction of `ParityRestored` that a wrong offset does not find it.
- `DataRestoredHolds`, `ParityRestoredHolds`, `ShortReadsHold`: the three
  invariants. The cursor passes every place once and in order, whatever the
  sizes of the variables (`PlaceNumbers`, `WalkFacts`), so the chunks fit together.
  That the parity is found exactly where `ParityRestored` says is arithmetic over
  the offsets of the writer and of the loader, chunk by chunk (`FoundRight`, with
  `AloneRight`, `WholeRight`, `TornRight` for the three kinds of files).

**PartsProofs** has three parts.

- Groups, for every `GroupSizes` and `Placements` that `GroupsAssumption`
  admits. `GroupsInv` says how `Divide` set colours and keys. MPI's order of the
  members of a colour is a bijection to `0 .. cranks - 1` (`Positions`), so
  partner and XOR groups are counted by arithmetic (`RowSize`, `ColumnSize`,
  `GridOfRows`). `FullGridHolds`, `ShortCommunitiesHold` (both directions: the
  walk and the parity at the rank in position 0 force whole rows,
  `RowsAreWhole`) and `OneRankPerNodeHolds` (the ring of host changes finds
  blocks of `k` ranks to be of size `k`, `BlocksFound`) state the three
  invariants.
- Communities, for any set of communities. `AgreementIsNewest`: `MergeInv` says
  that what the unmerged lists have in common is what all communities have in
  common. It needs that one community's versions have distinct keys
  (`WindowKeys`), or the hash set could drop one. `DriftIsTolerated`:
  `PaceOfJob` relates each community's counts to the application's collectives;
  the slowest community's last complete version is then in every other's window
  (`CompletedIsCommon`).
- Lifecycle, for any number of calls. `LifeInv` says how far a failure has been
  reported (`Reporting`), what a call in which nothing failed may find
  (`Unharmed`), when the structure is gone (`StructKept`), when the descriptor
  is another's (`ForeignHeld`), and for one failing step what survives it and
  what is returned (`SingleFault`). `CleanCallsHold`, `StructPresentHolds`,
  `FaultsAsModelledHolds` and `ForeignClosesHolds` follow from it.

**Numbers**: remainders and quotients, least and greatest elements, one-to-one
maps between finite sets.

The theorems assume the ASSUMEs of the modules, which TLC evaluates in the runs,
and what their statements name, nothing else.

### Model-checked only

- Liveness under fairness (`CallsReturn`, `RecoveryEnds`, `RoundsEnd`, the
  fairness of `PaceKept`; its safety part is `PaceImplemented`): out of the
  prover's reach, as is ENABLED.
- `ProgressKept` after a second restart, for which `ProgressIsKept` says nothing.

## 5. Not modelled

What is left out, and why:

- `ini.c`, `extra.c`: a third-party parser and printing helpers, no protocol
  state.
- The tests, and of the example all but its pace.
- `is_myfile` and the byte format of the metadata: names and numbers are
  abstract. The comparison before the start of short names
  (src/src/naming_utils.c:34) is undefined behaviour that no state of the models
  depends on.
- A `cp_history` that changes between two runs (src/src/recovery_utils.c:32);
  the models take the configuration of a job as constant.
- Nothing registered before `COMB_Checkpoint` (src/src/xor_struct.c:42).
- Loss of power: the missing `fsync` of a received file
  (src/src/recovery_utils.c:157) does not show otherwise.
- Descriptors that are lost open (src/src/recovery_utils.c:157), a `remove` that
  fails, and the freeing of communicators.
