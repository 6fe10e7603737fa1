# A TLA+ model of Stashden

Stashden (formerly RoxyCloud) is self-hosted file storage: an axum/sqlx API over Postgres and a
content-addressed blob store, a WebDAV endpoint, a sync client, a CLI, a desktop shell and a web
app. This directory holds TLA+ specifications of the parts in which the order of events decides
whether files survive, the TLC configurations that check them and the TLAPS proofs of the results
that matter most. Paths below are relative to the repository.

## The system and its hard parts

| Part | State it keeps | Operations | What makes it hard | Correct when |
|---|---|---|---|---|
| Blob store, sweeper (`api/src/storage`, `incoming.rs`, `sweeper.rs`) | bytes under their hash, their age, staged copies; table `blobs` with `ref_count` and `unreferenced_since` | stage, adopt or place, register, commit, settle; sweep of rows, bytes and staged copies | bytes and rows share no transaction; uploads deduplicate against what a sweep is removing; processes die half-way; several replicas sweep | a 201 means the bytes are there; counts are exact; what nothing refers to goes |
| Resumable uploads (`uploads.rs`, `routes/uploads.rs`) | table `uploads`, a staged file per session | begin, append, finish, abandon, expire | a claim that lapses while its holder sleeps; reads before the claim; file before row | what was received is in the file; what is finished is whole; scratch space comes back |
| Node tree and quota (`db.rs`, `access.rs`, `routes/files.rs`) | `nodes`, `quotas` | mkdir, put, rename, copy, list | paths are resolved before the owner lock and written by id after it | a tree, with exact sums |
| Trash (`trash.rs`) | `deleted_at`, `trash_root_id` | send, restore, purge, empty, expire | batches nest, split and cascade | nothing is lost outside a batch; everything comes back or is released |
| Versions (`versions.rs`) | table `versions` | keep, make room, prune, take | moves bytes and references inside another write | the quota and the counts balance |
| WebDAV (`dav/`) | table `locks` | the tree's operations, LOCK, refresh, UNLOCK, lapsing | locks are asked about before a write, which names nodes and not paths; a body takes time; locks lapse and the tree moves under them | what is locked changes only with the token; a lapsed lock is none |
| Accounts and sessions (`users.rs`, `sessions.rs`, `auth.rs`, `app_passwords.rs`, `oidc.rs`, `attempts.rs`) | `users`, `sessions`, `app_passwords`, `attempts`, `oidc_flows` | sign in, revoke, disable, demote, delete, throttle | a sign-in is counted, verified, forgiven and given its session in separate statements; administrators act on what they loaded | revocation takes effect; guesses are rationed; somebody administers |
| Grants, shares, departure (`grants.rs`, `shares.rs`, `departure.rs`) | `grants`, `shares` | give, withdraw, open a link, hand over an account | two accounts' trees in one request; addresses, owners and whole accounts change between a look and its write | one owner per tree, exact sums for both accounts, rights go where the owner sent them |
| Thumbnails, search, check (`thumbnails.rs`, `search.rs`, `check.rs`) | cached blobs | derive, forget, repair | cache rows hold blobs too | counts include them |
| Sync client (`crates/client/src/sync`) | the last agreed state of a folder, on disk | scan, reconcile, apply, record | both sides change while a pass runs; the state is saved at its end | no edit is lost |
| CLI, desktop, web, site | none of their own | calls on the API | | not modelled |

## Modules

`BlobLifecycle` models one blob store (local or object store, a constant), the blob rows, file
slots, uploading requests and sweepers. Every step between two awaits is an action: `Stage`,
`Adopt` / `Miss` / `Place`, `Register`, `Ensure` (the `INSERT ... ON CONFLICT` of `put_file`),
`Acquire` (`acquire_blob`, for which no row is no error), `Commit` (the node, its foreign key and the
commit) or `ForeignKeyRefuses`, `Settle`; and for a sweep `Claim` (the row's `DELETE` in an open
transaction), `Spare` or `Condemn` (the age of the file), `RemoveBytes`, `Collect`. Row locks are
guards on the others (`RowBusy`, `RowLocked`, `SlotBusy`). The constant `Faults` says what may go
wrong: handlers dropped, sweeps that die, requests slower than the grace period, a store that does
not answer. `missed` is history: the blobs for which a node was committed without its raise.

`UploadSession` models the rows and staged files of one account's sessions. A file is a length and
the set of positions that hold the client's byte, so holes and lost tails are visible. A chunk is
`Look` (the session is read and the offset compared), `Claim`, `CutBack` (`set_len`), `Write` for
each unit, `Renew` while the body drains, `Record`. A request may be overtaken between any two of
these. `Faults` lets a handler die where it stands (`Die`) or oversleep its renewal ("pause").
`overtaken` is history: the sessions whose file was cut back by a request that another had moved past
(`Current`), which nothing in the code prevents (the section on deviations).

`NodeTree` models one account: nodes with parent, name, blob and etag, trash batches, versions,
reference counts and the quota. A request is two steps, as in the code: a `Look...` action resolves
the path with plain reads, and the action of the same name (`Mkdir`, `Put`, `Move`, `Copy`, `Send`,
`Revert`) does what the handler's transaction does by node id, including what follows in the same
transaction: pruning versions, dropping the oldest ones to make room, releasing blobs, the quota.
`Restore`, `Purge`, `ListDue`/`ExpireOne` (`expire`, one transaction per root) and `SetQuota` are
the rest. `Overtaking` says whether others act between the two steps of a request.

`SyncEngine` models the client: the folder, the account's tree, the state file in memory and on
disk, and a pass in its steps. `Scan` takes the folder's snapshot and `List` the server's, one
directory at a time (`walk`; `DirectoryGone` when one it was told of has gone since); `MakePlan` plans
(`unfit`, `reconcile`, `HeldApply`, with the source's decisions in `Verdict` and `for_file`); then one action
per entry of the plan (`ServerDoes` or `ServerRefuses` for what the server is asked, `Download`,
`DeleteLocal`, `MakeWay` for the first half of a conflict, and so on); `Finish` records the folders
that agree and saves. Users of both sides act in between. `RequestFails`, `AnswerLost`, `ListFails`,
`SaveFails` and `Crash` are what goes wrong. A content is a number no edit used before, what was there
to begin with a number up to 0 (no two files start with the same content); the name of a conflict copy
is one beside the file that no user and no other file's copy has (`CopiesAssumption`); `written` and `bygone` remember what users saved and what they replaced or removed themselves, and `forgetful`
whether a pass did something other than what it recorded. The removals and uploads it asks of the
server are `NodeTree`'s `Send` and `Put`, seen from outside: a removal fills the trash.

`UploadPromise` is what a client of a resumable upload is told, without claims, clocks or files: an
offset that never goes back while the session is open, bytes that stay below it, and a stored file
that is the whole one. It is a promise to requests that take turns: one that is told an offset (`Ask`)
and writes there (`Write`) after another had its turn (`MovedOn`) spoils its session, of which nothing
is promised any more. `UploadRefinement` maps `UploadSession` onto it: the phase of a session is
its row, the offset its column `received`, the bytes those of the staged file, and a finish is under
way from the look that found everything received to `put_file`. `KeepsThePromise` says that the
detailed specification implements the abstract one.

`DavLocks` models one account's tree as names and nodes, and the lock table. A method that writes is
two steps: `...Check` resolves the path and asks about locks (`Allows`, `NoneBelow`, as the queries
do, `LIMIT 1` without an order included), and the action of the same name writes by node id. PUT has
a step more, `PutOpen`, before its body. `Lapse` is the clock, `PurgeExpired` the sweep; `RestMove`
and `RestSend` are the REST routes, which do not ask. As in `NodeTree`, `Overtaking` says whether
others act between check and write; a body being received never keeps others from acting.

`Tables` is what Postgres collects when it follows references from row to row, in a `WITH RECURSIVE`
query or a cascade: `Collected` widens a set once per row of the table, `Ancestors` is the walk up a
column of parents. `NodeTree`, `DavLocks` and `Sharing` say their subtrees, ancestries and cascades
with it.

`Accounts` models users, sessions, app passwords, the attempt counter, single sign-on flows and the
sign-in setting. A request is let in (`Enter`, `EnterWithAppPassword`) with the account, role and
password hash it loaded and acts on those later; a sign-in is `LoginSpend`, `LoginVerify`,
`LoginForget`, `OpenSession`, and through a provider `Callback`, `Admit`, `OpenSession`; a change of
password is `ChangeSpend`, `ChangeForget`, `ChangePassword` or `ChangeRefused`. Requests of
administrators interleave like all others. Two variables are history: `credit`, the guesses an address
may still be asked, one for each block that was served, and `late`, the sessions of sign-ins that a
disable overtook.

`Sharing` models several accounts: their trees with the trash, one content's reference count, the
quotas, grants, links and addresses. A request resolves its paths through its own root or a mount
(`Places`, with `DirectoriesForWrite` and `Movable`), and writes later by the node and the owner it
read; in between grants are withdrawn, addresses change (`SetEmail` with the loop of `reassign` in
`Reassign`) and accounts leave (`RemoveAccount`, `HandOver`). One request on the trees is under way at a
time, and what the trash gives back or purges it does while none is: trashing between another request's
look and its write is not part of this module. Names of siblings, overwriting and
versions are left to `NodeTree`, disabled and read-only accounts to `Accounts`.

The components meet in these places: a put of `NodeTree`, `DavLocks` or `Sharing` is the `Commit` of
`BlobLifecycle`, seen without its bytes; a finish of `UploadSession` is such a put; a deletion of an
account is one action in `Accounts` (its credentials) and one in `Sharing` (its files); `SyncEngine`
sees the tree from outside.

Each has an `MC...` module with the symmetry sets and constraints (for the tree also the sizes of
the blobs, for the client the paths). `BlobLifecycleProofs`, `UploadSessionProofs`,
`TablesProofs`, `NodeTreeProofs`, `DavLocksProofs`, `AccountsProofs`, `SharingProofs` and
`SyncEngineProofs` hold the theorems.

Blobs are names, bytes are units, time is a small clock; hashing, HTTP, SQL text, error bodies and
logging are left out. Postgres is taken to run each statement atomically at READ COMMITTED with the
row locks the statements take.

## Runs

| Run | Shows | Bounds, and why they are enough |
|---|---|---|
| `blob_local` | `AckedHasBytes` on the local store when every write reaches its end in time and no sweep dies | one hash (the races are about one), two slots and two requests so that one upload deduplicates against another's orphan, a grace of 3 against a deadline of 1, eight ticks: an orphan ages out, is adopted and ages again |
| `blob_faults` | `CountsOnlyMissRaises`, `SweepTakesNothingHeld`, `OrphansAreCollected` on the object store under every fault | two requests and a sweeper on one row: the foreign-key window, the insert that races the delete, the raise that finds no row and the row that comes back are all reached |
| `blob_counts` | a sweep and a second upload between two statements of `put_file` break `RefCountExact` | as `blob_faults`, on the local store and without faults |
| `uploads` | `FinishedIsWhole`, `WritersApart`, `OpenSessionHasFile`, `SessionCeiling`, `ScratchIsReclaimed` and the refinement `KeepsThePromise` while writers die, oversleep or come late | two requests, a file of two units (one recorded, one being written), two begins at a ceiling of one, a clock past a claim and a lifetime; ids are used in one order (`InOrder`), only the first session is filled (`OneFilled`), and a run ends with the first file stored of a session that was overtaken (`FirstMishap`) |
| `tree_sums` | `RefCountExact`, `QuotaExact`, `SaveNeverFailsForHistory`, `NothingLiveBelowTrash`, `TrashIsListed`, one request after the other | three nodes below the root, the smallest tree in which a restore splits a batch; contents of one and two units, two versions kept, quotas of 2 and 6 that are raised and lowered: pruning, room made by dropping, refusal and copies all happen |
| `tree_moves` | `NoCycle` with overtaking requests and the expiry | directories only, two of them and two requests: the smallest crossing move |
| `sync_pass` | `NothingOverwritten`, `DeletionsStayWhileRecorded`, `ReadOnlySharesUntouched`, `NamesFit`, `Converges` | a folder with a file that is or is not there yet, its two conflict copies, a folder whose name clashes with it, a read-only share with a file and one under a name the folder cannot hold; three edits, between two requests of a listing too (synced, changed on both sides, removed) and one failure: every action of a plan is taken |
| `sync_shares` | removing a writable share breaks `RemovedSharesKeepTheirFiles` | two edits: the removal, and the owner's new file |
| `dav_locks` | `OnlyThroughALock`, `NothingTakenFromBelow`, `LapsedIsGone` | a folder, two files, paths of one and two names, two tokens and two requests, one of which may be receiving a body: a lock on a file and a deep one on the folder around it, both by others than the writer |
| `accounts` | `GuessesAreEarned`, `DisablingEndsSessions` | two accounts, two requests, two free attempts, one password and guesses that are wrong, one app password or flow, and two rows of sessions, app passwords and flows in all, three with the attempts (`FewRows`), two counted attempts in all (`FewAttempts`), enough to block either address: sign-ins of one account overlap what an administrator does to it, and two administrators act on each other |
| `sharing` | `WholeTrees`, `SumsExact`, `GivenByTheOwner`, `RightsFollowTheAddress`, `NothingLostInDeparture` | two accounts, three addresses, so that an address changes to one that was given something, two folders and two files, a quota of one file, four rows of nodes, grants and links in all (`FourRows`) |
| `sharing_address` | setting an address to what it is breaks `RightsFollowTheAddress` | as `sharing` |

`MostReferences` bounds `ref_count` and `MaxNow` the clock; both are guards that only cut off
longer histories.

Fairness is assumed of sweeps and of passes only: each API process runs them on a timer for as long as it
lives (`sweeper::spawn`) and is restarted when it dies, so weak fairness holds of what stays enabled,
and strong fairness says that a store does not refuse every removal and a process does not die in
every sweep; a row that obstructs every sweep (the section on deviations) is excepted (`Obstructed`).
Requests are never assumed to finish, but a transaction that holds row locks is assumed to end, by its
commit, a refusal or its connection. Of the sync client it is assumed that passes
follow one another (`watch` starts one every minute) and that a pass goes on once it has begun; edits
and failures are bounded, so `Converges` is about what happens after the last of them.

`MaxEdits` and `MaxTrouble` bound what users and the network do to a folder.

## Known deviations

Three runs are expected to fail; PROJECT.json quotes the sentence each one contradicts. In short:

- `blob_counts`: `put_file` finds the blob's row and raises its count in two statements. A sweep may
  delete the row in between, since finding it locks nothing; the raise then changes no row, which is no
  error; and when another upload registers the blob before the node is written, the foreign key is
  satisfied. The node holds a blob whose `ref_count` is 0: it cannot be lost, since the foreign key also
  refuses the sweep's `DELETE`, but that refusal is an error that ends the whole sweep
  (`sweeper.rs:99-113`), and no orphan behind that row is collected until an overwrite or a purge lets
  go of it;
- `sync_shares`: a removed share is recognised by the removal of its folder in the plan, which is not
  planned when the owner added something; the owner's other files are then deleted one by one.
- `sharing_address`: when an administrator sets an account's address to the one it has (or to one that
  differs in case only, since addresses are lower-cased), `reassign` takes each grant for a duplicate
  of itself and deletes it.

Seen with the same models, by adding the fault or the property named, and not kept as runs of their
own:

- `AckedHasBytes` on the object store, nothing having failed: `write` discards its staged copy when it
  adopts (`storage/s3.rs:331-347`), `settle` does nothing, and `register_blob` leaves an orphan's old
  stamp, so a sweep in the middle of a deduplicating upload leaves a 201 without bytes, which
  `ARCHITECTURE.md:284` excludes;
- `ReceivedIsThere` and `FinishedIsWhole` (UploadSession) for sessions in `overtaken`: append compares
  its offset with a row read before the claim (`uploads.rs:278`) and `claim` does not compare it again,
  so of two requests on one session the later one to claim cuts away what the other recorded and records
  its own end, which may be less; and a request that let its claim lapse before it opened the file cuts
  under the one that took it over;
- `QuotaExact`, `NothingLiveBelowTrash` (NodeTree) with overtaking requests: put and mkdir write under
  a parent that was trashed since it was resolved, and the purge deletes what was put there without
  giving its bytes back;
- `DeletionsAreToldApart` (SyncEngine): files both sides agree on are never recorded (`plan.rs:123`),
  and a download records what was listed, not what it fetched; a record that is missing or old stays
  so, and deleting such a file in the folder downloads it again;
- `Accounts`: two administrators whose requests overlap demote, disable or delete each other, and nobody
  administers, which README.md:624-625 means to exclude; each request refuses its own account only and
  acts on the role it was loaded with;
- `Accounts`: a sign-in verified before a disable or a password reset opens its session after it; the
  session of a disabled account is refused at every request (and is there again when the account is
  enabled), that of a reset one is not; and `change_password`, which compares with the hash it was loaded
  with, overwrites a reset made meanwhile;
- `DavLocks` with `Overtaking`: a lock taken between a method's check and its write is not seen;
- `OnlyThroughALock` for LOCK itself: LOCK of a path nothing is at adds a file to a collection without
  asking for the token of a lock on the collection that is not deep (`dav/locking.rs:119-161`; PUT and
  MKCOL do ask);
- a deep LOCK does not ask for locks below it, so two clients may hold locks that cover one file, and
  `covering` (`LIMIT 1`, no order) decides which token is asked for;
- `Sharing`: an account may come to hold a grant inside another one, and a grant on what it owns, when
  its address changes to one that was given those; `ARCHITECTURE.md` names moving as the only way. An
  upload session keeps a path below `Shared with me` and resolves it again when it is finished, when
  the mount's name may stand for another grant;
- `SyncEngine` with `EditsDuringPass`: a download or a local deletion does not look at the file again,
  and `NothingOverwritten` fails for an edit made after the scan;
- the name of a conflict copy is cut to the longest name allowed (`plan.rs:148-166`), so two files in
  one folder whose long names begin alike can be given one copy's name in one pass, and the second
  rename replaces the first copy; the model's copies differ (`CopiesAssumption`);
- `RefCountExact` (NodeTree) with overtaking requests: rename moves, by id, a node that was trashed
  since, and the purge of its batch then deletes it without releasing its blob;
- `EtagNamesContent` (NodeTree) with overtaking requests: rename writes back an etag that was read
  before an overwrite;
- the local store with "sweep_dies" breaks `AckedHasBytes`: under the row such a sweep leaves, the
  next one can take the bytes an upload has just placed, and the upload kept no copy;
- a file no row leads to stays behind when a handler is dropped between placing the bytes and
  `register_blob`, and when a write is refused after `register_blob` found an old row, which a sweep then
  takes while it spares the young bytes; `db.rs:210-212` means to exclude the second;
- `UploadSession`: `expires_at` is set once, and a session that is in use is deleted under the request
  that writes to it;
- `ExpiryTakesOnlyTheAged` (NodeTree) fails: expire lists roots and purges each without asking for
  its age again, so one restored and trashed again in between goes at once;
- a save over an *empty* file, or under a quota lowered below the usage, is refused although dropping
  versions would make room: `put_file` only makes room when it keeps a version, and `charge_quota`
  refuses to give bytes back while the usage stays above the limit.

## Proofs

Every theorem is for all values of the constants, under the assumptions the modules state of them
(finite tables, a root among the nodes, limits that are natural numbers, a grace period longer than
a claim), and for the specification the runs check. A theorem that needs more says so in an
`ASSUME`; the runs have it too, and the section on deviations says what happens without it.

| Theorem | States | Assumes |
|---|---|---|
| `BlobLifecycleProofs`: `TypeCorrect`, `CountsMissOnlyRaises`, `SweepIsSafe` | `TypeOK`, `CountsOnlyMissRaises`, `SweepTakesNothingHeld` | nothing: both stores, every fault |
| `LocalAckKeepsItsPromise` | `AckedHasBytes` | `LocalUneventful`: the local store, requests that end within `Deadline`, no dying sweep, `Grace > 2 * Deadline` |
| `UploadSessionProofs`: `UploadTypes`, `OpenSessionsHaveFiles`, `WritersAreApart`, `CeilingHolds` | `TypeOK`, `OpenSessionHasFile`, `WritersApart`, `SessionCeiling` | nothing: every fault |
| `UploadsAreWhole`, `UploadsKeepThePromise` | `FinishedIsWhole` with `ReceivedIsThere`, `KeepsThePromise` | nothing: every fault, and requests that come late; what they say of a session ends where a late request cuts it back |
| `TablesProofs`: `QueryIsClosure` | what `Collected` computes | finitely many rows |
| `NodeTreeProofs`: `TreeTypes`, `EverythingHangsFromTheRoot` | `TypeOK`, `NoCycle` | nothing: with overtaking requests |
| `LiveNodesAreReachable`, `TrashCanBeEmptied` | `NothingLiveBelowTrash`, `TrashIsListed` | `Overtaking = FALSE` |
| `ReferencesAreCounted`, `QuotaIsWhatIsStored`, `HistoryIsNeverInTheWay` | `RefCountExact`, `QuotaExact`, `SaveNeverFailsForHistory` | `Overtaking = FALSE` |
| `DavLocksProofs`: `OneLockPerNode`, `LapsedLocksAreGone` | `TypeOK`, `LapsedIsGone` | nothing: with overtaking requests |
| `WritesGoThroughLocks`, `NothingLockedIsTaken` | `OnlyThroughALock`, `NothingTakenFromBelow` | `Overtaking = FALSE` |
| `AccountsProofs`: `AccountTypes`, `GuessesAreAlwaysEarned`, `DisablingIsThorough` | `TypeOK`, `GuessesAreEarned`, `DisablingEndsSessions` | nothing: administrators overlap too |
| `SharingProofs`: `RowsAreWellFormed`, `TreesStayWhole`, `SumsBalance`, `OnlyOwnersGive`, `NothingIsLostInDeparture` | `TypeOK`, `WholeTrees`, `SumsExact`, `GivenByTheOwner`, `NothingLostInDeparture` | nothing; of what the module leaves out (one request on the trees at a time, no trashing between its look and its write) they say nothing |
| `SharesFollowTheAddress` | `RightsFollowTheAddress` | `SameAddress = FALSE` |
| `SyncEngineProofs`: `SyncTypes`, `SyncReadOnlyShares` | `TypeOK`, `ReadOnlySharesUntouched` | nothing: with edits of the folder during a pass |
| `SyncNothingOverwritten`, `SyncNamesFit`, `SyncDeletionsStay` | `NothingOverwritten`, `NamesFit`, `DeletionsStayWhileRecorded` | `EditsDuringPass = FALSE`: the folder rests while a pass runs; the account may change at any time |

The arguments, and what had to be added to make the properties inductive:

- *Blobs.* The counts need what an open transaction promises (`CountInv`): a row that is being inserted
  is nobody else's, a row a sweeper claimed has no holder and one sweeper, and a row that is not there
  counts nothing, so that one that is registered again starts below its holders and not above them. The
  promise of the 201 needs, in addition, where each copy of the bytes is at each point of a request and
  how old the file can be (`AckInv`).
- *Uploads.* A writer that still holds the claim started at the recorded offset, everything below what
  it has written since is the client's, and one that lost the claim can no longer record (`UploadInv`).
  With dying and oversleeping writers the bytes a late writer puts down are still the client's for
  their position, which is why the content survives although two writers overlap. What a late writer
  does away with is what it cuts off when it opens the file, and from then on the invariant says nothing
  of that session's bytes. That a file is not
  swept before its row exists is a matter of the clock (`StagingInv`): a begin that is under way is
  younger than the sweep's grace, and a sweep's list of live names may be old but the age it compares
  is not. The refinement maps each action to a step of `UploadPromise` or a stutter, from `UploadInv`; a
  request is stale there (`Stale`) exactly while it would cut the file back wrongly.
- *Tables.* A recursive query takes as many rounds as there are rows. The library's induction theorems
  cannot be used here, so `LeastNatural` finds the first round at which something goes wrong by taking
  the least element of a set of numbers, and a counting argument shows that a round that adds nothing
  is reached in time. What is collected is then the least closed set, and no other module looks at
  rounds: a walk up is argued about by exhibiting a set that is closed and one that is not.
- *Tree.* `NoCycle` is inductive in the form "every set that is closed under parents and has a member
  has the root" (`Rooted`). The trash needs the shape of batches: a batch hangs together below its
  root, what is above a live node is live, and what lies in another batch below a batch was there
  before (`TrashInv`); a restore that brings back ancestors splits a batch into ones of that shape.
- *Sums of the tree.* `TablesProofs` proves that `SumFunction` adds a column up in any order, over
  parts, over copies and over what changes; `Value` is what a row and its versions are worth when each
  blob has a worth, so that bytes (`Size`) and references (`One(h)`) are one argument made twice.
  `SumsInv` is that both sums balance and that a directory has no versions. Its heart is
  `Overwritten`: by any worth, what an overwrite keeps and what it lets go of are what there was, however
  many versions `make_room` drops and `prune_beyond` prunes. A purge needs the shape of the trash:
  what the cascade takes is exactly what is below the root (`CascadeIsBuried`). A save is never refused
  for its history because an exact quota covers all the versions it may have to give up. With
  overtaking requests the sums do not hold (the section on deviations says how they come apart), so the
  theorems assume there are none, as the run does.
- *Locks.* `TypeInv` ties a request between its check and its write to what it saw; `LockInv` and
  `PathInv` say that, as long as nobody acts in between, the locks its check found are the ones that
  cover what it writes, siblings have different names, and a `PUT` that received its body asks again.
- *Accounts.* A subject that is not blocked has credit left (`Ladder`). A sign-in that is past its check
  of the account is that of an account that is not disabled, or it was there when the account was
  (`VerifiedOrOvertaken`).
- *Sharing.* `TreeInv` says what a request read and still holds when it writes (`StillSo`: the owner
  lock and the second look are what make it so), besides the shape of the trees. `GrantInv` has the
  unique constraints of the tables; `SumsInv` the counts as cardinalities, with the lemmas on how they
  change when a set of nodes changes its owner. `reassign` goes over the grants one by one: its result
  is characterised round by round, by the set of the grants it has seen, independent of the order.
- *Sync.* What is above a path is a recursive function; that it exists and is what one step up says
  (`AncestryExists`, `AboveIs`) is found with `LeastNatural`, as for tables. `Kept`, the loops of
  `reconcile` and `Held::apply`, is characterised by the members of a sequence it leaves (`KeptIs`). The read-only shares need only
  what `Held::apply` let through (`ShareInv`): a path outside such a share has nothing of it above, and
  what is removed with a folder is inside the folder. The other three need one invariant (`SyncInv`) of
  which the properties are the small part. Its heart is `PendingInv`: from the moment a plan is made
  to the moment an action of it is carried out, that action still fits its path (`Due`): a file that is
  to be uploaded, moved aside or deleted is still the one the scan found, and what a download would
  replace, or a local deletion removes, is already spent (in the trash, or replaced or removed by a user
  who saw it), while the account may have moved on. It stands on the plan naming each path once
  (`PlanInv`), on the names of copies being nowhere until they are taken (`CopyInv`), on every content
  being at one path at most (`PlaceInv`), on what is recorded being on both sides unless it is spent
  (`AgreedInv`), and for deletions on what both sides have seen being recorded unless a pass was
  forgetful (`SeenInv`). `FitInv` says that both sides are trees and that whatever a pass brings to the
  folder was listed, with all that is above it, and is unlike any other name. A listing is of no one
  moment: `WalkInv` says what it is worth all the same. What it has found hangs together, and where the
  server has come to differ from it, that is by a content that neither the folder nor the state file
  has; so a plan made from it is due although the server was never as it was listed. `NamesInv` adds
  that no name the folder cannot hold is ever in a plan. TLC checked each part
  on the instance of `sync_pass` before it was proved. One theorem speaks of a step
  (`SyncDeletionsStay`); its step form (`Stays`) is proved action by action together with the invariant.

Only model-checked: the liveness properties (`OrphansAreCollected`, `ScratchIsReclaimed`,
`Converges`), since fairness is beyond TLAPS. Every safety property of a passing run is proved.

## Not modelled, and the plan

In the order in which they are worth adding:

1. The checks and row locks inside a purge, so that a put that commits between its two statements,
   and overwrites that exchange two blobs, become visible in `NodeTree`.
2. `SyncWatch`: the debounce's clock over an abstract pass; a folder that never goes quiet still
   syncs within the ceiling.
3. Thumbnails as a holder of blobs in `BlobLifecycle`, and `check --repair`, whose counts are stale
   when it writes them.
4. An abstract store (a 201 is a file that can be read until it is deleted) that `BlobLifecycle`
   implements under the assumptions of `LocalAckKeepsItsPromise`.

Left out for good: hashing and multipart uploads to the object store, XML, HTTP, mail and OIDC
protocol details, the web app, the site, the desktop shell and the CLI, which keep no state that
several actors change.
