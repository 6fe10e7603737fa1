---------------------------- MODULE BlobLifecycle ----------------------------
(***************************************************************************)
(* The life of a content-addressed blob: its bytes in the blob store       *)
(* (api/src/storage), its row in Postgres (table blobs), the nodes that    *)
(* hold it, the requests that upload it and the sweepers that collect it.  *)
(*                                                                         *)
(* Bytes and rows live in two systems that share no transaction, so every  *)
(* step between two awaits is an action of its own: a sweep runs in the    *)
(* middle of an upload, and an upload in the middle of a sweep.  A         *)
(* Postgres transaction is two steps where a reader or another writer can  *)
(* tell them apart, and the row lock it holds is a guard on the others.    *)
(*                                                                         *)
(* Left to other modules: which node a path names, the quota, and the      *)
(* versions that keep a replaced blob (VERSIONS_KEPT is 0 here, so an      *)
(* overwrite releases what it replaces).                                   *)
(***************************************************************************)
EXTENDS Integers, FiniteSets

CONSTANTS
    Hashes,     \* digests of the contents that are uploaded
    Slots,      \* places in the tree, one file node each
    Requests,   \* concurrent PUT requests
    Sweepers,   \* one per replica: every API process runs its own
    None,       \* a slot without a node, a sweeper without a hash
    Backend,    \* "local" or "s3": which BlobStore is configured
    Grace,      \* BLOB_GRACE_PERIOD_SECONDS
    Deadline,   \* how long a request needs from its last byte to its answer
    Faults,     \* what may go wrong: see FaultKinds
    MaxNow      \* bound on the clock

(* "abandon": the handler is dropped or fails after the bytes are written   *)
(* (client gone, quota, precondition, database error);  "sweep_dies": the   *)
(* process or its connection dies inside a sweep;  "slow": a request may    *)
(* outlive Deadline;  "blind": the store does not answer the sweep's HEAD.  *)
FaultKinds == {"abandon", "sweep_dies", "slow", "blind"}

ASSUME HashesAssumption == None \notin Hashes
ASSUME SlotsAssumption == IsFiniteSet(Slots) /\ None \notin Slots
ASSUME BackendAssumption == Backend \in {"local", "s3"}
ASSUME FaultsAssumption == Faults \subseteq FaultKinds
(* The grace period is a day and a request is over moments after its last  *)
(* byte: two requests one after the other still fit in it.                 *)
ASSUME TimeAssumption ==
    /\ Grace \in Nat /\ Deadline \in Nat /\ MaxNow \in Nat
    /\ Grace > 2 * Deadline

VARIABLES
    now,        \* the clock
    blobs,      \* hashes that have a row in table blobs
    ref_count,  \* column of that row
    unreferenced_since, \* column of that row, meaningful at ref_count 0
    stored,     \* hashes whose bytes are where `read` looks
    mtime,      \* when those bytes were written
    node,       \* hash each slot's node holds, None without a node
    acked,      \* slots whose present content was answered 201
    pc,         \* where each request is
    hash,       \* what it uploads
    into,       \* where to
    start,      \* when its last byte was staged
    staged,     \* requests whose staged copy is still there
    keeps,      \* requests whose Written carries a staged copy for settle
    inserted,   \* requests whose open transaction inserted the blob row
    raised,     \* requests whose open transaction raised its ref_count
    missed,     \* history: hashes a node was committed for without that raise
    sweep,      \* where each sweeper is
    victim      \* the hash whose row it has deleted, uncommitted

rowVars == <<blobs, ref_count, unreferenced_since>>
storeVars == <<stored, mtime>>
treeVars == <<node, acked, missed>>
reqVars == <<pc, hash, into, start, staged, keeps, inserted, raised>>
sweepVars == <<sweep, victim>>
vars == <<now, blobs, ref_count, unreferenced_since, stored, mtime, node,
          acked, pc, hash, into, start, staged, keeps, inserted, raised, missed,
          sweep, victim>>

RequestStates == {"idle", "staged", "placing", "written", "registered",
                  "ensured", "acquired", "committed"}
SweepStates == {"idle", "claimed", "doomed", "removed"}

Active(r) == pc[r] # "idle"

TypeOK ==
    /\ now \in Nat
    /\ blobs \subseteq Hashes
    /\ ref_count \in [Hashes -> Nat]
    /\ unreferenced_since \in [Hashes -> Nat]
    /\ stored \subseteq Hashes
    /\ mtime \in [Hashes -> Nat]
    /\ node \in [Slots -> Hashes \cup {None}]
    /\ acked \subseteq Slots
    /\ pc \in [Requests -> RequestStates]
    /\ hash \in [Requests -> Hashes \cup {None}]
    /\ into \in [Requests -> Slots \cup {None}]
    /\ \A r \in Requests : Active(r) => hash[r] \in Hashes /\ into[r] \in Slots
    /\ start \in [Requests -> Nat]
    /\ staged \subseteq Requests
    /\ keeps \subseteq Requests
    /\ inserted \subseteq Requests
    /\ raised \subseteq Requests
    /\ missed \subseteq Hashes
    /\ sweep \in [Sweepers -> SweepStates]
    /\ victim \in [Sweepers -> Hashes \cup {None}]

-----------------------------------------------------------------------------
Holders(h) == {s \in Slots : node[s] = h}

(* is_recent: a stamp younger than the grace period, or in the future.     *)
IsRecent(at) == now - at < Grace

(* Mutant of SweptUncommitted: the row lock is given up before the bytes   *)
(* are removed.                                                            *)
SweptUntilChecked(h) == \E k \in Sweepers : sweep[k] = "claimed" /\ victim[k] = h

(* The row of h is locked by the transaction of a sweeper that deleted it, *)
(* or was inserted or updated by the open transaction of a request.        *)
SweptUncommitted(h) == \E k \in Sweepers : sweep[k] # "idle" /\ victim[k] = h
WrittenUncommitted(h, r) == \E q \in (inserted \cup raised) \ {r} : hash[q] = h
RowBusy(h, r) == SweptUncommitted(h) \/ WrittenUncommitted(h, r)
RowLocked(h) == \E q \in raised : hash[q] = h

(* The node of the slot, or its owner's quota, is locked by a put_file.    *)
SlotBusy(s, r) == \E q \in Requests \ {r} : pc[q] = "acquired" /\ into[q] = s

(* A sweeper deletes only a row nothing refers to and nobody has touched   *)
(* for the grace period; the scan that lists candidates says no more.      *)
Orphaned(h) ==
    /\ h \in blobs
    /\ ref_count[h] = 0
    /\ now - unreferenced_since[h] > Grace

(* The request is over: nothing of it is left but a staged copy, which     *)
(* belongs to nobody any more and is sweep_staged's business.              *)
Finish(r) ==
    /\ pc' = [pc EXCEPT ![r] = "idle"]
    /\ hash' = [hash EXCEPT ![r] = None]
    /\ into' = [into EXCEPT ![r] = None]
    /\ start' = [start EXCEPT ![r] = 0]
    /\ staged' = staged \ {r}
    /\ keeps' = keeps \ {r}
    /\ inserted' = inserted \ {r}
    /\ raised' = raised \ {r}

Init ==
    /\ now = 0
    /\ blobs = {}
    /\ ref_count = [h \in Hashes |-> 0]
    /\ unreferenced_since = [h \in Hashes |-> 0]
    /\ stored = {}
    /\ mtime = [h \in Hashes |-> 0]
    /\ node = [s \in Slots |-> None]
    /\ acked = {}
    /\ pc = [r \in Requests |-> "idle"]
    /\ hash = [r \in Requests |-> None]
    /\ into = [r \in Requests |-> None]
    /\ start = [r \in Requests |-> 0]
    /\ staged = {}
    /\ keeps = {}
    /\ inserted = {}
    /\ raised = {}
    /\ missed = {}
    /\ sweep = [k \in Sweepers |-> "idle"]
    /\ victim = [k \in Sweepers |-> None]

-----------------------------------------------------------------------------
(* BlobStore::write, in its three steps *)

(* The body has been streamed into a staging file or object and hashed.    *)
Stage(r, h, s) ==
    /\ pc[r] = "idle"
    /\ pc' = [pc EXCEPT ![r] = "staged"]
    /\ hash' = [hash EXCEPT ![r] = h]
    /\ into' = [into EXCEPT ![r] = s]
    /\ start' = [start EXCEPT ![r] = now]
    /\ staged' = staged \cup {r}
    /\ keeps' = keeps \ {r}
    /\ UNCHANGED <<now, rowVars, storeVars, treeVars, inserted, raised,
                   sweepVars>>

(* Mutant of Adopt: no copy is left for settle on either store.            *)
AdoptDiscarding(r) ==
    /\ pc[r] = "staged"
    /\ hash[r] \in stored
    /\ pc' = [pc EXCEPT ![r] = "written"]
    /\ staged' = staged \ {r}
    /\ UNCHANGED <<now, rowVars, storeVars, treeVars, hash, into, start, keeps,
                   inserted, raised, sweepVars>>

(* The destination is there already: the local store leaves the staged     *)
(* copy for settle, the object store discards it at once.                  *)
Adopt(r) ==
    /\ pc[r] = "staged"
    /\ hash[r] \in stored
    /\ pc' = [pc EXCEPT ![r] = "written"]
    /\ IF Backend = "local"
       THEN keeps' = keeps \cup {r} /\ UNCHANGED staged
       ELSE staged' = staged \ {r} /\ UNCHANGED keeps
    /\ UNCHANGED <<now, rowVars, storeVars, treeVars, hash, into, start,
                   inserted, raised, sweepVars>>

(* The destination was not there when the request looked.                  *)
Miss(r) ==
    /\ pc[r] = "staged"
    /\ hash[r] \notin stored
    /\ pc' = [pc EXCEPT ![r] = "placing"]
    /\ UNCHANGED <<now, rowVars, storeVars, treeVars, hash, into, start,
                   staged, keeps, inserted, raised, sweepVars>>

(* rename keeps the staged file's time; the server-side copy stamps its    *)
(* own.  The local store is content when its staged copy was swept and     *)
(* someone else has put the blob there.                                    *)
Place(r) ==
    /\ pc[r] = "placing"
    /\ r \in staged \/ (Backend = "local" /\ hash[r] \in stored)
    /\ pc' = [pc EXCEPT ![r] = "written"]
    /\ stored' = stored \cup {hash[r]}
    /\ mtime' = IF r \in staged
                THEN [mtime EXCEPT ![hash[r]] = IF Backend = "local" THEN start[r]
                                                                    ELSE now]
                ELSE mtime
    /\ staged' = staged \ {r}
    /\ UNCHANGED <<now, rowVars, treeVars, hash, into, start, keeps, inserted,
                   raised, sweepVars>>

(* The staged copy was swept meanwhile: there is nothing to put in place.  *)
PlaceFails(r) ==
    /\ pc[r] = "placing"
    /\ r \notin staged
    /\ Backend = "local" => hash[r] \notin stored
    /\ Finish(r)
    /\ UNCHANGED <<now, rowVars, storeVars, treeVars, sweepVars>>

-----------------------------------------------------------------------------
(* The rows *)

(* register_blob: an existing row is left alone, however old it is.        *)
Register(r) ==
    /\ pc[r] = "written"
    /\ ~RowBusy(hash[r], r)
    /\ pc' = [pc EXCEPT ![r] = "registered"]
    /\ blobs' = blobs \cup {hash[r]}
    /\ IF hash[r] \in blobs
       THEN UNCHANGED <<ref_count, unreferenced_since>>
       ELSE /\ ref_count' = [ref_count EXCEPT ![hash[r]] = 0]
            /\ unreferenced_since' = [unreferenced_since EXCEPT ![hash[r]] = now]
    /\ UNCHANGED <<now, storeVars, treeVars, hash, into, start, staged, keeps,
                   inserted, raised, sweepVars>>

(* put_file opens with INSERT ... ON CONFLICT DO NOTHING: it waits for a   *)
(* transaction that is deleting, inserting or updating the row, and locks  *)
(* nothing when the row is there.                                          *)
Ensure(r) ==
    /\ pc[r] = "registered"
    /\ ~RowBusy(hash[r], r)
    /\ pc' = [pc EXCEPT ![r] = "ensured"]
    /\ inserted' = IF hash[r] \in blobs THEN inserted ELSE inserted \cup {r}
    /\ UNCHANGED <<now, rowVars, storeVars, treeVars, hash, into, start,
                   staged, keeps, raised, sweepVars>>

(* child_for_update, charge_quota and acquire_blob.  The first two lock    *)
(* the node or the owner's quota until the commit.  The UPDATE waits for   *)
(* whoever has the row locked; when the row has gone since Ensure, or is   *)
(* another transaction's that has not committed, it changes nothing, which *)
(* is no error.                                                            *)
Acquire(r) ==
    /\ pc[r] = "ensured"
    /\ ~SlotBusy(into[r], r)
    /\ hash[r] \in blobs => ~RowBusy(hash[r], r)
    /\ pc' = [pc EXCEPT ![r] = "acquired"]
    /\ raised' = IF r \in inserted \/ hash[r] \in blobs THEN raised \cup {r}
                                                        ELSE raised
    /\ UNCHANGED <<now, rowVars, storeVars, treeVars, hash, into, start,
                   staged, keeps, inserted, sweepVars>>

(* Mutants of AcquiredAndReleased: an overwrite forgets what it replaces;  *)
(* the release is not guarded by the count and happens twice.              *)
AcquiredOnly(h, old) ==
    [g \in Hashes |-> IF g = h THEN ref_count[g] + 1
                      ELSE IF g = old /\ h = None /\ ref_count[g] > 0
                      THEN ref_count[g] - 1 ELSE ref_count[g]]
ReleasedTwice(h, old) ==
    [g \in Hashes |->
        LET gained == IF g = h THEN ref_count[g] + 1 ELSE ref_count[g]
        IN  IF g = old THEN gained - 2 ELSE gained]

(* ref_count after the reference of `old` has been released and one on h   *)
(* acquired; `old` is None when there was no node, h when no row was       *)
(* raised.  release_blob leaves a count of 0 alone.                        *)
AcquiredAndReleased(h, old) ==
    [g \in Hashes |->
        LET gained == IF g = h THEN ref_count[g] + 1 ELSE ref_count[g]
        IN  IF g = old /\ gained > 0 THEN gained - 1 ELSE gained]

(* NULL, here 0, while anything is counted; the release that takes the     *)
(* count to 0 stamps the row.                                              *)
StampUnreferenced(h, old, counts) ==
    [g \in Hashes |-> IF counts[g] > 0 THEN 0
                      ELSE IF g = old /\ (g = h \/ ref_count[g] > 0) THEN now
                      ELSE unreferenced_since[g]]

(* The rest of put_file and the commit: release_blob on what is replaced,  *)
(* which waits for that row's lock, and the node.  nodes.blob_hash refers  *)
(* to blobs: the row has to be there, whoever put it there, and the check  *)
(* waits for a sweeper that is deleting it.                                *)
Commit(r) ==
    /\ pc[r] = "acquired"
    /\ r \in inserted \/ (hash[r] \in blobs /\ ~SweptUncommitted(hash[r]))
    /\ \A q \in raised \ {r} : hash[q] # node[into[r]]
    /\ pc' = [pc EXCEPT ![r] = "committed"]
    /\ blobs' = blobs \cup {hash[r]}
    /\ LET h == IF r \in raised THEN hash[r] ELSE None
           old == node[into[r]]
       IN  /\ ref_count' = AcquiredAndReleased(h, old)
           /\ unreferenced_since' = StampUnreferenced(h, old, ref_count')
    /\ node' = [node EXCEPT ![into[r]] = hash[r]]
    /\ acked' = acked \ {into[r]}
    /\ inserted' = inserted \ {r}
    /\ raised' = raised \ {r}
    /\ missed' = IF r \in raised THEN missed ELSE missed \cup {hash[r]}
    /\ UNCHANGED <<now, storeVars, hash, into, start, staged, keeps, sweepVars>>

(* The row went between the INSERT that found it and the node that needs   *)
(* it, and is not there again: the foreign key refuses the node and the    *)
(* request answers 500.                                                    *)
ForeignKeyRefuses(r) ==
    /\ pc[r] = "acquired"
    /\ r \notin inserted /\ hash[r] \notin blobs
    /\ Finish(r)
    /\ UNCHANGED <<now, rowVars, storeVars, treeVars, sweepVars>>

(* settle and the answer.  With a copy kept for it, settle drops the copy  *)
(* when the destination is there and renames it into place when it is not; *)
(* a copy that was swept meanwhile is an error and there is no 201.        *)
Settle(r) ==
    /\ pc[r] = "committed"
    /\ LET restores == r \in keeps /\ r \in staged /\ hash[r] \notin stored
           fails == r \in keeps /\ r \notin staged /\ hash[r] \notin stored
       IN  /\ stored' = IF restores THEN stored \cup {hash[r]} ELSE stored
           /\ mtime' = IF restores THEN [mtime EXCEPT ![hash[r]] = start[r]]
                                   ELSE mtime
           /\ acked' = IF ~fails /\ node[into[r]] = hash[r]
                       THEN acked \cup {into[r]} ELSE acked
    /\ Finish(r)
    /\ UNCHANGED <<now, rowVars, node, missed, sweepVars>>

(* The handler stops where it is, and an open transaction rolls back; so   *)
(* does one of two overwrites that wait for each other's rows.             *)
Abandon(r) ==
    /\ "abandon" \in Faults
    /\ Active(r)
    /\ Finish(r)
    /\ UNCHANGED <<now, rowVars, storeVars, treeVars, sweepVars>>

(* A node is purged: release_blob, which waits for the locks of a put.     *)
Purge(s) ==
    /\ node[s] # None
    /\ ~RowLocked(node[s])
    /\ \A r \in Requests : pc[r] = "acquired" => into[r] # s
    /\ ref_count' = AcquiredAndReleased(None, node[s])
    /\ unreferenced_since' = StampUnreferenced(None, node[s], ref_count')
    /\ node' = [node EXCEPT ![s] = None]
    /\ acked' = acked \ {s}
    /\ UNCHANGED <<now, blobs, storeVars, reqVars, missed, sweepVars>>

-----------------------------------------------------------------------------
(* The sweep *)

(* sweep_staged takes a staged copy older than the grace period, whoever   *)
(* is still using it.                                                      *)
SweepStaged(r) ==
    /\ r \in staged
    /\ ~IsRecent(start[r])
    /\ staged' = staged \ {r}
    /\ UNCHANGED <<now, rowVars, storeVars, treeVars, pc, hash, into, start,
                   keeps, inserted, raised, sweepVars>>

(* Mutant of Claim: rows whose bytes are gone already are passed over.     *)
ClaimWithBytes(k, h) ==
    /\ sweep[k] = "idle"
    /\ Orphaned(h)
    /\ h \in stored
    /\ ~SweptUncommitted(h) /\ ~RowLocked(h)
    /\ Holders(h) = {}
    /\ sweep' = [sweep EXCEPT ![k] = "claimed"]
    /\ victim' = [victim EXCEPT ![k] = h]
    /\ UNCHANGED <<now, rowVars, storeVars, treeVars, reqVars>>

(* DELETE ... WHERE ref_count = 0 AND unreferenced_since is old, in a      *)
(* transaction that stays open.  A second sweeper waits for the first, and *)
(* for a request that has the row locked.  While a node refers to the row  *)
(* the foreign key refuses the DELETE, and the whole sweep ends there.     *)
Claim(k, h) ==
    /\ sweep[k] = "idle"
    /\ Orphaned(h)
    /\ ~SweptUncommitted(h) /\ ~RowLocked(h)
    /\ Holders(h) = {}
    /\ sweep' = [sweep EXCEPT ![k] = "claimed"]
    /\ victim' = [victim EXCEPT ![k] = h]
    /\ UNCHANGED <<now, rowVars, storeVars, treeVars, reqVars>>

EndSweep(k) ==
    /\ sweep' = [sweep EXCEPT ![k] = "idle"]
    /\ victim' = [victim EXCEPT ![k] = None]

(* written_within says the bytes are young, or the store did not answer:   *)
(* the row goes and the bytes stay.                                        *)
Spare(k) ==
    /\ sweep[k] = "claimed"
    /\ \/ victim[k] \in stored /\ IsRecent(mtime[victim[k]])
       \/ Backend = "s3" /\ "blind" \in Faults
    /\ blobs' = blobs \ {victim[k]}
    /\ EndSweep(k)
    /\ UNCHANGED <<now, ref_count, unreferenced_since, storeVars, treeVars,
                   reqVars>>

(* written_within says they are old, or not there.                         *)
Condemn(k) ==
    /\ sweep[k] = "claimed"
    /\ ~(victim[k] \in stored /\ IsRecent(mtime[victim[k]]))
    /\ sweep' = [sweep EXCEPT ![k] = "doomed"]
    /\ UNCHANGED <<now, rowVars, storeVars, treeVars, reqVars, victim>>

RemoveBytes(k) ==
    /\ sweep[k] = "doomed"
    /\ stored' = stored \ {victim[k]}
    /\ mtime' = [mtime EXCEPT ![victim[k]] = 0]
    /\ sweep' = [sweep EXCEPT ![k] = "removed"]
    /\ UNCHANGED <<now, rowVars, treeVars, reqVars, victim>>

(* remove failed: the transaction rolls back and the row stays.            *)
RemoveFails(k) ==
    /\ sweep[k] = "doomed"
    /\ EndSweep(k)
    /\ UNCHANGED <<now, rowVars, storeVars, treeVars, reqVars>>

Collect(k) ==
    /\ sweep[k] = "removed"
    /\ blobs' = blobs \ {victim[k]}
    /\ EndSweep(k)
    /\ UNCHANGED <<now, ref_count, unreferenced_since, storeVars, treeVars,
                   reqVars>>

SweepDies(k) ==
    /\ "sweep_dies" \in Faults
    /\ sweep[k] # "idle"
    /\ EndSweep(k)
    /\ UNCHANGED <<now, rowVars, storeVars, treeVars, reqVars>>

(* Time passes, at most Deadline of it during a request that is not slow.  *)
Tick ==
    /\ now < MaxNow
    /\ \/ "slow" \in Faults
       \/ \A r \in Requests : Active(r) => now < start[r] + Deadline
    /\ now' = now + 1
    /\ UNCHANGED <<rowVars, storeVars, treeVars, reqVars, sweepVars>>

-----------------------------------------------------------------------------
RequestStep(r) ==
    \/ \E h \in Hashes, s \in Slots : Stage(r, h, s)
    \/ Adopt(r) \/ Miss(r) \/ Place(r) \/ PlaceFails(r)
    \/ Register(r) \/ Ensure(r) \/ Acquire(r) \/ Commit(r)
    \/ ForeignKeyRefuses(r) \/ Settle(r) \/ Abandon(r) \/ SweepStaged(r)

SweepStep(k) ==
    \/ \E h \in Hashes : Claim(k, h)
    \/ Spare(k) \/ Condemn(k) \/ RemoveBytes(k) \/ RemoveFails(k)
    \/ Collect(k) \/ SweepDies(k)

Next ==
    \/ \E r \in Requests : RequestStep(r)
    \/ \E k \in Sweepers : SweepStep(k)
    \/ \E s \in Slots : Purge(s)
    \/ Tick

Spec == Init /\ [][Next]_vars

(* An orphaned row that a node refers to all the same: the sweep's DELETE  *)
(* fails on it, and every sweep ends where it meets it.                    *)
Obstructed == \E g \in Hashes : Orphaned(g) /\ Holders(g) # {}

(* Every API process runs its sweep on a timer for as long as it lives and *)
(* is restarted when it dies; it reaches every orphan unless one obstructs *)
(* it.  Strong fairness: a store that refuses a removal does not refuse it *)
(* for ever, and a process does not die in every sweep.  A transaction     *)
(* that holds row locks ends, one way or the other.                        *)
SweepFairness ==
    /\ \A k \in Sweepers :
          /\ \A h \in Hashes : SF_vars(~Obstructed /\ Claim(k, h))
          /\ SF_vars(Spare(k) \/ Condemn(k))
          /\ SF_vars(RemoveBytes(k))
          /\ SF_vars(Collect(k))
    /\ \A r \in Requests :
          WF_vars(pc[r] = "acquired"
                    /\ (Commit(r) \/ ForeignKeyRefuses(r) \/ Abandon(r)))

FairSpec == Spec /\ SweepFairness

-----------------------------------------------------------------------------
(* Properties *)

(* ARCHITECTURE.md: ref_count counts the holders of a blob, which is what  *)
(* `check` recomputes, and a node never points at a blob without a row.    *)
(* put_file does not keep it: the row its INSERT found may be swept before *)
(* acquire_blob, and registered again by another upload before the node.   *)
RefCountExact ==
    \A h \in Hashes :
        IF h \in blobs THEN ref_count[h] = Cardinality(Holders(h))
                       ELSE Holders(h) = {}

(* What put_file, release_blob and the sweep do keep, whatever is          *)
(* abandoned, retried or swept in between: no count is above the number of *)
(* holders, so that nothing is kept for ever; it is that number as long as *)
(* no node was committed without its raise; and a node has its row.        *)
CountsOnlyMissRaises ==
    \A h \in Hashes :
        IF h \in blobs
        THEN /\ ref_count[h] <= Cardinality(Holders(h))
             /\ h \notin missed => ref_count[h] = Cardinality(Holders(h))
        ELSE Holders(h) = {}

(* A 201 means the bytes are there, even when a sweep ran in the middle of *)
(* the request: a slot whose content was answered 201 can be read until    *)
(* it is overwritten or purged.                                            *)
AckedHasBytes == \A s \in acked : node[s] \in stored

(* The sweep removes bytes only while no node holds them, although the     *)
(* count it checked may be short of one: the foreign key refuses its       *)
(* DELETE then, and the row lock it keeps holds back new nodes.            *)
SweepTakesNothingHeld ==
    [][\A h \in Hashes : h \in stored /\ h \notin stored' => Holders(h) = {}]_vars

(* A blob nothing refers to any more is collected in the end: its row goes *)
(* unless somebody takes a reference first, or a row whose count misses a  *)
(* holder obstructs the sweep.                                             *)
OrphansAreCollected ==
    \A h \in Hashes :
        Orphaned(h) ~> (h \notin blobs \/ ref_count[h] > 0 \/ Obstructed)
=============================================================================
