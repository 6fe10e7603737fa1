------------------------------- MODULE NodeTree -------------------------------
(***************************************************************************)
(* The file tree of one account (api/src/db.rs, trash.rs, versions.rs and  *)
(* the handlers of routes/files.rs, routes/versions.rs, dav/transfer.rs):  *)
(* nodes, the trash batches they are in, the versions an overwrite keeps,  *)
(* the blobs both hold and the quota both are charged to.                  *)
(*                                                                         *)
(* A handler resolves its path with plain reads and then writes by node    *)
(* id.  What it writes is one step: it is under the owner's advisory lock, *)
(* or (put_file, which takes no such lock) under the row locks of the node *)
(* and the quota.  What it read may be old by then, and so a request is    *)
(* two steps: Look, and the action that finishes it.                       *)
(*                                                                         *)
(* Abstracted: a blob is its hash and a size; a file's etag is the hash it *)
(* was computed from, a directory's is left out; blob rows that nothing    *)
(* refers to are BlobLifecycle's business.                                 *)
(***************************************************************************)
EXTENDS Integers, Sequences, FiniteSets, Functions, SequencesExt, FiniteSetsExt, Tables

CONSTANTS
    Ids,            \* node ids
    Root,           \* the account's root directory
    Names,
    Hashes,
    None,
    Size,           \* bytes of each blob
    VERSIONS_KEPT,
    Quotas,         \* the limits an administrator sets; the first is the default
    DefaultQuota,
    Retention,      \* whether TRASH_RETENTION_DAYS is set
    Requests,       \* concurrent requests of the account
    Overtaking,     \* whether others act between a request's reads and writes
    MostReferences  \* bound on ref_count, which a leak would let grow for ever

ASSUME IdsAssumption == IsFiniteSet(Ids) /\ Root \in Ids
ASSUME NamesAssumption == None \notin Ids \cup Hashes \cup Names
ASSUME SizeAssumption == Size \in [Hashes -> Nat]
ASSUME LimitsAssumption ==
    /\ VERSIONS_KEPT \in Nat /\ MostReferences \in Nat
    /\ Quotas \subseteq Nat \ {0} /\ DefaultQuota \in Quotas
    /\ Overtaking \in BOOLEAN /\ Retention \in BOOLEAN

VARIABLES
    nodes,      \* ids that have a row
    parent,     \* columns of that row
    name,
    blob,       \* None for a directory
    etag,
    trash_root, \* trash_root_id: None while the node is not in the trash
    versions,   \* hashes the node's versions hold, oldest first
    ref_count,
    bytes_used,
    bytes_max,
    ops,        \* what each request has read and is about to do
    aged,       \* nodes that have been in the trash for TRASH_RETENTION_DAYS
    due         \* trash roots a running expire has listed

rowVars == <<nodes, parent, name, blob, etag, trash_root, versions>>
sumVars == <<ref_count, bytes_used, bytes_max>>
vars == <<nodes, parent, name, blob, etag, trash_root, versions, ref_count,
          bytes_used, bytes_max, ops, aged, due>>

Idle == [op |-> "idle", node |-> None, dir |-> None, as |-> None,
         blob |-> None, over |-> None]
Op == [op : {"idle", "mkdir", "put", "move", "copy", "send", "revert"},
       node : Ids \cup {None}, dir : Ids \cup {None}, as : Names \cup {None},
       blob : Hashes \cup {None}, over : Ids \cup {None}]

TypeOK ==
    /\ nodes \subseteq Ids
    /\ parent \in [Ids -> Ids \cup {None}]
    /\ name \in [Ids -> Names \cup {None}]
    /\ blob \in [Ids -> Hashes \cup {None}]
    /\ etag \in [Ids -> Hashes \cup {None}]
    /\ trash_root \in [Ids -> Ids \cup {None}]
    /\ versions \in [Ids -> Seq(Hashes)]
    /\ \A n \in Ids : Len(versions[n]) <= VERSIONS_KEPT
    /\ ref_count \in [Hashes -> Nat]
    /\ bytes_used \in Nat
    /\ bytes_max \in Quotas
    /\ ops \in [Requests -> Op]
    /\ aged \subseteq Ids
    /\ due \subseteq Ids

-----------------------------------------------------------------------------
Live == {n \in nodes : trash_root[n] = None}
Trashed == nodes \ Live
IsDirectory(n) == blob[n] = None

(* The nodes met on the way up from n for as long as they are in S, the    *)
(* first one outside included.                                             *)
Climb(n, S) == Ancestors(parent, n, S, Ids)

(* resolve: a path leads to n, through nodes that are not in the trash.    *)
Reachable(n) == n \in Live /\ Root \in Climb(n, Live \ {Root})

Child(p, x, live) == {n \in live : parent[n] = p /\ name[n] = x}

(* contains: `ancestor` is n itself or above it, trashed or not.           *)
IsAbove(ancestor, n) == ancestor \in Climb(n, nodes)

(* Mutant of Subtree: only the node and its own children are marked.       *)
SubtreeShallow(n) ==
    IF n \in Live THEN {n} \cup {m \in Live : parent[m] = n} ELSE {}

(* What send marks: n and what is live below it through live nodes.        *)
Subtree(n) == IF n \in Live THEN {m \in Live : n \in Climb(m, Live)} ELSE {}

Bytes(hashes) == SumFunction([i \in DOMAIN hashes |-> Size[hashes[i]]])
SizeOf(n) == IF IsDirectory(n) THEN 0 ELSE Size[blob[n]]
(* Mutant of Weight: the versions stay in the quota.                       *)
WeightWithoutVersions(n) == SizeOf(n)
Weight(n) == SizeOf(n) + Bytes(versions[n])
WeightOf(S) == SumFunction([n \in S |-> Weight(n)])
SizesOf(S) == SumFunction([n \in S |-> SizeOf(n)])

Occurrences(h, s) == Cardinality({i \in DOMAIN s : s[i] = h})
(* Mutant of HeldBy: the versions' references are not released.            *)
HeldByNodes(S) ==
    [h \in Hashes |-> Cardinality({n \in S : blob[n] = h})]
(* blobs_under and the nodes' own: what purge releases.                    *)
HeldBy(S) ==
    [h \in Hashes |->
        Cardinality({n \in S : blob[n] = h})
        + SumFunction([n \in S |-> Occurrences(h, versions[n])])]

(* acquire_blob on `gained`, then release_blob `lost[h]` times on each h;  *)
(* a count that is already zero is left there.                             *)
Adjusted(counts, gained, lost) ==
    [h \in Hashes |->
        LET sum == counts[h] + (IF h = gained THEN 1 ELSE 0) - lost[h]
        IN  IF sum < 0 THEN 0 ELSE sum]
NothingLost == [h \in Hashes |-> 0]

(* charge_quota lets a delta through: the limit is not looked at when      *)
(* there is nothing to charge, and is looked at when bytes come back; a    *)
(* CHECK keeps bytes_used from going below zero.                           *)
Charge(used, delta) == delta = 0 \/ used + delta \in 0 .. bytes_max

(* A new id is one nothing remembers.                                      *)
Fresh == {n \in Ids \ nodes :
            /\ n \notin due
            /\ \A r \in Requests : n \notin {ops[r].node, ops[r].dir, ops[r].over}}

Insert(n, p, x, h, e) ==
    /\ nodes' = nodes \cup {n}
    /\ parent' = [parent EXCEPT ![n] = p]
    /\ name' = [name EXCEPT ![n] = x]
    /\ blob' = [blob EXCEPT ![n] = h]
    /\ etag' = [etag EXCEPT ![n] = e]
    /\ UNCHANGED trash_root

Init ==
    /\ nodes = {Root}
    /\ parent = [n \in Ids |-> None]
    /\ name = [n \in Ids |-> None]
    /\ blob = [n \in Ids |-> None]
    /\ etag = [n \in Ids |-> None]
    /\ trash_root = [n \in Ids |-> None]
    /\ versions = [n \in Ids |-> <<>>]
    /\ ref_count = [h \in Hashes |-> 0]
    /\ bytes_used = 0
    /\ bytes_max = DefaultQuota
    /\ ops = [r \in Requests |-> Idle]
    /\ aged = {}
    /\ due = {}

-----------------------------------------------------------------------------
(* Looking: every handler resolves what it works on before it writes *)

Quiet == Overtaking \/ \A r \in Requests : ops[r] = Idle

Look(r, op) ==
    /\ ops[r] = Idle
    /\ Quiet
    /\ op.op \in {"put", "copy"} => \A h \in Hashes : ref_count[h] < MostReferences
    /\ ops' = [ops EXCEPT ![r] = op]
    /\ UNCHANGED <<rowVars, sumVars, aged, due>>

Directory(p) == Reachable(p) /\ IsDirectory(p)

(* create_folder, and MKCOL: the name has to be free.                      *)
LookMkdir(r, p, x) ==
    /\ Directory(p)
    /\ Child(p, x, Live) = {}
    /\ Look(r, [Idle EXCEPT !.op = "mkdir", !.dir = p, !.as = x])

LookPut(r, p, x, h) ==
    /\ Directory(p)
    /\ Look(r, [Idle EXCEPT !.op = "put", !.dir = p, !.as = x, !.blob = h])

(* rename, and MOVE with the node it overwrites; the etag and, for COPY,   *)
(* the content that will be written are the ones read here.                *)
LookTransfer(r, op, n, p, x) ==
    /\ Reachable(n) /\ n # Root
    /\ Directory(p)
    /\ \E over \in Child(p, x, Live) \cup {None} :
          /\ over = None => Child(p, x, Live) = {}
          /\ over # None => ~IsAbove(over, n)
          /\ Look(r, [Idle EXCEPT !.op = op, !.node = n, !.dir = p, !.as = x,
                                  !.blob = IF op = "move" THEN etag[n] ELSE blob[n],
                                  !.over = over])

LookSend(r, n) ==
    /\ Reachable(n) /\ n # Root
    /\ Look(r, [Idle EXCEPT !.op = "send", !.node = n])

(* A version of the file at a path; put_file will write to that path.      *)
LookRevert(r, n, h) ==
    /\ Reachable(n) /\ ~IsDirectory(n)
    /\ Occurrences(h, versions[n]) > 0
    /\ Look(r, [Idle EXCEPT !.op = "revert", !.node = n, !.dir = parent[n],
                            !.as = name[n], !.blob = h])

Done(r) == ops' = [ops EXCEPT ![r] = Idle]

(* An error, a refusal or a client that left: the transaction rolls back.  *)
Refuse(r) ==
    /\ ops[r] # Idle
    /\ Done(r)
    /\ UNCHANGED <<rowVars, sumVars, aged, due>>

-----------------------------------------------------------------------------
(* Writing *)

(* insert_directory: a directory that is there already is as good as new,  *)
(* a file is a conflict.  The parent only has to exist.                    *)
Mkdir(r) ==
    LET p == ops[r].dir
        x == ops[r].as
    IN  /\ ops[r].op = "mkdir"
        /\ p \in nodes
        /\ IF Child(p, x, Live) = {}
           THEN \E n \in Fresh : Insert(n, p, x, None, None)
           ELSE /\ \A n \in Child(p, x, Live) : IsDirectory(n)
                /\ UNCHANGED <<nodes, parent, name, blob, etag, trash_root>>
        /\ Done(r)
        /\ UNCHANGED <<versions, sumVars, aged, due>>

(* Mutant of MakeRoom: content that cannot be kept is still charged for.   *)
MakeRoomOrNothing(held, used, previous, h) ==
    LET first(k) == SubSeq(held, 1, k)
        fits == {k \in 0 .. Len(held) : Charge(used - Bytes(first(k)), Size[h])}
        dropped == IF fits = {} THEN Len(held) ELSE Min(fits)
        left == used - Bytes(first(dropped))
        delta == Size[h]
    IN  [versioned |-> fits # {},
         dropped |-> dropped,
         used |-> left + delta,
         allowed |->
            /\ \A k \in 1 .. dropped :
                  Charge(used - Bytes(first(k - 1)), -Size[held[k]])
            /\ Charge(left, delta)]

(* make_room: charge for h, and for as long as it does not fit drop the    *)
(* oldest version; with none left, charge the difference and keep nothing. *)
MakeRoom(held, used, previous, h) ==
    LET first(k) == SubSeq(held, 1, k)
        fits == {k \in 0 .. Len(held) : Charge(used - Bytes(first(k)), Size[h])}
        dropped == IF fits = {} THEN Len(held) ELSE Min(fits)
        left == used - Bytes(first(dropped))
        delta == IF fits = {} THEN Size[h] - Size[previous] ELSE Size[h]
    IN  [versioned |-> fits # {},
         dropped |-> dropped,
         used |-> left + delta,
         allowed |->
            /\ \A k \in 1 .. dropped :
                  Charge(used - Bytes(first(k - 1)), -Size[held[k]])
            /\ Charge(left, delta)]

JustCharge(used, previous, h) ==
    [versioned |-> FALSE,
     dropped |-> 0,
     used |-> used + Size[h] - Size[previous],
     allowed |-> Charge(used, Size[h] - Size[previous])]

(* Nothing is kept of an empty file, or of content that does not change.   *)
Room(held, used, previous, h) ==
    IF VERSIONS_KEPT > 0 /\ Size[previous] > 0 /\ previous # h
    THEN MakeRoom(held, used, previous, h)
    ELSE JustCharge(used, previous, h)

(* Mutant of Beyond: one version too many is kept.                         *)
BeyondByOne(kept) == Max({0, Len(kept) - VERSIONS_KEPT - 1})

(* prune_beyond: how many of the oldest versions are too many.             *)
Beyond(kept) == Max({0, Len(kept) - VERSIONS_KEPT})

(* put_file over the file n: the quota, acquire_blob, what becomes of the  *)
(* content it replaces, prune_beyond, the row.                             *)
Overwrite(n, h, history, used, counts) ==
    LET previous == blob[n]
        held == history[n]
        room == Room(held, used, previous, h)
        left == SubSeq(held, room.dropped + 1, Len(held))
        kept == IF room.versioned THEN Append(left, previous) ELSE left
        beyond == Beyond(kept)
        pruned == SubSeq(kept, 1, beyond)
        lost == SubSeq(held, 1, room.dropped) \o pruned
                \o (IF room.versioned THEN <<>> ELSE <<previous>>)
    IN  /\ room.allowed
        /\ Charge(room.used, -Bytes(pruned))
        /\ bytes_used' = room.used - Bytes(pruned)
        /\ ref_count' = Adjusted(counts, h, [g \in Hashes |-> Occurrences(g, lost)])
        /\ versions' = [history EXCEPT ![n] = SubSeq(kept, beyond + 1, Len(kept))]
        /\ blob' = [blob EXCEPT ![n] = h]
        /\ etag' = [etag EXCEPT ![n] = h]
        /\ UNCHANGED <<nodes, parent, name, trash_root>>

(* put_file where nothing was.                                             *)
Create(p, x, h, used, counts) ==
    /\ Charge(used, Size[h])
    /\ bytes_used' = used + Size[h]
    /\ ref_count' = Adjusted(counts, h, NothingLost)
    /\ \E n \in Fresh : Insert(n, p, x, h, h)

Put(r) ==
    LET p == ops[r].dir
        x == ops[r].as
        h == ops[r].blob
    IN  /\ ops[r].op = "put"
        /\ p \in nodes
        /\ \/ /\ Child(p, x, Live) = {}
              /\ Create(p, x, h, bytes_used, ref_count)
              /\ UNCHANGED versions
           \/ \E n \in Child(p, x, Live) :
                 ~IsDirectory(n) /\ Overwrite(n, h, versions, bytes_used, ref_count)
        /\ Done(r)
        /\ UNCHANGED <<bytes_max, aged, due>>

(* restore of a version: take gives up its row, its blob and its bytes,    *)
(* and put_file writes the content back at the path, whatever is there now.*)
Revert(r) ==
    LET n == ops[r].node
        h == ops[r].blob
        p == ops[r].dir
        used == bytes_used - Size[h]
        counts == Adjusted(ref_count, None, [NothingLost EXCEPT ![h] = 1])
    IN  /\ ops[r].op = "revert"
        /\ n \in nodes /\ p \in nodes
        /\ \E i \in DOMAIN versions[n] :
              /\ versions[n][i] = h
              /\ Charge(bytes_used, -Size[h])
              /\ LET held == [versions EXCEPT ![n] = RemoveAt(@, i)]
                 IN  \/ \E m \in Child(p, ops[r].as, Live) :
                           ~IsDirectory(m) /\ Overwrite(m, h, held, used, counts)
                     \/ /\ Child(p, ops[r].as, Live) = {}
                        /\ Create(p, ops[r].as, h, used, counts)
                        /\ versions' = held
        /\ Done(r)
        /\ UNCHANGED <<bytes_max, aged, due>>

(* send: the marked nodes leave the quota with their versions.             *)
TrashedWith(S, root) == [m \in Ids |-> IF m \in S THEN root ELSE trash_root[m]]

Send(r) ==
    LET n == ops[r].node
        freed == WeightOf(Subtree(n))
    IN  /\ ops[r].op = "send"
        /\ Charge(bytes_used, -freed)
        /\ bytes_used' = bytes_used - freed
        /\ trash_root' = TrashedWith(Subtree(n), n)
        /\ aged' = aged \ Subtree(n)
        /\ Done(r)
        /\ UNCHANGED <<nodes, parent, name, blob, etag, versions, ref_count,
                       bytes_max, due>>

(* What transfer does to the node in the way before it moves or copies.    *)
Cleared(over) == IF over = None THEN {} ELSE Subtree(over)

(* Mutant of Move: contains is not asked again under the lock.             *)
MoveUnchecked(r) ==
    LET n == ops[r].node
        p == ops[r].dir
        x == ops[r].as
        gone == Cleared(ops[r].over)
    IN  /\ ops[r].op = "move"
        /\ n \in nodes /\ p \in nodes /\ n # p
        /\ Charge(bytes_used, -WeightOf(gone))
        /\ Child(p, x, Live \ gone) = {}
        /\ bytes_used' = bytes_used - WeightOf(gone)
        /\ trash_root' = TrashedWith(gone, ops[r].over)
        /\ aged' = aged \ gone
        /\ parent' = [parent EXCEPT ![n] = p]
        /\ name' = [name EXCEPT ![n] = x]
        /\ etag' = [etag EXCEPT ![n] = ops[r].blob]
        /\ Done(r)
        /\ UNCHANGED <<nodes, blob, versions, ref_count, bytes_max, due>>

(* db::rename, after send on what it overwrites: the row is found by id    *)
(* alone and a file's etag is written as it was read.                      *)
Move(r) ==
    LET n == ops[r].node
        p == ops[r].dir
        x == ops[r].as
        gone == Cleared(ops[r].over)
    IN  /\ ops[r].op = "move"
        /\ n \in nodes /\ p \in nodes
        /\ Charge(bytes_used, -WeightOf(gone))
        /\ IsDirectory(n) => ~IsAbove(n, p)
        /\ Child(p, x, Live \ gone) = {}
        /\ bytes_used' = bytes_used - WeightOf(gone)
        /\ trash_root' = TrashedWith(gone, ops[r].over)
        /\ aged' = aged \ gone
        /\ parent' = [parent EXCEPT ![n] = p]
        /\ name' = [name EXCEPT ![n] = x]
        /\ etag' = [etag EXCEPT ![n] = ops[r].blob]
        /\ Done(r)
        /\ UNCHANGED <<nodes, blob, versions, ref_count, bytes_max, due>>

(* copy_tree: the source as it was read, then what is live below it now,   *)
(* charged together at the end.                                            *)
Copy(r) ==
    LET n == ops[r].node
        p == ops[r].dir
        x == ops[r].as
        h == ops[r].blob
        gone == Cleared(ops[r].over)
        live == Live \ gone
        below == {m \in live \ {n} : n \in Climb(m, live)}
        charged == (IF h = None THEN 0 ELSE Size[h]) + SizesOf(below)
        used == bytes_used - WeightOf(gone)
        shown(m) == IF m = n THEN h ELSE blob[m]
    IN  /\ ops[r].op = "copy"
        /\ p \in nodes
        /\ Charge(bytes_used, -WeightOf(gone)) /\ Charge(used, charged)
        /\ h = None => ~IsAbove(n, p)
        /\ Child(p, x, live) = {}
        /\ \E new \in [below \cup {n} -> Fresh] :
              /\ \A a, b \in below \cup {n} : new[a] = new[b] => a = b
              /\ LET old == [c \in {new[m] : m \in below \cup {n}} |->
                                CHOOSE m \in below \cup {n} : new[m] = c]
                     ids == DOMAIN old
                 IN  /\ nodes' = nodes \cup ids
                     /\ parent' = [c \in Ids |->
                            IF c \notin ids THEN parent[c]
                            ELSE IF old[c] = n THEN p ELSE new[parent[old[c]]]]
                     /\ name' = [c \in Ids |->
                            IF c \notin ids THEN name[c]
                            ELSE IF old[c] = n THEN x ELSE name[old[c]]]
                     /\ blob' = [c \in Ids |->
                            IF c \in ids THEN shown(old[c]) ELSE blob[c]]
                     /\ etag' = [c \in Ids |->
                            IF c \notin ids THEN etag[c]
                            ELSE IF old[c] = n THEN h ELSE etag[old[c]]]
        /\ bytes_used' = used + charged
        /\ ref_count' = [g \in Hashes |->
              ref_count[g] + Cardinality({m \in below \cup {n} : shown(m) = g})]
        /\ trash_root' = TrashedWith(gone, ops[r].over)
        /\ aged' = aged \ gone
        /\ Done(r)
        /\ UNCHANGED <<versions, bytes_max, due>>

-----------------------------------------------------------------------------
(* The trash *)

SiblingsDiffer(live) ==
    \A m, n \in live : parent[m] = parent[n] /\ name[m] = name[n] => m = n

(* Mutant of Rerooted: what is left behind keeps the batch that is gone.   *)
NotRerooted(m, left, live) == trash_root[m]

(* reroot_survivors: of the batches that were opened, a node left behind   *)
(* under a live parent heads a batch of its own, with what is below it of  *)
(* the same batch.                                                         *)
Rerooted(m, left, live) ==
    LET mates == {q \in left : trash_root[q] = trash_root[m]}
        heads == {s \in Climb(m, mates) \cap mates : parent[s] \in live}
    IN  IF heads = {} THEN trash_root[m] ELSE CHOOSE s \in heads : TRUE

(* restore: the trashed directories above come back without their other    *)
(* children, the batch comes back whole, and what is left of the batches   *)
(* the way up was in is listed on its own.                                 *)
Restore(id) ==
    LET above == Climb(parent[id], Trashed) \cap Trashed
        batch == {m \in Trashed \ above : trash_root[m] = id}
        back == above \cup batch
        opened == {trash_root[m] : m \in above}
        left == Trashed \ back
        charged == SizesOf(above) + WeightOf(batch)
    IN  /\ Quiet
        /\ id \in nodes /\ trash_root[id] = id
        /\ SiblingsDiffer(Live \cup back)
        /\ Charge(bytes_used, charged)
        /\ bytes_used' = bytes_used + charged
        /\ trash_root' =
              [m \in Ids |->
                  IF m \in back THEN None
                  ELSE IF m \in left /\ trash_root[m] \in opened
                       THEN Rerooted(m, left, Live \cup back) ELSE trash_root[m]]
        /\ aged' = aged \ back
        /\ UNCHANGED <<nodes, parent, name, blob, etag, versions, ref_count,
                       bytes_max, ops, due>>

(* DELETE FROM nodes takes what refers to the row with it: parent_id and   *)
(* trash_root_id both cascade, and so do the versions.                     *)
Cascade(id) ==
    LET refers == References(parent, nodes, Ids) \cup References(trash_root, nodes, Ids)
    IN  Collected({<<e[2], e[1]>> : e \in refers}, {id}, Ids)

(* purge: the blobs of everything below the root are released.             *)
PurgeRoot(id) ==
    LET buried == {m \in nodes : id \in Climb(m, nodes)}
        gone == Cascade(id)
        clear(f, x) == [m \in Ids |-> IF m \in gone THEN x ELSE f[m]]
    IN  /\ ref_count' = Adjusted(ref_count, None, HeldBy(buried))
        /\ nodes' = nodes \ gone
        /\ parent' = clear(parent, None)
        /\ name' = clear(name, None)
        /\ blob' = clear(blob, None)
        /\ etag' = clear(etag, None)
        /\ trash_root' = clear(trash_root, None)
        /\ versions' = clear(versions, <<>>)
        /\ aged' = aged \ gone
        /\ UNCHANGED <<bytes_used, bytes_max, ops>>

(* purge of one root; empty is this for every root under one lock.         *)
Purge(id) ==
    /\ Quiet
    /\ id \in nodes /\ trash_root[id] = id
    /\ PurgeRoot(id)
    /\ UNCHANGED due

(* TRASH_RETENTION_DAYS go by for what was trashed together.               *)
Age(id) ==
    /\ Retention
    /\ id \in nodes /\ trash_root[id] = id /\ id \notin aged
    /\ aged' = aged \cup {m \in nodes : trash_root[m] = id}
    /\ UNCHANGED <<rowVars, sumVars, ops, due>>

ListDue ==
    /\ due = {}
    /\ {n \in aged : trash_root[n] = n} # {}
    /\ due' = {n \in aged : trash_root[n] = n}
    /\ UNCHANGED <<rowVars, sumVars, ops, aged>>

(* expire, one root per transaction: purge only asks whether the id is a   *)
(* trash root; one that is not any more is skipped.                        *)
ExpireOne(id) ==
    /\ id \in due
    /\ due' = due \ {id}
    /\ IF id \in nodes /\ trash_root[id] = id
       THEN PurgeRoot(id)
       ELSE UNCHANGED <<rowVars, sumVars, ops, aged>>

SetQuota(q) ==
    /\ Quiet
    /\ q # bytes_max
    /\ bytes_max' = q
    /\ UNCHANGED <<rowVars, ref_count, bytes_used, ops, aged, due>>

-----------------------------------------------------------------------------
LookStep(r) ==
    \/ \E p \in nodes, x \in Names :
          \/ LookMkdir(r, p, x)
          \/ \E h \in Hashes : LookPut(r, p, x, h)
          \/ \E n \in nodes :
                LookTransfer(r, "move", n, p, x) \/ LookTransfer(r, "copy", n, p, x)
    \/ \E n \in nodes : LookSend(r, n) \/ \E h \in Hashes : LookRevert(r, n, h)

WriteStep(r) ==
    Mkdir(r) \/ Put(r) \/ Revert(r) \/ Send(r) \/ Move(r) \/ Copy(r) \/ Refuse(r)

TrashStep ==
    \/ \E id \in Ids : Restore(id) \/ Purge(id) \/ Age(id) \/ ExpireOne(id)
    \/ ListDue

Next ==
    \/ \E r \in Requests : LookStep(r) \/ WriteStep(r)
    \/ TrashStep
    \/ \E q \in Quotas : SetQuota(q)

Spec == Init /\ [][Next]_vars

-----------------------------------------------------------------------------
(* Properties *)

(* Every file and directory hangs from the root: no sequence of moves,     *)
(* however they overlap, makes a directory its own ancestor and cuts the   *)
(* subtree off.                                                            *)
NoCycle == \A n \in nodes : Root \in Climb(n, nodes)

(* ref_count counts the nodes and the versions that hold a blob, trashed   *)
(* or not (what `check` expects): too few and the sweep takes bytes a file *)
(* needs, too many and it never takes them.                                *)
RefCountExact ==
    \A h \in Hashes :
        ref_count[h] = Cardinality({n \in nodes : blob[n] = h})
                       + SumFunction([n \in nodes |-> Occurrences(h, versions[n])])

(* bytes_used is the size of the live files and of their versions (what    *)
(* `check` expects): trash, restore, purge, versions made, pruned, dropped *)
(* for room and restored all balance.                                      *)
QuotaExact ==
    bytes_used = SizesOf(Live) + SumFunction([n \in Live |-> Bytes(versions[n])])

(* DELETE marks the node and everything under it: nothing live is left     *)
(* below a trashed directory, where no path leads to it.                   *)
NothingLiveBelowTrash == \A n \in Live : Reachable(n)

(* Every trashed node is in a batch the trash lists, so it can be restored *)
(* or purged.                                                              *)
TrashIsListed ==
    \A n \in Trashed : trash_root[n] \in Trashed
                       /\ trash_root[trash_root[n]] = trash_root[n]

(* A file's etag is that of its content: a client whose If-Match holds has *)
(* seen what it overwrites.                                                *)
EtagNamesContent == \A n \in nodes : etag[n] = blob[n]

(* A save never fails because history is being kept: what would fit if the *)
(* file had no versions is not refused for having them.  Two cases are out *)
(* of its reach in the code: replaced content that is empty, and a quota   *)
(* that was lowered below the usage.                                       *)
SaveNeverFailsForHistory ==
    \A n \in Live, h \in Hashes :
        /\ SizeOf(n) > 0 /\ bytes_used <= bytes_max
        /\ Charge(bytes_used - Bytes(versions[n]), Size[h] - Size[blob[n]])
        => Room(versions[n], bytes_used, blob[n], h).allowed

(* Expiry takes only what has been in the trash for the whole retention.   *)
ExpiryTakesOnlyTheAged ==
    [][\A id \in Ids : ExpireOne(id) /\ id \in nodes \ nodes' => id \in aged]_vars
=============================================================================
