-------------------------------- MODULE Sharing --------------------------------
(***************************************************************************)
(* What accounts give each other (api/src/grants.rs, access.rs, shares.rs, *)
(* departure.rs, set_email of users.rs and their handlers): grants to an   *)
(* address, links, the change of an address, and the departure of an       *)
(* account, whose tree may be handed over to another one.                  *)
(*                                                                         *)
(* A request on the tree resolves its paths, through its own root or       *)
(* through a mount, and writes later by the ids and the owner it read: two *)
(* steps, and grants, addresses and whole accounts come and go in between. *)
(* Two requests on the tree that overtake each other are NodeTree's        *)
(* subject; here there is one at a time.                                   *)
(*                                                                         *)
(* Abstracted: the root directory of an account is the account itself, and *)
(* every account has made its own; accounts here are active and may write, *)
(* since the others make no such request; every file has one byte and the  *)
(* same content; names of siblings are NodeTree's subject, and the name a  *)
(* node has when it is granted is any.                                     *)
(***************************************************************************)
EXTENDS Integers, Sequences, FiniteSets, SequencesExt, FiniteSetsExt, Tables

CONSTANTS
    Users,          \* account ids, each with its root directory
    Addresses,
    Folders,        \* node ids of directories below a root
    Files,          \* node ids of files
    Names,
    None,
    Quota,          \* bytes_max of every account
    MostGiven,      \* bound on the grants and the links there are
    SameAddress     \* whether an address is ever set to what it is already

Ids == Folders \cup Files

ASSUME IdsAssumption ==
    /\ IsFiniteSet(Ids) /\ IsFiniteSet(Users)
    /\ Folders \cap Files = {} /\ Users \cap Ids = {}
    /\ None \notin Users \cup Addresses \cup Ids \cup Names
ASSUME LimitsAssumption ==
    Quota \in Nat /\ MostGiven \in Nat /\ SameAddress \in BOOLEAN

VARIABLES
    email,          \* None: no such account
    bytes_used,
    owner,          \* columns of nodes; None: no such row
    parent,
    trash_root,
    ref_count,      \* of the one content
    grants,
    links,          \* rows of shares that are not revoked
    op              \* what the request under way has read

treeVars == <<owner, parent, trash_root>>
vars == <<email, bytes_used, owner, parent, trash_root, ref_count, grants, links, op>>

Access == {"read", "write"}
(* A mount name is a name and the numbers that were added to it.           *)
Grant == [node : Ids, grantee : Addresses, access : Access,
          mount_name : Seq(Names \cup Nat), created_by : Users]
Link == [node : Ids, created_by : Users]
Idle == [at |-> "idle", node |-> None, dir |-> None, owner |-> None]
Op == [at : {"idle", "folder", "file", "move", "copy", "send", "visit", "email"},
       node : Ids \cup {None}, dir : Ids \cup Users \cup Addresses \cup {None},
       owner : Users \cup {None}]

Accounts == {u \in Users : email[u] # None}
Nodes == {n \in Ids : owner[n] # None}
Live == {n \in Nodes : trash_root[n] = None}
Trashed == Nodes \ Live

(* The state is well formed: addresses are unique, every row refers to     *)
(* rows that are there, and no address is given a node twice or two mounts *)
(* of one name (so that no constraint of the grants table ever fails).     *)
TypeOK ==
    /\ email \in [Users -> Addresses \cup {None}]
    /\ \A u, v \in Accounts : email[u] = email[v] => u = v
    /\ bytes_used \in [Users -> 0 .. Quota]
    /\ owner \in [Ids -> Accounts \cup {None}]
    /\ parent \in [Ids -> Nodes \cup Accounts \cup {None}]
    /\ trash_root \in [Ids -> Nodes \cup {None}]
    /\ \A n \in Ids \ Nodes : parent[n] = None /\ trash_root[n] = None
    /\ ref_count \in Nat
    /\ grants \subseteq Grant /\ links \subseteq Link
    /\ \A r \in grants \cup links : r.node \in Nodes /\ r.created_by \in Accounts
    /\ \A g, h \in grants :
          g.grantee = h.grantee /\ (g.node = h.node \/ g.mount_name = h.mount_name) => g = h
    /\ op \in Op

Init ==
    /\ email = [u \in Users |-> None]
    /\ bytes_used = [u \in Users |-> 0]
    /\ owner = [n \in Ids |-> None]
    /\ parent = [n \in Ids |-> None]
    /\ trash_root = [n \in Ids |-> None]
    /\ ref_count = 0
    /\ grants = {} /\ links = {}
    /\ op = Idle

-----------------------------------------------------------------------------
(* The trees *)

OwnerOf(n) == IF n \in Users THEN n ELSE owner[n]
IsDirectory(n) == n \in Folders \cup Users
Exists(n) == n \in Accounts \cup Nodes

(* The nodes met on the way up from n for as long as they are in S, the    *)
(* first one outside included.                                             *)
Climb(n, S) == Ancestors(parent, n, S, Ids \cup Users)

(* resolve from t: t, and what child after live child leads to.            *)
Under(t) == {t} \cup {m \in Live : t \in Climb(m, Live)}
Bytes(S) == Cardinality(S \cap Files)

(* charge_quota: the row of an account that has left cannot be charged.    *)
Charge(u, delta) ==
    delta = 0 \/ (u \in Accounts /\ bytes_used[u] + delta \in 0 .. Quota)
Charged(u, delta) == bytes_used' = [bytes_used EXCEPT ![u] = @ + delta]

Fresh(S) == {n \in S \ Nodes : op.node # n /\ op.dir # n}

(* DELETE of the rows S: parent_id and trash_root_id cascade, and so does  *)
(* node_id of grants and of shares.                                        *)
Cascade(S) ==
    LET refers == References(parent, Nodes, Ids) \cup References(trash_root, Nodes, Ids)
    IN  Collected({<<e[2], e[1]>> : e \in refers}, S, Ids)
Without(f, S) == [n \in Ids |-> IF n \in S THEN None ELSE f[n]]

-----------------------------------------------------------------------------
(* Where a path leads (access.rs) *)

(* mount: the grants to the caller's address whose node is live.           *)
Mounts(u) == {g \in grants : g.grantee = email[u] /\ g.node \in Live}

(* locate: Place::Own, and Place::Shared through each of the mounts.       *)
Places(u) ==
    {[node |-> n, writable |-> TRUE, at_mount |-> FALSE] : n \in Under(u)}
    \cup UNION {{[node |-> n, writable |-> g.access = "write", at_mount |-> n = g.node] :
                    n \in Under(g.node)} : g \in Mounts(u)}

Own(u) == Under(u) \ {u}
Reached(u) == {p.node : p \in Places(u)} \ {u}

(* directory_for_write *)
DirectoriesForWrite(u) ==
    {p.node : p \in {q \in Places(u) : q.writable /\ IsDirectory(q.node)}}

(* locate_writable and into_movable *)
Movable(u) ==
    {p.node : p \in {q \in Places(u) : q.writable /\ ~q.at_mount /\ q.node \in Ids}}

Look(what) == op = Idle /\ op' = what
              /\ UNCHANGED <<email, bytes_used, treeVars, ref_count, grants, links>>

(* Bound: there are ids for a copy of S.                                   *)
Enough(S) == \A K \in {Folders, Files} : Cardinality(S \cap K) <= Cardinality(Fresh(K))

(* create_folder and put: what is written belongs to the folder's owner.   *)
LookMake(u, kind) ==
    \E p \in DirectoriesForWrite(u) :
        /\ Fresh(IF kind = "folder" THEN Folders ELSE Files) # {}
        /\ Look([at |-> kind, node |-> None, dir |-> p, owner |-> OwnerOf(p)])

(* Mutant of SameOwner: a node is moved into another account's tree.       *)
AnyOwner(n, p) == TRUE

(* A move across accounts is refused (ApiError::AcrossAccounts).           *)
SameOwner(n, p) == OwnerOf(p) = OwnerOf(n)

LookMove(u) ==
    \E n \in Movable(u), p \in DirectoriesForWrite(u) :
        /\ SameOwner(n, p)
        /\ Look([at |-> "move", node |-> n, dir |-> p, owner |-> OwnerOf(n)])

LookCopy(u) ==
    \E n \in Reached(u), p \in DirectoriesForWrite(u) :
        /\ Enough(Under(n))
        /\ Look([at |-> "copy", node |-> n, dir |-> p, owner |-> OwnerOf(p)])

LookSend(u) ==
    \E n \in Movable(u) :
        Look([at |-> "send", node |-> n, dir |-> None, owner |-> OwnerOf(n)])

(* An error, a refusal or a client that left.                              *)
Refuse ==
    /\ op # Idle
    /\ op' = Idle
    /\ UNCHANGED <<email, bytes_used, treeVars, ref_count, grants, links>>

-----------------------------------------------------------------------------
(* What the request then writes, by what it read *)

(* insert_directory, and put_file where nothing was: the owner and the     *)
(* folder are foreign keys.                                                *)
Make(kind, S, size) ==
    /\ op.at = kind
    /\ op.owner \in Accounts /\ Exists(op.dir)
    /\ Charge(op.owner, size)
    /\ \E n \in Fresh(S) :
          /\ owner' = [owner EXCEPT ![n] = op.owner]
          /\ parent' = [parent EXCEPT ![n] = op.dir]
    /\ Charged(op.owner, size)
    /\ ref_count' = ref_count + size
    /\ op' = Idle
    /\ UNCHANGED <<email, trash_root, grants, links>>

CreateFolder == Make("folder", Folders, 0)
Put == Make("file", Files, 1)

(* db::rename *)
Move ==
    /\ op.at = "move"
    /\ op.node \in Nodes /\ Exists(op.dir)
    /\ op.node \notin Climb(op.dir, Nodes)
    /\ parent' = [parent EXCEPT ![op.node] = op.dir]
    /\ op' = Idle
    /\ UNCHANGED <<email, bytes_used, owner, trash_root, ref_count, grants, links>>

(* copy_tree: the source as it was read, and what is below it now.         *)
Copy ==
    LET copied == {op.node} \cup {m \in Live : op.node \in Climb(m, Live)}
    IN  /\ op.at = "copy"
        /\ op.owner \in Accounts /\ Exists(op.dir)
        /\ op.node \in Folders => op.node \notin Climb(op.dir, Nodes)
        /\ Charge(op.owner, Bytes(copied))
        /\ \E new \in [copied -> Fresh(Ids)] :
              /\ \A m, n \in copied : new[m] = new[n] => m = n
              /\ \A m \in copied : new[m] \in Folders <=> m \in Folders
              /\ LET copies == {new[m] : m \in copied}
                     source(c) == CHOOSE m \in copied : new[m] = c
                 IN  /\ owner' = [n \in Ids |-> IF n \in copies THEN op.owner ELSE owner[n]]
                     /\ parent' = [n \in Ids |->
                            IF n \notin copies THEN parent[n]
                            ELSE IF source(n) = op.node THEN op.dir
                            ELSE new[parent[source(n)]]]
        /\ Charged(op.owner, Bytes(copied))
        /\ ref_count' = ref_count + Bytes(copied)
        /\ op' = Idle
        /\ UNCHANGED <<email, trash_root, grants, links>>

(* trash::send: the bytes go back to the owner that was read.              *)
Send ==
    LET marked == Under(op.node) \cap Live
    IN  /\ op.at = "send"
        /\ Charge(op.owner, -Bytes(marked))
        /\ trash_root' = [n \in Ids |-> IF n \in marked THEN op.node ELSE trash_root[n]]
        /\ Charged(op.owner, -Bytes(marked))
        /\ op' = Idle
        /\ UNCHANGED <<email, owner, parent, ref_count, grants, links>>

-----------------------------------------------------------------------------
(* The trash of an account *)

TrashRoots(u) == {n \in Nodes : owner[n] = u /\ trash_root[n] = n}

(* restore: the trashed directories above come back alone, the batch comes *)
(* back whole, and what is left of an opened batch is rerooted.            *)
Restore(u, id) ==
    LET above == Climb(parent[id], Trashed) \cap Trashed
        back == above \cup {m \in Trashed : trash_root[m] = id}
        left == Trashed \ back
        heads(m) == {s \in Climb(m, left) \cap left :
                        trash_root[s] = trash_root[m] /\ parent[s] \in back}
    IN  /\ Charge(u, Bytes(back))
        /\ trash_root' =
              [m \in Ids |-> IF m \in back THEN None
                             ELSE IF m \in left /\ heads(m) # {} THEN CHOOSE s \in heads(m) : TRUE
                             ELSE trash_root[m]]
        /\ Charged(u, Bytes(back))
        /\ UNCHANGED <<email, owner, parent, ref_count, grants, links, op>>

(* What is left of the rows and of what refers to them without S.          *)
Deleted(S) ==
    LET gone == Cascade(S)
    IN  [owner |-> Without(owner, gone), parent |-> Without(parent, gone),
         trash_root |-> Without(trash_root, gone),
         grants |-> {g \in grants : g.node \notin gone},
         links |-> {l \in links : l.node \notin gone}]

(* purge *)
Purge(id) ==
    LET left == Deleted({id})
    IN  /\ owner' = left.owner /\ parent' = left.parent /\ trash_root' = left.trash_root
        /\ grants' = left.grants /\ links' = left.links
        /\ ref_count' = ref_count - Bytes({m \in Nodes : id \in Climb(m, Nodes)})
        /\ UNCHANGED <<email, bytes_used, op>>

-----------------------------------------------------------------------------
(* Grants *)

(* Mutant of FreeMountName: the name the node has.                         *)
MountNameWanted(rows, a, wanted) == wanted

(* free_mount_name: the wanted name, numbered from 2 until nothing has it. *)
FreeMountName(rows, a, wanted) ==
    LET taken == {g.mount_name : g \in {h \in rows : h.grantee = a}}
        free == {k \in 2 .. MostGiven + 2 : Append(wanted, k) \notin taken}
    IN  IF wanted \notin taken THEN wanted ELSE Append(wanted, Min(free))

(* give: not to oneself, and not above or below what the address has.      *)
MayGive(u, n, a) ==
    /\ email[u] # a
    /\ \A g \in grants :
          g.grantee = a /\ owner[g.node] = u =>
              /\ n \notin Climb(g.node, Nodes)
              /\ g.node \notin Climb(n, Nodes)

(* Mutant of Grantable: whoever reaches a node passes it on.               *)
ReachedIsGrantable(u) == Reached(u)

(* routes::grants::create and routes::shares::create take Place::Own only. *)
Grantable(u) == Own(u)

Give(u, n, a, access, wanted) ==
    /\ MayGive(u, n, a)
    /\ grants' = grants \cup
          {[node |-> n, grantee |-> a, access |-> access,
            mount_name |-> FreeMountName(grants, a, <<wanted>>), created_by |-> u]}
    /\ UNCHANGED <<email, bytes_used, treeVars, ref_count, links, op>>

(* withdraw: by the recipient, or by the node's owner.                     *)
Withdraw(u, g) ==
    /\ g.grantee = email[u] \/ owner[g.node] = u
    /\ grants' = grants \ {g}
    /\ UNCHANGED <<email, bytes_used, treeVars, ref_count, links, op>>

-----------------------------------------------------------------------------
(* Links *)

Mint(u, n) ==
    /\ links' = links \cup {[node |-> n, created_by |-> u]}
    /\ UNCHANGED <<email, bytes_used, treeVars, ref_count, grants, op>>

(* revoke by the account that minted it; expires_at passes.                *)
TakeDown(l) ==
    /\ links' = links \ {l}
    /\ UNCHANGED <<email, bytes_used, treeVars, ref_count, grants, op>>

(* shares::open up to the password: the link stands and its node is live.  *)
Visit(l) ==
    /\ l.node \in Live
    /\ Look([Idle EXCEPT !.at = "visit", !.node = l.node])

(* ... and after it: the node is read again, by its id.                    *)
Serve ==
    /\ op.at = "visit" /\ op.node \in Live
    /\ op' = Idle
    /\ UNCHANGED <<email, bytes_used, treeVars, ref_count, grants, links>>

-----------------------------------------------------------------------------
(* Accounts *)

Create(u, a) ==
    /\ u \notin Accounts /\ op.owner # u /\ op.dir # u
    /\ \A v \in Accounts : email[v] # a
    /\ email' = [email EXCEPT ![u] = a]
    /\ UNCHANGED <<bytes_used, treeVars, ref_count, grants, links, op>>

(* Mutant of Merged: the grant that is kept keeps the access it has.       *)
MergedAsItIs(existing, moving) == existing

(* Of two grants of a node the one that is there stays, with the right to  *)
(* write if either has it.                                                 *)
Merged(existing, moving) ==
    IF moving.access = "write" THEN [existing EXCEPT !.access = "write"] ELSE existing

(* One round of reassign's loop; a grant that is found to be there already *)
(* makes the moving one go, even when it is the same row.                  *)
ReassignOne(rows, g, a) ==
    LET already == {h \in rows : h.grantee = a /\ h.node = g.node}
    IN  IF already = {}
        THEN (rows \ {g}) \cup
             {[g EXCEPT !.grantee = a, !.mount_name = FreeMountName(rows, a, g.mount_name)]}
        ELSE (rows \ (already \cup {g})) \cup ({Merged(h, g) : h \in already} \ {g})

(* reassign: the grants to the previous address, one after the other; the  *)
(* order they were made in is any.                                         *)
Reassign(rows, moving, a) ==
    LET left[k \in 0 .. Len(moving)] ==
            IF k = 0 THEN rows ELSE ReassignOne(left[k - 1], moving[k], a)
    IN  left[Len(moving)]

(* An administrator sends an address for u.                                *)
LookEmail(u, a) ==
    /\ a = email[u] => SameAddress
    /\ Look([at |-> "email", node |-> None, dir |-> a, owner |-> u])

(* users::set_email, and reassign in its transaction.                      *)
SetEmail ==
    LET u == op.owner
        a == op.dir
    IN  /\ op.at = "email"
        /\ u \in Accounts
        /\ \A v \in Accounts \ {u} : email[v] # a
        /\ email' = [email EXCEPT ![u] = a]
        /\ \E moving \in SetToSeqs({g \in grants : g.grantee = email[u]}) :
              grants' = Reassign(grants, moving, a)
        /\ op' = Idle
        /\ UNCHANGED <<bytes_used, treeVars, ref_count, links>>

(* What DELETE FROM users takes along: the nodes of the account, which     *)
(* cascade, and the grants and links it made; before it, the grants to its *)
(* address are deleted.                                                    *)
Farewell(u, left) ==
    /\ grants' = {g \in left.grants : g.created_by # u /\ g.grantee # email[u]}
    /\ links' = {l \in left.links : l.created_by # u}
    /\ email' = [email EXCEPT ![u] = None]

(* Mutant of HeldBlobs: what is in the trash keeps its hold.               *)
HeldByLive(u) == {n \in Live : owner[n] = u}

(* The files that give up their hold on their content when u leaves: those *)
(* trash::empty purges and those held_blobs finds.                         *)
HeldBlobs(u) == {n \in Nodes : owner[n] = u}

(* departure::remove without hand_over_to: the trash is emptied and every  *)
(* file gives up its hold on its content.                                  *)
RemoveAccount(u) ==
    LET left == Deleted({n \in Nodes : owner[n] = u})
    IN  /\ owner' = left.owner /\ parent' = left.parent /\ trash_root' = left.trash_root
        /\ Farewell(u, left)
        /\ bytes_used' = [bytes_used EXCEPT ![u] = 0]
        /\ ref_count' = ref_count - Bytes(HeldBlobs(u))
        /\ UNCHANGED op

(* The nodes hand_over gives to the recipient: all that are left when the  *)
(* trash has been emptied.                                                 *)
HandedOver(u) == {n \in Nodes : owner[n] = u} \ Cascade(TrashRoots(u))

(* Mutant of AtTheTop: every node is put directly into the new folder.     *)
AllAtTheTop(u, n) == TRUE

(* ... of which these go into the new folder.                              *)
AtTheTop(u, n) == parent[n] = u

(* ... and the bytes that are charged for them.                            *)
HandoverBytes(u) == bytes_used[u]

(* departure::remove with hand_over_to: a new folder in the recipient's    *)
(* root takes the children of the old root.                                *)
HandOver(u, r) ==
    LET given == HandedOver(u)
        left == Deleted({n \in Nodes : owner[n] = u} \ given)
    IN  /\ u # r
        /\ Charge(r, HandoverBytes(u))
        /\ \E folder \in Fresh(Folders) :
              /\ owner' = [n \in Ids |-> IF n \in given \cup {folder} THEN r ELSE left.owner[n]]
              /\ parent' = [n \in Ids |->
                    IF n = folder THEN r
                    ELSE IF n \in given /\ AtTheTop(u, n) THEN folder
                    ELSE left.parent[n]]
        /\ trash_root' = left.trash_root
        /\ Farewell(u, left)
        /\ bytes_used' = [bytes_used EXCEPT ![u] = 0, ![r] = @ + HandoverBytes(u)]
        /\ ref_count' = ref_count - Bytes(HeldBlobs(u) \ given)
        /\ UNCHANGED op

-----------------------------------------------------------------------------
TreeStep ==
    \/ /\ op = Idle
       /\ \E u \in Accounts :
             \/ \E kind \in {"folder", "file"} : LookMake(u, kind)
             \/ LookMove(u)
             \/ LookCopy(u)
             \/ LookSend(u)
             \/ \E n \in TrashRoots(u) : Restore(u, n) \/ Purge(n)
    \/ CreateFolder \/ Put \/ Move \/ Copy \/ Send \/ Refuse

SharingStep ==
    \/ \E u \in Accounts :
          \/ /\ Cardinality(grants) + Cardinality(links) < MostGiven
             /\ \E n \in Grantable(u) :
                   \/ \E a \in Addresses, access \in Access, x \in Names :
                         Give(u, n, a, access, x)
                   \/ Mint(u, n)
          \/ \E g \in grants : Withdraw(u, g)
    \/ \E l \in links : TakeDown(l) \/ Visit(l)
    \/ Serve

AccountStep ==
    \/ \E u \in Users, a \in Addresses : Create(u, a)
    \/ \E u \in Accounts : (\E a \in Addresses : LookEmail(u, a)) \/ RemoveAccount(u)
    \/ \E u, r \in Accounts : HandOver(u, r)
    \/ SetEmail

Next == TreeStep \/ SharingStep \/ AccountStep

Spec == Init /\ [][Next]_vars

-----------------------------------------------------------------------------
(* Properties *)

(* One owner per subtree, which every walk assumes (ARCHITECTURE, Grants): *)
(* a node's parent belongs to the node's owner, and a live node's parent   *)
(* is live, whatever requests were under way when an account was handed    *)
(* over (access.rs, departure.rs, AcrossAccounts in routes/files.rs).      *)
WholeTrees ==
    \A n \in Nodes : /\ OwnerOf(parent[n]) = owner[n]
                     /\ n \in Live => parent[n] \in Live \cup Users

(* The two sums balance across accounts.  Every account is charged for     *)
(* what it owns and for nothing else: writes into a mount charge the       *)
(* owner, a hand-over moves the charge along, and a request that finishes  *)
(* after it charges nobody (charge_quota).  The content is held once for   *)
(* each file that has it, also after an account has left (held_blobs and   *)
(* purge in departure::remove).                                            *)
SumsExact ==
    /\ \A u \in Users : bytes_used[u] = Bytes({n \in Live : owner[n] = u})
    /\ ref_count = Bytes(Nodes)

(* Access never travels further than the owner sent it (ARCHITECTURE,      *)
(* Grants): every grant and every link was made by the account that owns   *)
(* the node now, after any hand-over.                                      *)
GivenByTheOwner == \A r \in grants \cup links : r.created_by = owner[r.node]

(* What an address may do with each node that was given to it.             *)
Rights(rows, a) == {<<g.node, g.access>> : g \in {h \in rows : h.grantee = a}}
Strongest(rights) ==
    {r \in rights : r[2] = "write" \/ <<r[1], "write">> \notin rights}

(* "Changing it moves the shares made to the old address along with it"    *)
(* (README): an account whose address changes keeps every right it had, at *)
(* its strongest, has those its new address was given before, and nobody   *)
(* else gains or loses any (users::set_email, grants::reassign).           *)
RightsFollowTheAddress ==
    [][op.at = "email" /\ op' = Idle /\ op.owner \in Accounts =>
          LET old == email[op.owner]
              new == email'[op.owner]
          IN  /\ Rights(grants', new) = Strongest(Rights(grants, old) \cup Rights(grants, new))
              /\ \A a \in Addresses \ {old, new} : Rights(grants', a) = Rights(grants, a)]_vars

(* When an account leaves, nothing of any other account goes, and nothing  *)
(* of its own that is not in the trash if it is handed over: each node is  *)
(* the recipient's then, with its parent, or in the new folder             *)
(* (departure::hand_over).                                                 *)
NothingLostInDeparture ==
    [][\A u \in Accounts \ Accounts' :
          /\ \A n \in Nodes : owner[n] # u => owner'[n] = owner[n]
          /\ \A r \in Accounts' : HandOver(u, r) =>
                \A n \in Live : owner[n] = u =>
                    /\ owner'[n] = r
                    /\ IF parent[n] = u THEN parent'[parent'[n]] = r
                       ELSE parent'[n] = parent[n]]_vars

=============================================================================
