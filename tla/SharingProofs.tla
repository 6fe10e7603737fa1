---------------------------- MODULE SharingProofs ----------------------------
(***************************************************************************)
(* Whole trees, exact sums and grants that only owners made, for any       *)
(* number of accounts, nodes and grants, whatever accounts come and go     *)
(* while a request on the tree is under way.                               *)
(***************************************************************************)
EXTENDS Sharing, TablesProofs

-----------------------------------------------------------------------------
(* The inductive invariant *)

(* Every node is in a directory that is there, of the node's own owner,    *)
(* who is there.                                                           *)
Columns ==
    /\ email \in [Users -> Addresses \cup {None}]
    /\ owner \in [Ids -> Users \cup {None}]
    /\ parent \in [Ids -> Ids \cup Users \cup {None}]
    /\ trash_root \in [Ids -> Ids \cup {None}]
    /\ \A n \in Ids \ Nodes : parent[n] = None /\ trash_root[n] = None
    /\ \A n \in Nodes : /\ owner[n] \in Accounts /\ parent[n] \in Nodes \cup Accounts
                        /\ OwnerOf(parent[n]) = owner[n]

(* A live node is in a live directory.                                     *)
LiveBelowLive == \A n \in Live : parent[n] \in Live \cup Users

(* A batch is named after a node of it, of the same owner, ...             *)
BatchesHaveRoots ==
    \A m \in Trashed : /\ trash_root[m] \in Trashed
                       /\ trash_root[trash_root[m]] = trash_root[m]
                       /\ owner[trash_root[m]] = owner[m]

(* ... hangs together below that node, ...                                 *)
Hanging == {m \in Trashed : trash_root[m] # m}
BatchesHang ==
    \A m \in Hanging : parent[m] \in Trashed /\ trash_root[parent[m]] = trash_root[m]

(* ... and has no cycle.                                                   *)
BatchesEnd == \A C \in SUBSET Hanging : C # {} => \E x \in C : parent[x] \notin C

TrashShape == LiveBelowLive /\ BatchesHaveRoots /\ BatchesHang /\ BatchesEnd

(* What a request read of the tree is still so when it writes, if the      *)
(* account it read is there and the nodes are.                             *)
Holds(o) ==
    /\ o.at \in {"move", "copy", "send"} => o.node \in Ids
    /\ o.at = "email" => o.dir \in Addresses /\ o.owner \in Users
    /\ o.at \in {"folder", "file", "copy"} /\ o.owner \in Accounts /\ Exists(o.dir) =>
           OwnerOf(o.dir) = o.owner /\ o.dir \in Live \cup Users
    /\ o.at = "move" /\ o.node \in Nodes /\ Exists(o.dir) =>
           /\ OwnerOf(o.dir) = owner[o.node] /\ o.node \in Live
           /\ o.dir \in Live \cup Users
    /\ o.at = "send" /\ o.node \in Nodes /\ o.owner \in Accounts => owner[o.node] = o.owner
StillSo == op \in Op /\ Holds(op)

TreeInv == Columns /\ TrashShape /\ StillSo

-----------------------------------------------------------------------------
(* Going up and cascading *)

(* There are finitely many rows.                                           *)
LEMMA RowsFinite == IsFiniteSet(Ids \cup Users) /\ IsFiniteSet(Ids)
BY IdsAssumption, FS_Union

(* What is known of going up in any table, for this one: the way up starts *)
(* with the node, goes on to the directory it is in, and leads nowhere     *)
(* else.                                                                   *)
LEMMA ClimbIs ==
    ASSUME NEW n \in Ids \cup Users, NEW S \in SUBSET Ids
    PROVE  /\ n \in Climb(n, S) /\ Climb(n, S) \subseteq Ids \cup Users
           /\ \A x \in Climb(n, S) \cap S :
                 parent[x] \in Ids \cup Users => parent[x] \in Climb(n, S)
           /\ \A C : /\ n \in C
                     /\ \A x \in C \cap S : parent[x] \in Ids \cup Users => parent[x] \in C
                     => Climb(n, S) \subseteq C
<1>1. S \in SUBSET (Ids \cup Users)
  OBVIOUS
<1> QED
  BY <1>1, RowsFinite, AncestorsAre DEF Climb

(* ... one step at a time, ...                                             *)
LEMMA ClimbSteps ==
    ASSUME NEW n \in Ids \cup Users, NEW S \in SUBSET Ids
    PROVE  /\ n \in S /\ parent[n] \in Ids \cup Users
                 => Climb(n, S) = {n} \cup Climb(parent[n], S)
           /\ n \notin S \/ parent[n] \notin Ids \cup Users => Climb(n, S) = {n}
<1> DEFINE rows == Ids \cup Users
<1>1. S \in SUBSET rows /\ n \in rows /\ IsFiniteSet(rows)
  BY RowsFinite
<1>2. \A m : Climb(m, S) = Ancestors(parent, m, S, rows)
  BY DEF Climb
<1> HIDE DEF rows
<1>3. /\ n \in S /\ parent[n] \in rows => Climb(n, S) = {n} \cup Climb(parent[n], S)
      /\ n \notin S \/ parent[n] \notin rows => Climb(n, S) = {n}
  BY <1>1, <1>2, AncestorsStep
<1> QED
  BY <1>3 DEF rows

(* ... from each node on, ...                                              *)
LEMMA ClimbOn ==
    ASSUME NEW n \in Ids \cup Users, NEW S \in SUBSET Ids, NEW m \in Climb(n, S)
    PROVE  m \in Ids \cup Users /\ Climb(m, S) \subseteq Climb(n, S)
<1>1. S \in SUBSET (Ids \cup Users)
  OBVIOUS
<1> QED
  BY <1>1, RowsFinite, AncestorsOn DEF Climb

(* ... and in one line.                                                    *)
LEMMA ClimbInLine ==
    ASSUME NEW n \in Ids \cup Users, NEW S \in SUBSET Ids,
           NEW a \in Climb(n, S), NEW b \in Climb(n, S)
    PROVE  b \in Climb(a, S) \/ a \in Climb(b, S)
<1>1. S \in SUBSET (Ids \cup Users)
  OBVIOUS
<1> QED
  BY <1>1, RowsFinite, AncestorsInLine DEF Climb

(* ON DELETE CASCADE takes what is in a directory or a batch that it       *)
(* takes, and nothing else.                                                *)
LEMMA CascadeIs ==
    ASSUME NEW S \in SUBSET Ids
    PROVE  /\ S \subseteq Cascade(S) /\ Cascade(S) \subseteq Ids
           /\ \A m \in Nodes : parent[m] \in Cascade(S) \/ trash_root[m] \in Cascade(S)
                                   => m \in Cascade(S)
           /\ \A C : /\ S \subseteq C
                     /\ \A m \in Nodes : {parent[m], trash_root[m]} \cap C \cap Ids # {} => m \in C
                     => Cascade(S) \subseteq C
<1> DEFINE refers == References(parent, Nodes, Ids) \cup References(trash_root, Nodes, Ids)
           edges == {<<e[2], e[1]>> : e \in refers}
           all == Collected(edges, S, Ids)
<1>0. Nodes \subseteq Ids
  BY DEF Nodes
<1>1. /\ \A e \in edges : e[1] \in Ids /\ e[2] \in Nodes
                          /\ (parent[e[2]] = e[1] \/ trash_root[e[2]] = e[1])
      /\ \A m \in Nodes : /\ parent[m] \in Ids => <<parent[m], m>> \in edges
                          /\ trash_root[m] \in Ids => <<trash_root[m], m>> \in edges
  <2>1. \A e \in refers : e[1] \in Nodes /\ e[2] \in Ids
                          /\ (parent[e[1]] = e[2] \/ trash_root[e[1]] = e[2])
    BY DEF References
  <2>2. \A m \in Nodes : /\ parent[m] \in Ids => <<m, parent[m]>> \in refers
                         /\ trash_root[m] \in Ids => <<m, trash_root[m]>> \in refers
    BY DEF References
  <2> HIDE DEF refers
  <2>3. \A e \in edges : e[1] \in Ids /\ e[2] \in Nodes
                         /\ (parent[e[2]] = e[1] \/ trash_root[e[2]] = e[1])
    BY <2>1
  <2>4. \A x, y : <<x, y>> \in refers => <<y, x>> \in edges
    OBVIOUS
  <2> HIDE DEF edges
  <2> QED
    BY <2>2, <2>3, <2>4
<1>2. edges \subseteq Ids \X Ids
  <2>1. \A e \in refers : e[1] \in Ids /\ e[2] \in Ids
    BY <1>0 DEF References
  <2> HIDE DEF refers
  <2> QED
    BY <2>1
<1> HIDE DEF edges
<1>3. /\ S \subseteq all /\ all \subseteq Ids
      /\ \A e \in edges : e[1] \in all => e[2] \in all
      /\ \A C : S \subseteq C /\ (\A e \in edges : e[1] \in C => e[2] \in C) => all \subseteq C
  BY <1>2, RowsFinite, QueryIsClosure
<1>4. Cascade(S) = all
  BY DEF Cascade, edges
<1> HIDE DEF all
<1>5. ASSUME NEW m \in Nodes, parent[m] \in all \/ trash_root[m] \in all PROVE m \in all
  <2>1. ASSUME NEW x \in all, <<x, m>> \in edges PROVE m \in all
    BY <1>3, <2>1
  <2> QED
    BY <1>1, <1>3, <1>5, <2>1
<1>6. ASSUME NEW C, S \subseteq C,
             \A m \in Nodes : {parent[m], trash_root[m]} \cap C \cap Ids # {} => m \in C
      PROVE  all \subseteq C
  <2>1. \A e \in edges : e[1] \in C => e[2] \in C
    BY <1>1, <1>6
  <2> QED
    BY <1>3, <1>6, <2>1
<1>7. \A C : /\ S \subseteq C
             /\ \A m \in Nodes : {parent[m], trash_root[m]} \cap C \cap Ids # {} => m \in C
             => all \subseteq C
  BY <1>6
<1> QED
  BY <1>3, <1>4, <1>5, <1>7

-----------------------------------------------------------------------------
(* What requests read *)

(* The sets of rows, and what the columns say of them.                     *)
LEMMA Kinds ==
    ASSUME Columns
    PROVE  /\ Nodes \subseteq Ids /\ Accounts \subseteq Users /\ Ids \cap Users = {}
           /\ Live \cup Trashed = Nodes /\ Live \cap Trashed = {}
           /\ Live \subseteq Ids /\ Trashed \subseteq Ids
           /\ None \notin Ids \cup Users
           /\ \A n \in Ids : trash_root[n] # None => n \in Trashed
           /\ \A n \in Trashed : trash_root[n] # None
           /\ \A n \in Nodes : parent[n] \in Ids \cup Users
BY IdsAssumption DEF Columns, Nodes, Accounts, Live, Trashed

(* The whole way up from a node belongs to the node's owner.               *)
LEMMA OneOwnerUp ==
    ASSUME Columns, NEW S \in SUBSET Nodes, NEW n \in Nodes \cup Accounts, NEW x \in Climb(n, S)
    PROVE  x \in Nodes \cup Accounts /\ OwnerOf(x) = OwnerOf(n)
<1> DEFINE C == {y \in Nodes \cup Accounts : OwnerOf(y) = OwnerOf(n)}
<1>1. S \in SUBSET Ids /\ n \in Ids \cup Users /\ n \in C
  BY Kinds
<1>2. ASSUME NEW y \in C \cap S PROVE parent[y] \in C
  <2>1. y \in Nodes /\ OwnerOf(y) = owner[y] /\ OwnerOf(parent[y]) = owner[y]
        /\ parent[y] \in Nodes \cup Accounts
    BY Kinds DEF Columns, OwnerOf
  <2> QED
    BY <2>1
<1> HIDE DEF C
<1>3. Climb(n, S) \subseteq C
  BY <1>1, <1>2, ClimbIs
<1> QED
  BY <1>3 DEF C

(* The way up from what is live is live.                                   *)
LEMMA LiveUp ==
    ASSUME Columns, LiveBelowLive, NEW n \in Live \cup Users
    PROVE  Climb(n, Live) \subseteq Live \cup Users
<1> DEFINE C == Live \cup Users
<1>1. Live \in SUBSET Ids /\ n \in Ids \cup Users /\ n \in C
  BY Kinds
<1>2. \A x \in C \cap Live : parent[x] \in C
  BY DEF LiveBelowLive
<1> HIDE DEF C
<1>3. Climb(n, Live) \subseteq C
  BY <1>1, <1>2, ClimbIs
<1> QED
  BY <1>3 DEF C

(* What a path leads to from t is live and of t's owner.                   *)
LEMMA UnderIs ==
    ASSUME Columns, LiveBelowLive, NEW t \in Live \cup Accounts, NEW m \in Under(t)
    PROVE  m \in Live \cup {t} /\ OwnerOf(m) = OwnerOf(t)
<1>1. CASE m = t
  BY <1>1
<1>2. CASE m \in Live /\ t \in Climb(m, Live)
  BY <1>2, Kinds, OneOwnerUp
<1> QED
  BY <1>1, <1>2 DEF Under

(* Every place a path leads to is live, or the root of the caller.         *)
LEMMA PlacesAre ==
    ASSUME Columns, LiveBelowLive, NEW u \in Accounts, NEW p \in Places(u)
    PROVE  p.node \in Live \cup {u}
<1>1. CASE \E n \in Under(u) : p.node = n
  BY <1>1, UnderIs
<1>2. ASSUME NEW g \in Mounts(u), NEW n \in Under(g.node), p.node = n PROVE p.node \in Live
  <2>1. g.node \in Live
    BY DEF Mounts
  <2> QED
    BY <1>2, <2>1, UnderIs
<1>3. \/ \E n \in Under(u) : p = [node |-> n, writable |-> TRUE, at_mount |-> FALSE]
      \/ \E g \in Mounts(u) : \E n \in Under(g.node) :
            p = [node |-> n, writable |-> g.access = "write", at_mount |-> n = g.node]
  BY DEF Places
<1> QED
  BY <1>1, <1>2, <1>3

(* The directories and nodes a request finds are live, or its own root.    *)
LEMMA FoundAre ==
    ASSUME Columns, LiveBelowLive, NEW u \in Accounts
    PROVE  /\ DirectoriesForWrite(u) \subseteq Live \cup {u}
           /\ Movable(u) \subseteq Live /\ Reached(u) \subseteq Live
           /\ \A n \in Own(u) : n \in Live /\ owner[n] = u
<1>1. DirectoriesForWrite(u) \subseteq Live \cup {u}
  BY PlacesAre DEF DirectoriesForWrite
<1>2. Movable(u) \subseteq Live
  BY PlacesAre, Kinds DEF Movable
<1>3. Reached(u) \subseteq Live
  BY PlacesAre DEF Reached
<1>4. \A n \in Own(u) : n \in Live /\ owner[n] = u
  BY UnderIs, Kinds DEF Own, OwnerOf
<1> QED
  BY <1>1, <1>2, <1>3, <1>4

(* Nothing of the tree changes: it stays as it is.                         *)
LEMMA TreeUnchanged ==
    ASSUME Columns, TrashShape, UNCHANGED treeVars, email' \in [Users -> Addresses \cup {None}],
           Accounts \subseteq Accounts'
    PROVE  /\ Columns' /\ TrashShape' /\ Nodes' = Nodes /\ Live' = Live
           /\ Trashed' = Trashed
<1>1. owner' = owner /\ parent' = parent /\ trash_root' = trash_root
  BY DEF treeVars
<1>2. Nodes' = Nodes /\ Live' = Live /\ Trashed' = Trashed
  BY <1>1 DEF Nodes, Live, Trashed
<1>3. Columns'
  BY <1>1, <1>2 DEF Columns, OwnerOf
<1>4. LiveBelowLive' /\ BatchesHaveRoots' /\ BatchesHang'
  BY <1>1, <1>2 DEF TrashShape, LiveBelowLive, BatchesHaveRoots, BatchesHang, Hanging
<1>5. BatchesEnd'
  BY <1>1, <1>2 DEF TrashShape, BatchesEnd, Hanging
<1> QED
  BY <1>2, <1>3, <1>4, <1>5 DEF TrashShape

(* A request that has read nothing.                                        *)
LEMMA IdleHolds == Idle \in Op /\ Idle.at = "idle" /\ Idle.node = None /\ Idle.dir = None
BY DEF Idle, Op

(* A request that looks has what it read.                                  *)
LEMMA LookKeeps ==
    ASSUME TreeInv, NEW what \in Op, Look(what), Holds(what)
    PROVE  TreeInv'
<1>1. UNCHANGED <<email, owner, parent, trash_root>> /\ op' = what
  BY DEF Look, treeVars
<1>2. Columns' /\ TrashShape' /\ Nodes' = Nodes /\ Live' = Live /\ Accounts' = Accounts
  <2>1. Accounts' = Accounts
    BY <1>1 DEF Accounts
  <2> QED
    BY <1>1, <2>1, TreeUnchanged DEF TreeInv, Columns, treeVars
<1>3. StillSo'
  BY <1>1, <1>2 DEF StillSo, Holds, Exists, OwnerOf
<1> QED
  BY <1>2, <1>3 DEF TreeInv

(* What a request reads of the tree is so when it reads it.                *)
LEMMA TreeLook ==
    ASSUME TreeInv, NEW u \in Accounts,
           \/ \E kind \in {"folder", "file"} : LookMake(u, kind)
           \/ LookMove(u) \/ LookCopy(u) \/ LookSend(u)
    PROVE  TreeInv'
<1>0. Columns /\ LiveBelowLive
  BY DEF TreeInv, TrashShape
<1> USE <1>0, FoundAre, Kinds
<1>a. \A p \in Live \cup Accounts : OwnerOf(p) \in Users /\ p \in Ids \cup Users
  BY DEF OwnerOf, Columns
<1>1. ASSUME NEW kind \in {"folder", "file"}, LookMake(u, kind) PROVE TreeInv'
  <2>1. PICK p \in DirectoriesForWrite(u) :
            Look([at |-> kind, node |-> None, dir |-> p, owner |-> OwnerOf(p)])
    BY <1>1 DEF LookMake
  <2>2. p \in Live \cup Accounts /\ OwnerOf(p) \in Users
    BY <1>a, <2>1
  <2> DEFINE what == [at |-> kind, node |-> None, dir |-> p, owner |-> OwnerOf(p)]
  <2>3. what \in Op
    BY <2>2 DEF Op
  <2>4. Holds(what)
    BY <2>2 DEF Holds
  <2> HIDE DEF what
  <2> QED
    BY <2>1, <2>3, <2>4, LookKeeps DEF what
<1>2. ASSUME LookMove(u) PROVE TreeInv'
  <2>1. PICK n \in Movable(u), p \in DirectoriesForWrite(u) : SameOwner(n, p) /\
            Look([at |-> "move", node |-> n, dir |-> p, owner |-> OwnerOf(n)])
    BY <1>2 DEF LookMove
  <2>2. n \in Live /\ p \in Live \cup Accounts /\ OwnerOf(n) \in Users
    BY <1>a, <2>1
  <2> DEFINE what == [at |-> "move", node |-> n, dir |-> p, owner |-> OwnerOf(n)]
  <2>3. what \in Op
    BY <2>2 DEF Op
  <2>4. OwnerOf(p) = owner[n]
    BY <2>1, <2>2 DEF SameOwner, OwnerOf
  <2>5. Holds(what)
    BY <2>2, <2>4 DEF Holds
  <2> HIDE DEF what
  <2> QED
    BY <2>1, <2>3, <2>5, LookKeeps DEF what
<1>3. ASSUME LookCopy(u) PROVE TreeInv'
  <2>1. PICK n \in Reached(u), p \in DirectoriesForWrite(u) :
            Look([at |-> "copy", node |-> n, dir |-> p, owner |-> OwnerOf(p)])
    BY <1>3 DEF LookCopy
  <2>2. n \in Live /\ p \in Live \cup Accounts /\ OwnerOf(p) \in Users
    BY <1>a, <2>1
  <2> DEFINE what == [at |-> "copy", node |-> n, dir |-> p, owner |-> OwnerOf(p)]
  <2>3. what \in Op
    BY <2>2 DEF Op
  <2>4. Holds(what)
    BY <2>2 DEF Holds
  <2> HIDE DEF what
  <2> QED
    BY <2>1, <2>3, <2>4, LookKeeps DEF what
<1>4. ASSUME LookSend(u) PROVE TreeInv'
  <2>1. PICK n \in Movable(u) :
            Look([at |-> "send", node |-> n, dir |-> None, owner |-> OwnerOf(n)])
    BY <1>4 DEF LookSend
  <2>2. n \in Live /\ OwnerOf(n) \in Users /\ OwnerOf(n) = owner[n]
    BY <1>a, <2>1 DEF OwnerOf
  <2> DEFINE what == [at |-> "send", node |-> n, dir |-> None, owner |-> OwnerOf(n)]
  <2>3. what \in Op
    BY <2>2 DEF Op
  <2>4. Holds(what)
    BY <2>2 DEF Holds
  <2> HIDE DEF what
  <2> QED
    BY <2>1, <2>3, <2>4, LookKeeps DEF what
<1> QED
  BY <1>1, <1>2, <1>3, <1>4

(* A request that is done remembers nothing.                               *)
LEMMA DoneHolds ==
    ASSUME op' = Idle
    PROVE  StillSo'
BY IdleHolds DEF StillSo, Holds

-----------------------------------------------------------------------------
(* What requests write *)

(* New rows, each in another one or in a live directory of the owner they  *)
(* get.                                                                    *)
LEMMA AddedKeeps ==
    ASSUME Columns, TrashShape, NEW new \in SUBSET (Ids \ Nodes), NEW w \in Accounts,
           owner' = [n \in Ids |-> IF n \in new THEN w ELSE owner[n]],
           parent' \in [Ids -> Ids \cup Users \cup {None}],
           \A n \in Ids \ new : parent'[n] = parent[n],
           \A n \in new : \/ parent'[n] \in new
                          \/ parent'[n] \in Live \cup Accounts /\ OwnerOf(parent'[n]) = w,
           trash_root' = trash_root, email' = email
    PROVE  /\ Columns' /\ TrashShape' /\ Accounts' = Accounts
           /\ Nodes' = Nodes \cup new /\ Live' = Live \cup new /\ Trashed' = Trashed
<1> USE Kinds
<1>1. Accounts' = Accounts
  BY DEF Accounts
<1>2. Nodes' = Nodes \cup new
  BY DEF Nodes
<1>3. \A n \in new : trash_root[n] = None
  BY DEF Columns
<1>4. Live' = Live \cup new
  BY <1>2, <1>3 DEF Live
<1>5. Trashed' = Trashed
  BY <1>2, <1>4 DEF Trashed
<1>6. Columns'
  <2>1. owner' \in [Ids -> Users \cup {None}]
    BY DEF Columns
  <2>2. ASSUME NEW n \in Ids \ Nodes' PROVE parent'[n] = None /\ trash_root'[n] = None
    BY <1>2, <2>2 DEF Columns
  <2>3. ASSUME NEW n \in Nodes'
        PROVE  /\ owner'[n] \in Accounts' /\ parent'[n] \in Nodes' \cup Accounts'
               /\ OwnerOf(parent[n])' = owner'[n]
    <3>1. CASE n \in new
      BY <1>1, <1>2, <3>1 DEF OwnerOf
    <3>2. CASE n \in Nodes \ new
      BY <1>1, <1>2, <3>2 DEF Columns, OwnerOf
    <3> QED
      BY <1>2, <2>3, <3>1, <3>2
  <2> QED
    BY <2>1, <2>2, <2>3 DEF Columns
<1>7. LiveBelowLive'
  BY <1>4 DEF TrashShape, LiveBelowLive
<1>8. \A m \in Trashed : m \notin new /\ parent'[m] = parent[m] /\ owner'[m] = owner[m]
  OBVIOUS
<1>9. BatchesHaveRoots'
  BY <1>5, <1>8 DEF TrashShape, BatchesHaveRoots
<1>10. Hanging' = Hanging /\ Hanging \subseteq Trashed
  BY <1>5 DEF Hanging
<1>11. BatchesHang'
  BY <1>5, <1>8, <1>10 DEF TrashShape, BatchesHang
<1>12. BatchesEnd'
  BY <1>8, <1>10 DEF TrashShape, BatchesEnd
<1> QED
  BY <1>1, <1>2, <1>4, <1>5, <1>6, <1>7, <1>9, <1>11, <1>12 DEF TrashShape

(* insert_directory, and put_file where nothing was.                       *)
LEMMA TreeMake ==
    ASSUME TreeInv, NEW kind \in {"folder", "file"}, NEW S \in SUBSET Ids, NEW size,
           Make(kind, S, size)
    PROVE  /\ TreeInv' /\ op.owner \in Accounts
           /\ \E n \in Fresh(S) :
                 /\ Nodes' = Nodes \cup {n} /\ Live' = Live \cup {n}
                 /\ owner' = [m \in Ids |-> IF m \in {n} THEN op.owner ELSE owner[m]]
<1>0. Columns /\ TrashShape /\ StillSo
  BY DEF TreeInv
<1>1. PICK n \in Fresh(S) : /\ owner' = [owner EXCEPT ![n] = op.owner]
                            /\ parent' = [parent EXCEPT ![n] = op.dir]
  BY DEF Make
<1>2. n \in Ids \ Nodes /\ op.owner \in Accounts /\ Exists(op.dir)
  BY <1>1 DEF Make, Fresh
<1>3. OwnerOf(op.dir) = op.owner /\ op.dir \in Live \cup Accounts
  BY <1>0, <1>2, Kinds DEF Make, StillSo, Holds, Exists
<1> DEFINE new == {n}
<1>4. /\ owner' = [m \in Ids |-> IF m \in new THEN op.owner ELSE owner[m]]
      /\ parent' \in [Ids -> Ids \cup Users \cup {None}]
      /\ \A m \in Ids \ new : parent'[m] = parent[m]
      /\ parent'[n] = op.dir
  <2>1. owner \in [Ids -> Users \cup {None}] /\ parent \in [Ids -> Ids \cup Users \cup {None}]
    BY <1>0 DEF Columns
  <2>2. op.dir \in Ids \cup Users
    BY <1>0, <1>3, Kinds
  <2>3. owner' = [m \in Ids |-> IF m = n THEN op.owner ELSE owner[m]]
    BY <1>1, <1>2, <2>1
  <2> QED
    BY <1>1, <1>2, <2>1, <2>2, <2>3
<1>5. Columns' /\ TrashShape' /\ Nodes' = Nodes \cup new /\ Live' = Live \cup new
  <2>1. new \in SUBSET (Ids \ Nodes) /\ trash_root' = trash_root /\ email' = email
    BY <1>2 DEF Make
  <2>2. \A m \in new : \/ parent'[m] \in new
                       \/ parent'[m] \in Live \cup Accounts /\ OwnerOf(parent'[m]) = op.owner
    BY <1>3, <1>4
  <2> HIDE DEF new
  <2> QED
    BY <1>0, <1>2, <1>4, <2>1, <2>2, AddedKeeps
<1> QED
  BY <1>1, <1>2, <1>4, <1>5, DoneHolds DEF TreeInv, Make

(* db::rename: what a request moves and where are of one owner still.      *)
LEMMA TreeMove ==
    ASSUME TreeInv, Move
    PROVE  TreeInv' /\ Nodes' = Nodes /\ Live' = Live
<1> DEFINE n == op.node
           p == op.dir
<1> USE Kinds
<1>0. Columns /\ TrashShape /\ StillSo
  BY DEF TreeInv
<1>1. /\ n \in Live /\ p \in Live \cup Accounts /\ OwnerOf(p) = owner[n] /\ n \in Ids
      /\ parent' = [parent EXCEPT ![n] = p]
      /\ UNCHANGED <<email, owner, trash_root>> /\ op' = Idle
  BY <1>0 DEF Move, StillSo, Holds, Exists
<1> HIDE DEF n, p
<1>2. Nodes' = Nodes /\ Live' = Live /\ Trashed' = Trashed /\ Accounts' = Accounts
  BY <1>1 DEF Nodes, Live, Trashed, Accounts
<1>3. Columns'
  BY <1>0, <1>1, <1>2 DEF Columns, OwnerOf
<1>4. LiveBelowLive'
  BY <1>0, <1>1, <1>2 DEF Columns, TrashShape, LiveBelowLive
<1>5. \A m \in Trashed : parent'[m] = parent[m]
  BY <1>0, <1>1 DEF Columns
<1>6. BatchesHaveRoots'
  BY <1>0, <1>1, <1>2 DEF TrashShape, BatchesHaveRoots
<1>7. Hanging' = Hanging /\ Hanging \subseteq Trashed
  BY <1>1, <1>2 DEF Hanging
<1>8. BatchesHang'
  BY <1>0, <1>1, <1>2, <1>5, <1>7 DEF TrashShape, BatchesHang
<1>9. BatchesEnd'
  BY <1>0, <1>5, <1>7 DEF TrashShape, BatchesEnd
<1> QED
  BY <1>1, <1>2, <1>3, <1>4, <1>6, <1>8, <1>9, DoneHolds DEF TreeInv, TrashShape

(* What trash::send marks: live nodes of the owner of the one that was     *)
(* read, which is live itself if there are any.                            *)
LEMMA MarkedAre ==
    ASSUME TreeInv, op.at = "send", NEW m \in Under(op.node) \cap Live
    PROVE  /\ op.node \in Live /\ owner[m] = owner[op.node]
           /\ op.node \in Climb(m, Live)
<1> USE Kinds
<1>0. Columns /\ LiveBelowLive /\ op.node \in Ids
  BY DEF TreeInv, TrashShape, StillSo, Holds
<1>1. op.node \in Climb(m, Live)
  BY <1>0, ClimbIs DEF Under
<1>2. op.node \in Live
  BY <1>0, <1>1, LiveUp
<1> QED
  BY <1>0, <1>1, <1>2, OneOwnerUp DEF OwnerOf

(* trash::send: everything live below the node goes into one batch.        *)
LEMMA TreeSend ==
    ASSUME TreeInv, Send
    PROVE  TreeInv' /\ Nodes' = Nodes /\ Live' = Live \ (Under(op.node) \cap Live)
<1> DEFINE n == op.node
           marked == Under(n) \cap Live
<1> USE Kinds
<1>0. Columns /\ TrashShape /\ StillSo /\ op.at = "send" /\ n \in Ids
  BY DEF TreeInv, Send, StillSo, Holds
<1>1. /\ trash_root' = [m \in Ids |-> IF m \in marked THEN n ELSE trash_root[m]]
      /\ UNCHANGED <<email, owner, parent>> /\ op' = Idle
  BY DEF Send
<1>2. \A m \in marked : n \in Live /\ owner[m] = owner[n] /\ n \in Climb(m, Live)
  BY <1>0, MarkedAre
<1>3. \A m \in Live : parent[m] \in marked => m \in marked
  <2> SUFFICES ASSUME NEW m \in Live, parent[m] \in marked PROVE n \in Climb(m, Live)
    BY DEF Under
  <2>1. Climb(m, Live) = {m} \cup Climb(parent[m], Live)
    BY <1>0, ClimbSteps
  <2> QED
    BY <1>2, <2>1
<1>4. n \in Live => n \in marked
  BY DEF Under
<1>5. marked \subseteq Live
  OBVIOUS
<1> HIDE DEF n, marked
<1>6. Nodes' = Nodes /\ Accounts' = Accounts
  BY <1>1 DEF Nodes, Accounts
<1>7. Live' = Live \ marked
  BY <1>0, <1>1, <1>5, <1>6 DEF Live
<1>8. Trashed' = Trashed \cup marked
  BY <1>0, <1>5, <1>6, <1>7 DEF Trashed
<1>9. Columns'
  BY <1>0, <1>1, <1>2, <1>5, <1>6 DEF Columns, OwnerOf
<1>10. LiveBelowLive'
  BY <1>0, <1>1, <1>3, <1>7 DEF TrashShape, LiveBelowLive
<1>11. \A m \in Trashed : trash_root'[m] = trash_root[m] /\ m \notin marked
  BY <1>0, <1>1, <1>5
<1>12. \A m \in marked : trash_root'[m] = n /\ n \in marked
  BY <1>0, <1>1, <1>2, <1>4, <1>5
<1>13. BatchesHaveRoots'
  BY <1>0, <1>1, <1>2, <1>8, <1>11, <1>12 DEF TrashShape, BatchesHaveRoots
<1>14. Hanging' = Hanging \cup (marked \ {n})
  BY <1>8, <1>11, <1>12 DEF Hanging
<1>15. ASSUME NEW m \in marked, m # n PROVE parent[m] \in marked
  <2>1. Climb(m, Live) = {m} \cup Climb(parent[m], Live) /\ m \in Live
    BY <1>0, <1>5, ClimbSteps
  <2>2. n \in Climb(parent[m], Live)
    BY <1>2, <1>15, <2>1
  <2>3. parent[m] \in Live
    <3>1. parent[m] \in Live \cup Users
      BY <1>0, <2>1 DEF TrashShape, LiveBelowLive
    <3>2. CASE parent[m] \in Users
      <4>1. Climb(parent[m], Live) = {parent[m]}
        BY <1>0, <3>2, ClimbSteps
      <4> QED
        BY <1>0, <2>2, <3>2, <4>1
    <3> QED
      BY <3>1, <3>2
  <2> QED
    BY <2>2, <2>3 DEF Under, marked
<1>16. BatchesHang'
  BY <1>0, <1>1, <1>8, <1>11, <1>12, <1>14, <1>15 DEF TrashShape, BatchesHang, Hanging
<1>17. BatchesEnd'
  <2> SUFFICES ASSUME NEW C \in SUBSET (Hanging \cup (marked \ {n})), C # {},
                      \A x \in C : parent[x] \in C
               PROVE  FALSE
    BY <1>1, <1>14 DEF BatchesEnd
  <2>1. Hanging \subseteq Trashed
    BY DEF Hanging
  <2>2. C \cap Hanging = {}
    <3>1. \A x \in C \cap Hanging : parent[x] \in C \cap Hanging
      BY <1>0, <1>11, <2>1 DEF TrashShape, BatchesHang
    <3> QED
      BY <1>0, <3>1 DEF TrashShape, BatchesEnd
  <2>3. PICK x \in C : x \in marked
    BY <2>2
  <2>4. Climb(x, Live) \subseteq C
    BY <1>0, <1>5, <2>3, ClimbIs
  <2> QED
    BY <1>2, <2>2, <2>3, <2>4
<1> QED
  BY <1>1, <1>6, <1>7, <1>9, <1>10, <1>13, <1>16, <1>17, DoneHolds
  DEF TreeInv, TrashShape, marked, n

(* What is below op.node, and not op.node itself, is in something that is  *)
(* copied too.                                                             *)
LEMMA CopiedBelow ==
    ASSUME Columns, LiveBelowLive, NEW n \in Ids, NEW m \in Live \ {n}, n \in Climb(m, Live)
    PROVE  parent[m] = n \/ (parent[m] \in Live /\ n \in Climb(parent[m], Live))
<1> USE Kinds
<1>1. Climb(m, Live) = {m} \cup Climb(parent[m], Live)
  BY ClimbSteps
<1>2. parent[m] \in Live \cup Users
  BY DEF LiveBelowLive
<1>3. CASE parent[m] \in Users
  <2>1. Climb(parent[m], Live) = {parent[m]}
    BY <1>3, ClimbSteps
  <2> QED
    BY <1>1, <2>1
<1> QED
  BY <1>1, <1>2, <1>3

(* The rows of copy_tree: new ones, one for each row that is copied, a     *)
(* file for a file.                                                        *)
LEMMA CopyRows ==
    ASSUME TreeInv, Copy
    PROVE  LET copied == {op.node} \cup {m \in Live : op.node \in Climb(m, Live)}
           IN  \E new \in [copied -> Ids \ Nodes] :
                  /\ \A m, n \in copied : new[m] = new[n] => m = n
                  /\ \A m \in copied : new[m] \in Folders <=> m \in Folders
                  /\ owner' = [n \in Ids |-> IF n \in {new[m] : m \in copied}
                                             THEN op.owner ELSE owner[n]]
                  /\ parent' \in [Ids -> Ids \cup Users \cup {None}]
                  /\ \A n \in Ids : (\A m \in copied : new[m] # n) => parent'[n] = parent[n]
                  /\ \A m \in copied :
                        \/ parent'[new[m]] = op.dir
                        \/ \E k \in copied : parent'[new[m]] = new[k]
<1> DEFINE copied == {op.node} \cup {m \in Live : op.node \in Climb(m, Live)}
<1> USE Kinds
<1>0. Columns /\ LiveBelowLive /\ op.node \in Ids /\ op.dir \in Ids \cup Users
  BY DEF TreeInv, TrashShape, StillSo, Holds, Copy, Exists
<1>1. PICK new \in [copied -> Fresh(Ids)] :
          /\ \A m, n \in copied : new[m] = new[n] => m = n
          /\ \A m \in copied : new[m] \in Folders <=> m \in Folders
          /\ LET copies == {new[m] : m \in copied}
                 source(c) == CHOOSE m \in copied : new[m] = c
             IN  /\ owner' = [n \in Ids |-> IF n \in copies THEN op.owner ELSE owner[n]]
                 /\ parent' = [n \in Ids |->
                        IF n \notin copies THEN parent[n]
                        ELSE IF source(n) = op.node THEN op.dir
                        ELSE new[parent[source(n)]]]
  BY DEF Copy
<1> DEFINE copies == {new[m] : m \in copied}
           source(c) == CHOOSE m \in copied : new[m] = c
<1>2. \A m \in copied : m = op.node \/ parent[m] \in copied
  <2> SUFFICES ASSUME NEW m \in Live \ {op.node}, op.node \in Climb(m, Live)
               PROVE  parent[m] \in copied
    OBVIOUS
  <2>1. parent[m] = op.node \/ (parent[m] \in Live /\ op.node \in Climb(parent[m], Live))
    BY <1>0, CopiedBelow
  <2> QED
    BY <2>1
<1>3. Fresh(Ids) \subseteq Ids \ Nodes
  BY DEF Fresh
<1>4. new \in [copied -> Ids \ Nodes]
  BY <1>1, <1>3
<1> HIDE DEF copied
<1>5. ASSUME NEW m \in copied PROVE source(new[m]) = m
  <2>1. \E k \in copied : new[k] = new[m]
    OBVIOUS
  <2>2. source(new[m]) \in copied /\ new[source(new[m])] = new[m]
    BY <2>1
  <2> QED
    BY <1>1, <2>2
<1>6. parent' = [n \in Ids |-> IF n \notin copies THEN parent[n]
                               ELSE IF source(n) = op.node THEN op.dir
                               ELSE new[parent[source(n)]]]
  BY <1>1
<1>7. \A m \in copied : new[m] \in Ids /\ new[m] \in copies
  BY <1>4
<1> HIDE DEF copies, source
<1>8. ASSUME NEW m \in copied
      PROVE  parent'[new[m]] = IF m = op.node THEN op.dir ELSE new[parent[m]]
  BY <1>5, <1>6, <1>7
<1>9. \A m \in copied : \/ parent'[new[m]] = op.dir
                        \/ \E k \in copied : parent'[new[m]] = new[k]
  BY <1>2, <1>8
<1>10. ASSUME NEW n \in Ids PROVE parent'[n] \in Ids \cup Users \cup {None}
  <2>1. CASE n \notin copies
    BY <1>0, <1>6, <2>1 DEF Columns
  <2>2. CASE n \in copies
    <3>1. PICK m \in copied : n = new[m]
      BY <2>2 DEF copies
    <3> QED
      BY <1>0, <1>7, <1>9, <3>1
  <2> QED
    BY <2>1, <2>2
<1>11. \A n \in Ids : (\A m \in copied : new[m] # n) => parent'[n] = parent[n]
  BY <1>6 DEF copies
<1>12. parent' \in [Ids -> Ids \cup Users \cup {None}]
  BY <1>6, <1>10
<1>13. owner' = [n \in Ids |-> IF n \in {new[m] : m \in copied} THEN op.owner ELSE owner[n]]
  BY <1>1 DEF copies
<1>14. \E f \in [copied -> Ids \ Nodes] :
          /\ \A m, n \in copied : f[m] = f[n] => m = n
          /\ \A m \in copied : f[m] \in Folders <=> m \in Folders
          /\ owner' = [n \in Ids |-> IF n \in {f[m] : m \in copied} THEN op.owner ELSE owner[n]]
          /\ parent' \in [Ids -> Ids \cup Users \cup {None}]
          /\ \A n \in Ids : (\A m \in copied : f[m] # n) => parent'[n] = parent[n]
          /\ \A m \in copied : \/ parent'[f[m]] = op.dir
                               \/ \E k \in copied : parent'[f[m]] = f[k]
  BY <1>1, <1>4, <1>9, <1>11, <1>12, <1>13
<1> QED
  BY <1>14 DEF copied

(* copy_tree: the copy is of one owner, the one it is charged to.          *)
LEMMA TreeCopy ==
    ASSUME TreeInv, Copy
    PROVE  LET copied == {op.node} \cup {m \in Live : op.node \in Climb(m, Live)}
           IN  /\ TreeInv' /\ op.owner \in Accounts
               /\ \E f \in [copied -> Ids \ Nodes] :
                     /\ \A m, n \in copied : f[m] = f[n] => m = n
                     /\ \A m \in copied : f[m] \in Folders <=> m \in Folders
                     /\ Nodes' = Nodes \cup {f[m] : m \in copied}
                     /\ Live' = Live \cup {f[m] : m \in copied}
                     /\ owner' = [n \in Ids |-> IF n \in {f[m] : m \in copied} THEN op.owner
                                                ELSE owner[n]]
<1> DEFINE copied == {op.node} \cup {m \in Live : op.node \in Climb(m, Live)}
<1>0. Columns /\ TrashShape /\ op.owner \in Accounts
      /\ trash_root' = trash_root /\ email' = email /\ op' = Idle
  BY DEF TreeInv, Copy
<1>1. OwnerOf(op.dir) = op.owner /\ op.dir \in Live \cup Accounts
  BY <1>0, Kinds DEF TreeInv, Copy, StillSo, Holds, Exists
<1>2. PICK f \in [copied -> Ids \ Nodes] :
          /\ \A m, n \in copied : f[m] = f[n] => m = n
          /\ \A m \in copied : f[m] \in Folders <=> m \in Folders
          /\ owner' = [n \in Ids |-> IF n \in {f[m] : m \in copied} THEN op.owner ELSE owner[n]]
          /\ parent' \in [Ids -> Ids \cup Users \cup {None}]
          /\ \A n \in Ids : (\A m \in copied : f[m] # n) => parent'[n] = parent[n]
          /\ \A m \in copied : \/ parent'[f[m]] = op.dir
                               \/ \E k \in copied : parent'[f[m]] = f[k]
  BY CopyRows
<1> HIDE DEF copied
<1> DEFINE new == {f[m] : m \in copied}
<1>3. /\ new \in SUBSET (Ids \ Nodes)
      /\ owner' = [n \in Ids |-> IF n \in new THEN op.owner ELSE owner[n]]
      /\ \A n \in Ids \ new : parent'[n] = parent[n]
  BY <1>2
<1>4. \A n \in new : \/ parent'[n] \in new
                     \/ parent'[n] \in Live \cup Accounts /\ OwnerOf(parent'[n]) = op.owner
  BY <1>1, <1>2
<1> HIDE DEF new
<1>5. Columns' /\ TrashShape' /\ Nodes' = Nodes \cup new /\ Live' = Live \cup new
  BY <1>0, <1>2, <1>3, <1>4, AddedKeeps
<1>6. TreeInv'
  BY <1>0, <1>5, DoneHolds DEF TreeInv
<1>7. \E g \in [copied -> Ids \ Nodes] :
          /\ \A m, n \in copied : g[m] = g[n] => m = n
          /\ \A m \in copied : g[m] \in Folders <=> m \in Folders
          /\ Nodes' = Nodes \cup {g[m] : m \in copied}
          /\ Live' = Live \cup {g[m] : m \in copied}
          /\ owner' = [n \in Ids |-> IF n \in {g[m] : m \in copied} THEN op.owner ELSE owner[n]]
  BY <1>2, <1>5 DEF new
<1> QED
  BY <1>0, <1>6, <1>7 DEF copied

-----------------------------------------------------------------------------
(* The trash *)

(* A batch leads up to its root.                                           *)
LEMMA BatchReaches ==
    ASSUME Columns, TrashShape, NEW m \in Trashed
    PROVE  trash_root[m] \in Climb(m, Trashed)
<1> USE Kinds
<1> SUFFICES ASSUME trash_root[m] \notin Climb(m, Trashed) PROVE FALSE
  OBVIOUS
<1> DEFINE s == trash_root[m]
           A == Climb(m, Trashed)
           C == {x \in A \cap Trashed : trash_root[x] = s}
<1>1. m \in A /\ A \subseteq Ids \cup Users
      /\ \A x \in A \cap Trashed : parent[x] \in Ids \cup Users => parent[x] \in A
  BY ClimbIs
<1> HIDE DEF A
<1>2. s \notin A /\ m \in C
  BY <1>1 DEF A
<1>3. C \in SUBSET Hanging
  BY <1>2 DEF Hanging
<1>4. \A x \in C : parent[x] \in C
  BY <1>1, <1>3 DEF TrashShape, BatchesHang
<1> QED
  BY <1>2, <1>3, <1>4 DEF TrashShape, BatchesEnd

(* The heads that restore finds for what is left: at most one, which is in *)
(* the same batch; a root that is left stays one.                          *)
LEMMA HeadsAre ==
    ASSUME Columns, TrashShape, NEW back \in SUBSET Trashed, NEW m \in Trashed \ back,
           \A x \in Trashed \cap back : trash_root[x] \in Trashed \ back =>
               Climb(x, Trashed) \cap Trashed \subseteq back
    PROVE  LET left == Trashed \ back
               heads == {s \in Climb(m, left) \cap left :
                             trash_root[s] = trash_root[m] /\ parent[s] \in back}
           IN  /\ \A a, b \in heads : a = b
               /\ trash_root[m] = m => heads \subseteq {m}
<1> USE Kinds
<1> DEFINE left == Trashed \ back
           heads == {s \in Climb(m, left) \cap left :
                         trash_root[s] = trash_root[m] /\ parent[s] \in back}
<1>0. left \in SUBSET Ids
  OBVIOUS
<1>1. ASSUME NEW a \in heads, NEW b \in heads, b \in Climb(a, left) PROVE a = b
  <2>1. parent[a] \in Ids \cup Users /\ parent[a] \notin left /\ a \in left /\ a \in Ids
    OBVIOUS
  <2>2. Climb(a, left) = {a} \cup Climb(parent[a], left)
    BY <1>0, <2>1, ClimbSteps
  <2>3. Climb(parent[a], left) = {parent[a]}
    BY <1>0, <2>1, ClimbSteps
  <2> QED
    BY <1>1, <2>1, <2>2, <2>3
<1>2. ASSUME NEW a \in heads, NEW b \in heads PROVE a = b
  <2>1. b \in Climb(a, left) \/ a \in Climb(b, left)
    BY <1>0, ClimbInLine
  <2> QED
    BY <1>1, <2>1
<1>3. ASSUME trash_root[m] = m, NEW h \in heads, h # m PROVE FALSE
  <2>1. h \in Trashed /\ h \in Hanging /\ parent[h] \in back /\ trash_root[h] = m
    BY <1>3 DEF Hanging
  <2>2. parent[h] \in Trashed /\ trash_root[parent[h]] = m
    BY <2>1 DEF TrashShape, BatchesHang
  <2>3. m \in Climb(parent[h], Trashed)
    BY <2>2, BatchReaches
  <2> QED
    BY <2>1, <2>2, <2>3
<1> QED
  BY <1>2, <1>3

(* restore: the way up comes back, the batch comes back whole, and what is *)
(* left of the batches the way up was in falls into batches again.         *)
LEMMA TreeRestore ==
    ASSUME TreeInv, op = Idle, NEW u \in Accounts, NEW id \in TrashRoots(u), Restore(u, id)
    PROVE  LET above == Climb(parent[id], Trashed) \cap Trashed
               back == above \cup {m \in Trashed : trash_root[m] = id}
           IN  /\ TreeInv' /\ Nodes' = Nodes /\ Live' = Live \cup back
               /\ back \subseteq Trashed /\ \A m \in back : owner[m] = u
<1> DEFINE above == Climb(parent[id], Trashed) \cap Trashed
           back == above \cup {m \in Trashed : trash_root[m] = id}
           left == Trashed \ back
           heads(m) == {s \in Climb(m, left) \cap left :
                            trash_root[s] = trash_root[m] /\ parent[s] \in back}
<1> USE Kinds
<1>0. Columns /\ TrashShape /\ id \in Nodes /\ owner[id] = u /\ trash_root[id] = id
  BY DEF TreeInv, TrashRoots
<1>a. id \in Trashed /\ parent[id] \in Ids \cup Users /\ parent[id] \in Nodes \cup Accounts
  BY <1>0 DEF Columns
<1>1. /\ trash_root' = [m \in Ids |-> IF m \in back THEN None
                             ELSE IF m \in left /\ heads(m) # {} THEN CHOOSE s \in heads(m) : TRUE
                             ELSE trash_root[m]]
      /\ UNCHANGED <<email, owner, parent, op>>
  BY DEF Restore
<1>2. \A x \in above : Climb(x, Trashed) \cap Trashed \subseteq above
  BY <1>0, <1>a, ClimbOn
<1>3. \A x \in back : owner[x] = u
  <2>1. ASSUME NEW x \in above PROVE owner[x] = u
    <3>1. OwnerOf(x) = OwnerOf(parent[id])
      BY <1>0, <1>a, OneOwnerUp
    <3> QED
      BY <1>0, <3>1 DEF Columns, OwnerOf
  <2>2. ASSUME NEW x \in Trashed, trash_root[x] = id PROVE owner[x] = u
    BY <1>0, <2>2 DEF TrashShape, BatchesHaveRoots
  <2> QED
    BY <2>1, <2>2
<1>4. back \subseteq Trashed /\ left \subseteq Trashed /\ left \cap back = {}
      /\ left \in SUBSET Ids
  BY <1>0
<1>5. ASSUME NEW x \in Trashed \cap back, trash_root[x] \in Trashed \ back
      PROVE  Climb(x, Trashed) \cap Trashed \subseteq back
  <2>1. id \in back
    BY <1>0, <1>a
  <2>2. x \in above
    BY <1>5, <2>1
  <2> QED
    BY <1>2, <2>2
<1>6. ASSUME NEW m \in left
      PROVE  /\ \A a, b \in heads(m) : a = b
             /\ trash_root[m] = m => heads(m) \subseteq {m}
  <2>1. back \in SUBSET Trashed /\ m \in Trashed \ back
    BY <1>4
  <2> HIDE DEF back
  <2> QED
    BY <1>0, <1>5, <2>1, HeadsAre
<1>7. Nodes' = Nodes /\ Accounts' = Accounts
  BY <1>1 DEF Nodes, Accounts
<1>8. ASSUME NEW x \in above PROVE parent[x] \in above \/ parent[x] \in Live \cup Users
  <2>1. x \in Climb(parent[id], Trashed) /\ x \in Trashed
    OBVIOUS
  <2>2. parent[x] \in Climb(parent[id], Trashed)
    BY <1>0, <1>a, <2>1, ClimbIs
  <2> QED
    BY <1>0, <2>1, <2>2 DEF Columns
<1>9. parent[id] \in above \cup Live \cup Users
  BY <1>0, <1>a, ClimbIs
<1>10. ASSUME NEW x \in back PROVE parent[x] \in back \cup Live \cup Users
  <2>1. CASE x \in above \/ x = id
    BY <1>8, <1>9, <2>1
  <2>2. CASE x \in Trashed /\ trash_root[x] = id /\ x # id
    BY <1>0, <2>2 DEF TrashShape, BatchesHang, Hanging
  <2> QED
    BY <2>1, <2>2
<1> HIDE DEF above, back, left
<1>11. \A m \in left : \A h \in heads(m) :
           /\ h \in left /\ h \in Climb(m, left) /\ trash_root[h] = trash_root[m]
           /\ parent[h] \in back
  OBVIOUS
<1>12. ASSUME NEW m \in left, NEW h \in heads(m) PROVE trash_root'[m] = h
  <2>1. trash_root'[m] = CHOOSE s \in heads(m) : TRUE
    BY <1>1, <1>4
  <2>2. (CHOOSE s \in heads(m) : TRUE) \in heads(m)
    OBVIOUS
  <2> QED
    BY <1>6, <2>1, <2>2
<1>13. ASSUME NEW m \in left, heads(m) = {} PROVE trash_root'[m] = trash_root[m]
  BY <1>1, <1>4, <1>13
<1>14. \A m \in back : trash_root'[m] = None
  BY <1>0, <1>1, <1>4
<1>15. \A m \in Ids \ Trashed : trash_root'[m] = trash_root[m] /\ trash_root[m] = None
  BY <1>0, <1>1, <1>4
<1>16. \A m \in left : trash_root'[m] \in left \cup {trash_root[m]} /\ trash_root'[m] # None
  BY <1>0, <1>4, <1>11, <1>12, <1>13
<1>17. Live' = Live \cup back /\ Trashed' = left
  <2>1. Trashed = back \cup left
    BY <1>4 DEF left
  <2>2. \A n \in Nodes : trash_root'[n] = None <=> n \in Live \cup back
    BY <1>0, <1>4, <1>14, <1>15, <1>16, <2>1
  <2>3. Live' = Live \cup back
    BY <1>0, <1>4, <1>7, <2>2 DEF Live
  <2> QED
    BY <1>0, <1>4, <1>7, <2>1, <2>3 DEF Trashed
<1>18. trash_root' \in [Ids -> Ids \cup {None}]
  <2>1. \A n \in Ids : trash_root'[n] \in Ids \cup {None}
    <3>1. \A n \in Ids : trash_root[n] \in Ids \cup {None}
      BY <1>0 DEF Columns
    <3> QED
      BY <1>0, <1>4, <1>14, <1>15, <1>16, <3>1 DEF left
  <2> QED
    BY <1>1, <2>1
<1>19. Columns'
  <2>1. \A n \in Ids \ Nodes : trash_root'[n] = None
    BY <1>0, <1>15
  <2> QED
    BY <1>0, <1>1, <1>7, <1>18, <2>1 DEF Columns, OwnerOf
<1>20. LiveBelowLive'
  BY <1>0, <1>1, <1>10, <1>17 DEF TrashShape, LiveBelowLive
\* Members of a batch that keeps its root stay with it.
<1>21. ASSUME NEW m \in left, heads(m) = {}, trash_root[m] # m
       PROVE  /\ parent[m] \in left /\ heads(parent[m]) = {}
              /\ trash_root[parent[m]] = trash_root[m]
  <2>1. m \in Hanging
    BY <1>4, <1>21 DEF Hanging
  <2>2. parent[m] \in Trashed /\ trash_root[parent[m]] = trash_root[m]
    BY <1>0, <2>1 DEF TrashShape, BatchesHang
  <2>3. m \in Climb(m, left)
    BY <1>4, ClimbIs
  <2>4. parent[m] \in left
    BY <1>21, <2>2, <2>3 DEF left
  <2>5. Climb(m, left) = {m} \cup Climb(parent[m], left)
    BY <1>4, <2>4, ClimbSteps
  <2> QED
    BY <1>21, <2>2, <2>4, <2>5
<1>22. ASSUME NEW m \in left, heads(m) = {}
       PROVE  trash_root[m] \in left
  <2> SUFFICES ASSUME trash_root[m] \notin left PROVE FALSE
    OBVIOUS
  <2> DEFINE C == {x \in left : trash_root[x] = trash_root[m] /\ heads(x) = {}}
  <2>1. m \in C
    BY <1>22
  <2>2. \A x \in C : trash_root[x] # x
    OBVIOUS
  <2>3. C \in SUBSET Hanging
    BY <1>4, <2>2 DEF Hanging
  <2>4. \A x \in C : parent[x] \in C
    BY <1>21, <2>2
  <2> HIDE DEF C
  <2> QED
    BY <1>0, <2>1, <2>3, <2>4 DEF TrashShape, BatchesEnd
<1>23. ASSUME NEW s \in left, trash_root[s] = s PROVE trash_root'[s] = s
  <2>1. CASE heads(s) = {}
    BY <1>13, <1>23, <2>1
  <2>2. CASE heads(s) # {}
    <3>1. s \in heads(s)
      BY <1>6, <1>23, <2>2
    <3> QED
      BY <1>12, <3>1
  <2> QED
    BY <2>1, <2>2
<1>24. ASSUME NEW m \in left, NEW h \in heads(m)
       PROVE  /\ h \in heads(h) /\ trash_root'[h] = h
              /\ m # h => parent[m] \in left /\ trash_root'[parent[m]] = h
  <2>1. h \in left /\ h \in Climb(m, left) /\ trash_root[h] = trash_root[m]
        /\ parent[h] \in back
    BY <1>11
  <2>2. h \in Climb(h, left)
    BY <1>4, <2>1, ClimbIs
  <2>3. h \in heads(h)
    BY <2>1, <2>2
  <2>4. ASSUME m # h PROVE parent[m] \in left /\ trash_root'[parent[m]] = h
    <3>1. m \in Trashed /\ m \in Nodes /\ parent[m] \in Ids \cup Users
      BY <1>0, <1>4
    <3>2. Climb(m, left) = {m} \cup Climb(parent[m], left)
      BY <1>4, <3>1, ClimbSteps
    <3>3. h \in Climb(parent[m], left)
      BY <2>1, <2>4, <3>2
    <3>4. parent[m] \in left
      <4>1. CASE parent[m] \notin left
        <5>1. Climb(parent[m], left) = {parent[m]}
          BY <1>4, <3>1, <4>1, ClimbSteps
        <5> QED
          BY <2>1, <3>3, <4>1, <5>1
      <4> QED
        BY <4>1
    <3>5. trash_root[m] # m
      BY <1>6, <2>4
    <3>6. trash_root[parent[m]] = trash_root[m]
      BY <1>0, <3>1, <3>5 DEF TrashShape, BatchesHang, Hanging
    <3>7. h \in heads(parent[m])
      BY <2>1, <3>3, <3>6
    <3> QED
      BY <1>12, <3>4, <3>7
  <2> QED
    BY <1>12, <2>1, <2>3, <2>4
<1>25. BatchesHaveRoots'
  <2> SUFFICES ASSUME NEW m \in left
               PROVE  /\ trash_root'[m] \in left /\ trash_root'[trash_root'[m]] = trash_root'[m]
                      /\ owner[trash_root'[m]] = owner[m]
    BY <1>1, <1>17 DEF BatchesHaveRoots
  <2>0. /\ m \in Trashed /\ trash_root[m] \in Trashed
        /\ trash_root[trash_root[m]] = trash_root[m] /\ owner[trash_root[m]] = owner[m]
    BY <1>0, <1>4 DEF TrashShape, BatchesHaveRoots
  <2>1. CASE heads(m) = {}
    BY <1>13, <1>22, <1>23, <2>0, <2>1
  <2>2. ASSUME NEW h \in heads(m)
        PROVE  /\ trash_root'[m] \in left /\ trash_root'[trash_root'[m]] = trash_root'[m]
               /\ owner[trash_root'[m]] = owner[m]
    <3>1. trash_root'[m] = h /\ trash_root'[h] = h /\ h \in left /\ trash_root[h] = trash_root[m]
      BY <1>11, <1>12, <1>24
    <3>2. h \in Trashed
      BY <1>4, <3>1
    <3>3. owner[h] = owner[m]
      BY <1>0, <2>0, <3>1, <3>2 DEF TrashShape, BatchesHaveRoots
    <3> QED
      BY <3>1, <3>3
  <2> QED
    BY <2>1, <2>2
<1>26. BatchesHang'
  <2> SUFFICES ASSUME NEW m \in left, trash_root'[m] # m
               PROVE  parent[m] \in left /\ trash_root'[parent[m]] = trash_root'[m]
    BY <1>1, <1>17 DEF BatchesHang, Hanging
  <2>1. CASE heads(m) = {}
    BY <1>13, <1>21, <2>1
  <2>2. ASSUME NEW h \in heads(m)
        PROVE  parent[m] \in left /\ trash_root'[parent[m]] = trash_root'[m]
    BY <1>12, <1>24
  <2> QED
    BY <2>1, <2>2
<1>27. BatchesEnd'
  <2>1. Hanging' \subseteq Hanging
    <3> SUFFICES ASSUME NEW m \in left, trash_root'[m] # m PROVE trash_root[m] # m
      BY <1>4, <1>17 DEF Hanging
    <3> QED
      BY <1>23
  <2> QED
    BY <1>0, <1>1, <2>1 DEF TrashShape, BatchesEnd
<1>28. StillSo'
  BY <1>1, DoneHolds
<1> QED
  BY <1>3, <1>4, <1>7, <1>17, <1>19, <1>20, <1>25, <1>26, <1>27, <1>28
  DEF TreeInv, TrashShape, above, back

-----------------------------------------------------------------------------
(* Rows that go *)

(* Rows that go with all that refers to them leave the rest as it was, if  *)
(* the owners of the rest stay.                                            *)
LEMMA DeletedKeeps ==
    ASSUME Columns, TrashShape, NEW gone \in SUBSET Ids,
           \A m \in Nodes : parent[m] \in gone \/ trash_root[m] \in gone => m \in gone,
           owner' = Without(owner, gone), parent' = Without(parent, gone),
           trash_root' = Without(trash_root, gone),
           email' \in [Users -> Addresses \cup {None}],
           \A n \in Nodes \ gone : owner[n] \in Accounts'
    PROVE  /\ Columns' /\ TrashShape'
           /\ Nodes' = Nodes \ gone /\ Live' = Live \ gone /\ Trashed' = Trashed \ gone
<1> USE Kinds
<1>1. \A n \in Ids : /\ n \in gone => owner'[n] = None /\ parent'[n] = None /\ trash_root'[n] = None
                     /\ n \notin gone => /\ owner'[n] = owner[n] /\ parent'[n] = parent[n]
                                         /\ trash_root'[n] = trash_root[n]
  BY DEF Without
<1>2. Nodes' = Nodes \ gone
  BY <1>1 DEF Nodes
<1>3. Live' = Live \ gone
  BY <1>1, <1>2 DEF Live
<1>4. Trashed' = Trashed \ gone
  BY <1>2, <1>3 DEF Trashed
<1>5. Columns'
  <2>1. /\ owner' \in [Ids -> Users \cup {None}] /\ trash_root' \in [Ids -> Ids \cup {None}]
        /\ parent' \in [Ids -> Ids \cup Users \cup {None}]
    BY DEF Columns, Without
  <2>2. \A n \in Ids \ Nodes' : parent'[n] = None /\ trash_root'[n] = None
    BY <1>1, <1>2 DEF Columns
  <2>3. ASSUME NEW n \in Nodes \ gone
        PROVE  /\ owner'[n] \in Accounts' /\ parent'[n] \in Nodes' \cup Accounts'
               /\ OwnerOf(parent[n])' = owner'[n]
    <3>1. /\ owner[n] \in Accounts' /\ parent[n] \in Nodes \cup Accounts
          /\ OwnerOf(parent[n]) = owner[n] /\ parent[n] \notin gone
      BY DEF Columns
    <3>2. parent'[n] = parent[n] /\ owner'[n] = owner[n]
      BY <1>1
    <3>3. CASE parent[n] \in Nodes
      BY <1>1, <1>2, <3>1, <3>2, <3>3 DEF OwnerOf
    <3>4. CASE parent[n] \in Accounts
      BY <3>1, <3>2, <3>4 DEF OwnerOf
    <3> QED
      BY <3>1, <3>3, <3>4
  <2> QED
    BY <1>2, <2>1, <2>2, <2>3 DEF Columns
<1>6. LiveBelowLive'
  BY <1>1, <1>3 DEF TrashShape, LiveBelowLive
<1>7. BatchesHaveRoots'
  BY <1>1, <1>4 DEF TrashShape, BatchesHaveRoots
<1>8. Hanging' = Hanging \ gone /\ Hanging \subseteq Trashed
  BY <1>1, <1>4 DEF Hanging
<1>9. BatchesHang'
  BY <1>1, <1>4, <1>8 DEF TrashShape, BatchesHang
<1>10. BatchesEnd'
  BY <1>1, <1>8 DEF TrashShape, BatchesEnd
<1> QED
  BY <1>2, <1>3, <1>4, <1>5, <1>6, <1>7, <1>9, <1>10 DEF TrashShape

(* What a purge takes: all that is below the root of the batch, and that   *)
(* is trashed and of one owner.                                            *)
LEMMA PurgedAre ==
    ASSUME Columns, TrashShape, NEW id \in Trashed
    PROVE  /\ Cascade({id}) = {m \in Nodes : id \in Climb(m, Nodes)}
           /\ Cascade({id}) \subseteq Trashed
           /\ \A m \in Cascade({id}) : owner[m] = owner[id]
<1> USE Kinds
<1> DEFINE below == {m \in Nodes : id \in Climb(m, Nodes)}
           gone == Cascade({id})
<1>0. {id} \in SUBSET Ids /\ id \in Nodes
  OBVIOUS
<1>1. /\ id \in gone /\ gone \subseteq Ids
      /\ \A m \in Nodes : parent[m] \in gone \/ trash_root[m] \in gone => m \in gone
      /\ \A C : /\ {id} \subseteq C
                /\ \A m \in Nodes : {parent[m], trash_root[m]} \cap C \cap Ids # {} => m \in C
                => gone \subseteq C
  BY <1>0, CascadeIs
<1> HIDE DEF gone
<1>2. id \in below
  BY <1>0, ClimbIs
<1>3. ASSUME NEW m \in Nodes, NEW x \in below, parent[m] = x \/ trash_root[m] = x
      PROVE  m \in below
  <2>1. x \in Climb(m, Nodes)
    <3>1. CASE parent[m] = x
      BY <3>1, ClimbIs
    <3>2. CASE trash_root[m] = x
      <4>1. m \in Trashed /\ Trashed \subseteq Nodes
        BY <3>2
      <4>2. x \in Climb(m, Trashed)
        BY <3>2, <4>1, BatchReaches
      <4>3. Climb(m, Trashed) \subseteq Climb(m, Nodes)
        <5> DEFINE C == Climb(m, Nodes)
        <5>1. m \in C /\ \A y \in C \cap Trashed : parent[y] \in Ids \cup Users => parent[y] \in C
          BY <4>1, ClimbIs
        <5> HIDE DEF C
        <5>2. Climb(m, Trashed) \subseteq C
          BY <4>1, <5>1, ClimbIs
        <5> QED
          BY <5>2 DEF C
      <4> QED
        BY <4>2, <4>3
    <3> QED
      BY <1>3, <3>1, <3>2
  <2>2. Climb(x, Nodes) \subseteq Climb(m, Nodes)
    BY <2>1, ClimbOn
  <2> QED
    BY <2>2
<1>4. gone \subseteq below
  <2>1. \A m \in Nodes : {parent[m], trash_root[m]} \cap below \cap Ids # {} => m \in below
    BY <1>3
  <2> HIDE DEF below
  <2> QED
    BY <1>1, <1>2, <2>1
<1>5. below \subseteq gone
  <2> SUFFICES ASSUME NEW m \in Nodes, id \in Climb(m, Nodes), m \notin gone PROVE FALSE
    OBVIOUS
  <2> DEFINE C == (Ids \cup Users) \ gone
  <2>1. m \in C /\ \A x \in C \cap Nodes : parent[x] \in Ids \cup Users => parent[x] \in C
    BY <1>1
  <2> HIDE DEF C
  <2>2. Climb(m, Nodes) \subseteq C
    BY <2>1, ClimbIs
  <2> QED
    BY <1>1, <2>2 DEF C
<1>6. ASSUME NEW m \in gone PROVE m \in Trashed /\ owner[m] = owner[id]
  <2>1. m \in Nodes /\ id \in Climb(m, Nodes)
    BY <1>4
  <2>2. OwnerOf(id) = OwnerOf(m)
    BY <2>1, OneOwnerUp
  <2>3. m \in Trashed
    <3> SUFFICES ASSUME m \in Live PROVE FALSE
      BY <2>1
    <3> DEFINE C == Live \cup Users
    <3>1. m \in C /\ \A x \in C \cap Nodes : parent[x] \in Ids \cup Users => parent[x] \in C
      BY DEF TrashShape, LiveBelowLive
    <3> HIDE DEF C
    <3>2. Climb(m, Nodes) \subseteq C
      BY <2>1, <3>1, ClimbIs
    <3> QED
      BY <2>1, <3>2 DEF C
  <2> QED
    BY <2>1, <2>2, <2>3 DEF OwnerOf
<1> QED
  BY <1>4, <1>5, <1>6 DEF gone

(* purge *)
LEMMA TreePurge ==
    ASSUME TreeInv, op = Idle, NEW u \in Accounts, NEW id \in TrashRoots(u), Purge(id)
    PROVE  /\ TreeInv' /\ Nodes' = Nodes \ Cascade({id}) /\ Live' = Live
           /\ \A n \in Nodes' : owner'[n] = owner[n]
<1> USE Kinds
<1> DEFINE gone == Cascade({id})
<1>0. Columns /\ TrashShape /\ id \in Nodes /\ id \in Trashed
  BY DEF TreeInv, TrashRoots, Live, Trashed
<1>1. gone \subseteq Trashed /\ gone \in SUBSET Ids
      /\ \A m \in Nodes : parent[m] \in gone \/ trash_root[m] \in gone => m \in gone
  BY <1>0, PurgedAre, CascadeIs
<1>2. /\ owner' = Without(owner, gone) /\ parent' = Without(parent, gone)
      /\ trash_root' = Without(trash_root, gone) /\ UNCHANGED <<email, op>>
  BY DEF Purge, Deleted
<1> HIDE DEF gone
<1>3. Accounts' = Accounts /\ email' \in [Users -> Addresses \cup {None}]
  BY <1>0, <1>2 DEF Accounts, Columns
<1>4. /\ Columns' /\ TrashShape'
      /\ Nodes' = Nodes \ gone /\ Live' = Live \ gone /\ Trashed' = Trashed \ gone
  <2>1. \A n \in Nodes \ gone : owner[n] \in Accounts'
    BY <1>0, <1>3 DEF Columns
  <2> QED
    BY <1>0, <1>1, <1>2, <1>3, <2>1, DeletedKeeps
<1>5. StillSo'
  BY <1>2, DoneHolds
<1>6. \A n \in Nodes' : owner'[n] = owner[n]
  BY <1>0, <1>2, <1>4 DEF Without
<1>7. Live' = Live
  BY <1>0, <1>1, <1>4
<1> QED
  BY <1>4, <1>5, <1>6, <1>7 DEF TreeInv, gone

-----------------------------------------------------------------------------
(* Departures *)

Owned(u) == {n \in Nodes : owner[n] = u}

(* The nodes of an account refer to each other only.                       *)
LEMMA OwnedIsClosed ==
    ASSUME Columns, TrashShape, NEW u \in Users
    PROVE  Cascade(Owned(u)) = Owned(u)
<1> USE Kinds
<1> DEFINE C == Owned(u)
<1>1. C \in SUBSET Ids
  BY DEF Owned
<1>2. ASSUME NEW m \in Nodes, {parent[m], trash_root[m]} \cap C \cap Ids # {} PROVE m \in C
  <2>1. CASE parent[m] \in C
    BY <2>1 DEF Columns, Owned, OwnerOf
  <2>2. CASE trash_root[m] \in C
    BY <2>2 DEF Owned, TrashShape, BatchesHaveRoots
  <2> QED
    BY <1>2, <2>1, <2>2
<1> HIDE DEF C
<1>3. Cascade(C) \subseteq C /\ C \subseteq Cascade(C)
  BY <1>1, <1>2, CascadeIs
<1> QED
  BY <1>3 DEF C

(* Emptying the trash of an account takes what is trashed and its own, and *)
(* all of that.                                                            *)
LEMMA EmptiedIs ==
    ASSUME Columns, TrashShape, NEW u \in Users
    PROVE  LET own == {n \in Trashed : owner[n] = u}
           IN  Cascade(TrashRoots(u)) = own /\ Cascade(own) = own
<1> USE Kinds
<1> DEFINE C == {n \in Trashed : owner[n] = u}
           gone == Cascade(TrashRoots(u))
<1>1. C \in SUBSET Ids /\ TrashRoots(u) \subseteq C
  BY DEF TrashRoots
<1>2. ASSUME NEW m \in Nodes, {parent[m], trash_root[m]} \cap C \cap Ids # {} PROVE m \in C
  <2>1. CASE parent[m] \in C
    BY <2>1 DEF Columns, OwnerOf, TrashShape, LiveBelowLive
  <2>2. CASE trash_root[m] \in C
    BY <2>2 DEF TrashShape, BatchesHaveRoots
  <2> QED
    BY <1>2, <2>1, <2>2
<1>3. ASSUME NEW m \in C PROVE trash_root[m] \in TrashRoots(u)
  BY DEF TrashShape, BatchesHaveRoots, TrashRoots
<1>a. TrashRoots(u) \in SUBSET Ids
  BY DEF TrashRoots
<1>4. TrashRoots(u) \subseteq gone /\ \A m \in Nodes : trash_root[m] \in gone => m \in gone
  BY <1>a, CascadeIs
<1>b. C \subseteq Nodes
  OBVIOUS
<1> HIDE DEF C
<1>5. gone \subseteq C
  BY <1>1, <1>2, <1>a, CascadeIs
<1>6. Cascade(C) \subseteq C /\ C \subseteq Cascade(C)
  BY <1>1, <1>2, CascadeIs
<1>7. C \subseteq gone
  BY <1>3, <1>4, <1>b
<1> QED
  BY <1>5, <1>6, <1>7 DEF C

(* departure::remove: the account's nodes go, and nobody else's.           *)
LEMMA TreeRemove ==
    ASSUME TreeInv, NEW u \in Accounts, RemoveAccount(u)
    PROVE  /\ TreeInv' /\ Nodes' = Nodes \ Owned(u) /\ Live' = Live \ Owned(u)
           /\ Accounts' = Accounts \ {u}
           /\ \A n \in Nodes' : owner'[n] = owner[n]
<1> USE Kinds
<1> DEFINE gone == Owned(u)
<1>0. Columns /\ TrashShape /\ StillSo /\ u \in Users
  BY DEF TreeInv
<1>1. Cascade(gone) = gone /\ gone \in SUBSET Ids /\ gone \subseteq Nodes
  BY <1>0, OwnedIsClosed DEF Owned
<1>2. \A m \in Nodes : parent[m] \in gone \/ trash_root[m] \in gone => m \in gone
  BY <1>0, <1>1, CascadeIs
<1>3. /\ owner' = Without(owner, gone) /\ parent' = Without(parent, gone)
      /\ trash_root' = Without(trash_root, gone) /\ UNCHANGED op
      /\ email' = [email EXCEPT ![u] = None]
  BY <1>1 DEF RemoveAccount, Deleted, Owned, Farewell
<1>4. Accounts' = Accounts \ {u} /\ email' \in [Users -> Addresses \cup {None}]
  BY <1>0, <1>3 DEF Accounts, Columns
<1>5. \A n \in Nodes \ gone : owner[n] \in Accounts' /\ owner[n] # u
  BY <1>0, <1>4 DEF Columns, Owned
<1> HIDE DEF gone
<1>6. /\ Columns' /\ TrashShape'
      /\ Nodes' = Nodes \ gone /\ Live' = Live \ gone /\ Trashed' = Trashed \ gone
  BY <1>0, <1>1, <1>2, <1>3, <1>4, <1>5, DeletedKeeps
<1>7. \A n \in Nodes' : owner'[n] = owner[n] /\ n \in Nodes
  BY <1>0, <1>3, <1>6 DEF Without
<1>8. StillSo'
  <2>1. Exists(op.dir)' => Exists(op.dir) /\ OwnerOf(op.dir)' = OwnerOf(op.dir)
    BY <1>0, <1>3, <1>4, <1>6, <1>7 DEF Exists, OwnerOf
  <2>2. op.dir \in Nodes' /\ op.dir \in Live => op.dir \in Live'
    BY <1>6
  <2>3. op.node \in Nodes' /\ op.node \in Live => op.node \in Live'
    BY <1>6
  <2>4. Exists(op.dir)' /\ op.dir \in Live \cup Users => op.dir \in Live' \cup Users
    BY <1>0, <1>3, <1>4, <1>6, <2>2 DEF Exists
  <2>5. op' = op
    BY <1>3
  <2> QED
    BY <1>0, <1>4, <1>7, <2>1, <2>3, <2>4, <2>5 DEF StillSo, Holds
<1> QED
  BY <1>4, <1>6, <1>7, <1>8 DEF TreeInv, gone

(* departure::hand_over: what is live of the account is the recipient's,   *)
(* below the new folder; what it had trashed goes; nobody else notices,    *)
(* and neither does the request under way.                                 *)
LEMMA HandOverIs ==
    ASSUME TreeInv, NEW u \in Accounts, NEW r \in Accounts, HandOver(u, r)
    PROVE  /\ u # r /\ Accounts' = Accounts \ {u} /\ email' = [email EXCEPT ![u] = None]
           /\ HandedOver(u) = Live \cap Owned(u)
           /\ UNCHANGED op
           /\ \E folder \in Fresh(Folders) :
                 /\ Nodes' = (Nodes \ (Trashed \cap Owned(u))) \cup {folder}
                 /\ Live' = Live \cup {folder} /\ Trashed' = Trashed \ Owned(u)
                 /\ \A n \in Ids :
                       /\ owner'[n] = IF n = folder \/ n \in Live \cap Owned(u) THEN r
                                      ELSE IF n \in Trashed \cap Owned(u) THEN None ELSE owner[n]
                       /\ parent'[n] = IF n = folder THEN r
                                       ELSE IF n \in Trashed \cap Owned(u) THEN None
                                       ELSE IF n \in Live \cap Owned(u) /\ parent[n] = u
                                       THEN folder ELSE parent[n]
                       /\ trash_root'[n] = IF n \in Trashed \cap Owned(u) THEN None
                                           ELSE trash_root[n]
                 /\ owner' \in [Ids -> Users \cup {None}]
                 /\ parent' \in [Ids -> Ids \cup Users \cup {None}]
                 /\ trash_root' \in [Ids -> Ids \cup {None}]
<1> USE Kinds
<1> DEFINE given == HandedOver(u)
           own == {n \in Trashed : owner[n] = u}
<1>0. Columns /\ TrashShape /\ u \in Users /\ r \in Users
  BY DEF TreeInv
<1>1. own = Trashed \cap Owned(u) /\ Owned(u) = own \cup (Live \cap Owned(u))
      /\ Owned(u) \subseteq Ids /\ Owned(u) = {n \in Nodes : owner[n] = u}
  BY <1>0 DEF Owned
<1>2. Cascade(TrashRoots(u)) = own /\ Cascade(own) = own
  BY <1>0, EmptiedIs
<1>3. given = Live \cap Owned(u) /\ {n \in Nodes : owner[n] = u} \ given = own
  <2>1. given = Owned(u) \ own
    BY <1>1, <1>2 DEF HandedOver
  <2> HIDE DEF own, given
  <2>2. own \cap (Live \cap Owned(u)) = {}
    BY <1>0, <1>1
  <2> QED
    BY <1>1, <2>1, <2>2
<1> DEFINE left == Deleted(own)
<1> HIDE DEF given
<1>4. /\ left.owner = Without(owner, own) /\ left.parent = Without(parent, own)
      /\ left.trash_root = Without(trash_root, own)
  BY <1>2 DEF Deleted
<1>a. /\ u # r /\ trash_root' = left.trash_root /\ email' = [email EXCEPT ![u] = None]
      /\ UNCHANGED op
  BY <1>3 DEF HandOver, given, Farewell
<1>b. PICK folder \in Fresh(Folders) :
          /\ owner' = [n \in Ids |-> IF n \in given \cup {folder} THEN r ELSE left.owner[n]]
          /\ parent' = [n \in Ids |->
                IF n = folder THEN r
                ELSE IF n \in given /\ AtTheTop(u, n) THEN folder
                ELSE left.parent[n]]
  <2> HIDE DEF left
  <2> QED
    BY <1>3 DEF HandOver, given, left
<1>5. folder \in Ids \ Nodes
  BY DEF Fresh, Ids
<1> HIDE DEF left, own
<1>c. Accounts' = Accounts \ {u}
  BY <1>0, <1>a DEF Accounts, Columns
<1>6. own \cap given = {} /\ folder \notin own /\ own \subseteq Ids /\ given \subseteq Ids
  BY <1>0, <1>1, <1>3, <1>5
<1>7. \A n \in Ids :
          /\ owner'[n] = IF n = folder \/ n \in given THEN r
                         ELSE IF n \in own THEN None ELSE owner[n]
          /\ parent'[n] = IF n = folder THEN r
                          ELSE IF n \in own THEN None
                          ELSE IF n \in given /\ parent[n] = u THEN folder ELSE parent[n]
          /\ trash_root'[n] = IF n \in own THEN None ELSE trash_root[n]
  BY <1>4, <1>6, <1>a, <1>b DEF Without, AtTheTop
<1>8. /\ owner' \in [Ids -> Users \cup {None}] /\ trash_root' \in [Ids -> Ids \cup {None}]
      /\ parent' \in [Ids -> Ids \cup Users \cup {None}]
  <2>1. owner' \in [Ids -> Users \cup {None}]
    BY <1>0, <1>4, <1>b DEF Columns, Without
  <2>2. trash_root' \in [Ids -> Ids \cup {None}]
    BY <1>0, <1>4, <1>a DEF Columns, Without
  <2>3. parent' \in [Ids -> Ids \cup Users \cup {None}]
    BY <1>0, <1>4, <1>5, <1>b DEF Columns, Without
  <2> QED
    BY <2>1, <2>2, <2>3
<1>9. Nodes' = (Nodes \ own) \cup {folder}
  <2>1. given \subseteq Nodes /\ r # None
    BY <1>0, <1>1, <1>3
  <2> QED
    BY <1>5, <1>6, <1>7, <2>1 DEF Nodes
<1>10. Live' = Live \cup {folder}
  <2>1. own \subseteq Trashed /\ trash_root[folder] = None
    BY <1>0, <1>1, <1>5 DEF Columns
  <2>2. Live \cap own = {}
    BY <1>0, <2>1
  <2> QED
    BY <1>0, <1>5, <1>7, <1>9, <2>1, <2>2 DEF Live
<1>11. Trashed' = Trashed \ Owned(u)
  <2>1. Trashed' = (Trashed \ own) \ {folder}
    BY <1>5, <1>9, <1>10 DEF Trashed
  <2> QED
    BY <1>0, <1>1, <1>5, <2>1
<1>12. folder \in Fresh(Folders)
  BY <1>b
<1> QED
  BY <1>1, <1>3, <1>7, <1>8, <1>9, <1>10, <1>11, <1>12, <1>a, <1>c DEF given

(* ... and the trees are whole after it.                                   *)
LEMMA TreeHandOver ==
    ASSUME TreeInv, NEW u \in Accounts, NEW r \in Accounts, HandOver(u, r)
    PROVE  TreeInv'
<1> USE Kinds
<1> DEFINE own == Trashed \cap Owned(u)
           given == Live \cap Owned(u)
<1>0. Columns /\ TrashShape /\ StillSo /\ u \in Users /\ r \in Users
  BY DEF TreeInv
<1>1. u # r /\ Accounts' = Accounts \ {u} /\ email' = [email EXCEPT ![u] = None] /\ UNCHANGED op
  BY HandOverIs
<1>2. PICK folder \in Fresh(Folders) :
          /\ Nodes' = (Nodes \ own) \cup {folder}
          /\ Live' = Live \cup {folder} /\ Trashed' = Trashed \ Owned(u)
          /\ \A n \in Ids :
                /\ owner'[n] = IF n = folder \/ n \in given THEN r
                               ELSE IF n \in own THEN None ELSE owner[n]
                /\ parent'[n] = IF n = folder THEN r
                                ELSE IF n \in own THEN None
                                ELSE IF n \in given /\ parent[n] = u
                                THEN folder ELSE parent[n]
                /\ trash_root'[n] = IF n \in own THEN None ELSE trash_root[n]
          /\ owner' \in [Ids -> Users \cup {None}]
          /\ parent' \in [Ids -> Ids \cup Users \cup {None}]
          /\ trash_root' \in [Ids -> Ids \cup {None}]
  BY HandOverIs
<1>3. folder \in Ids \ Nodes /\ folder # op.node /\ folder # op.dir
  BY <1>2 DEF Fresh, Ids
<1>4. /\ own \subseteq Trashed /\ given \subseteq Live /\ own \cap given = {}
      /\ \A n \in Nodes : owner[n] = u <=> n \in own \cup given
      /\ Owned(u) = own \cup given
  BY <1>0 DEF Owned
<1> HIDE DEF own, given
<1>5. \A n \in Nodes \ (own \cup given) :
          owner'[n] = owner[n] /\ parent'[n] = parent[n] /\ trash_root'[n] = trash_root[n]
          /\ owner[n] # u
  BY <1>0, <1>2, <1>3, <1>4
<1>6. \A n \in given : /\ owner'[n] = r /\ trash_root'[n] = trash_root[n]
                       /\ \/ parent[n] = u /\ parent'[n] = folder
                          \/ parent[n] \in given /\ parent'[n] = parent[n]
  <2> SUFFICES ASSUME NEW n \in given
               PROVE  /\ owner'[n] = r /\ trash_root'[n] = trash_root[n]
                      /\ \/ parent[n] = u /\ parent'[n] = folder
                         \/ parent[n] \in given /\ parent'[n] = parent[n]
    OBVIOUS
  <2>1. n \in Live /\ n \notin own /\ n # folder /\ n \in Nodes /\ owner[n] = u
    BY <1>0, <1>3, <1>4
  <2>2. parent[n] \in Live \cup Users /\ OwnerOf(parent[n]) = u
    BY <1>0, <2>1 DEF TrashShape, LiveBelowLive, Columns
  <2>3. parent[n] = u \/ (parent[n] \in Live /\ owner[parent[n]] = u)
    BY <1>0, <2>2 DEF OwnerOf
  <2>4. parent[n] = u \/ parent[n] \in given
    BY <1>0, <1>4, <2>3
  <2>5. given \cap Users = {}
    BY <1>0, <1>4
  <2> QED
    BY <1>0, <1>2, <2>1, <2>4, <2>5
<1>7. Columns'
  <2>1. ASSUME NEW n \in Ids \ Nodes' PROVE parent'[n] = None /\ trash_root'[n] = None
    <3>1. CASE n \in own
      BY <1>2, <1>3, <1>4, <3>1
    <3>2. CASE n \notin Nodes
      <4>1. n # folder /\ n \notin own /\ n \notin given
        BY <1>0, <1>2, <1>4, <3>2
      <4> QED
        BY <1>0, <1>2, <3>2, <4>1 DEF Columns
    <3> QED
      BY <1>2, <3>1, <3>2
  <2>2. ASSUME NEW n \in Nodes'
        PROVE  /\ owner'[n] \in Accounts' /\ parent'[n] \in Nodes' \cup Accounts'
               /\ OwnerOf(parent[n])' = owner'[n]
    <3>1. CASE n = folder
      BY <1>0, <1>1, <1>2, <1>3, <3>1 DEF OwnerOf
    <3>2. CASE n \in given
      <4>1. parent'[n] \in given \cup {folder}
        BY <1>6, <3>2
      <4>2. \A m \in given \cup {folder} : owner'[m] = r /\ m \in Nodes' /\ m \notin Users
        BY <1>0, <1>2, <1>3, <1>4
      <4> QED
        BY <1>1, <3>2, <4>1, <4>2 DEF OwnerOf
    <3>3. CASE n \in Nodes \ (own \cup given)
      <4>1. /\ owner[n] \in Accounts /\ parent[n] \in Nodes \cup Accounts
            /\ OwnerOf(parent[n]) = owner[n] /\ owner[n] # u
        BY <1>0, <1>5, <3>3 DEF Columns
      <4>2. CASE parent[n] \in Nodes
        <5>1. owner[parent[n]] = owner[n] /\ parent[n] \notin Users
          BY <1>0, <4>1, <4>2 DEF OwnerOf
        <5>2. parent[n] \in Nodes \ (own \cup given)
          BY <1>4, <4>1, <4>2, <5>1
        <5> QED
          BY <1>1, <1>2, <1>5, <3>3, <4>1, <5>1, <5>2 DEF OwnerOf
      <4>3. CASE parent[n] \in Accounts
        BY <1>0, <1>1, <1>5, <3>3, <4>1, <4>3 DEF OwnerOf
      <4> QED
        BY <4>1, <4>2, <4>3
    <3> QED
      BY <1>2, <2>2, <3>1, <3>2, <3>3
  <2>3. email' \in [Users -> Addresses \cup {None}]
    BY <1>0, <1>1 DEF Columns
  <2> QED
    BY <1>2, <2>1, <2>2, <2>3 DEF Columns
<1>8. LiveBelowLive'
  <2> SUFFICES ASSUME NEW n \in Live' PROVE parent'[n] \in Live' \cup Users
    BY DEF LiveBelowLive
  <2>1. CASE n = folder
    BY <1>0, <1>2, <1>3, <2>1
  <2>2. CASE n \in given
    BY <1>2, <1>4, <1>6, <2>2
  <2>3. CASE n \in Live \ given
    BY <1>0, <1>2, <1>4, <1>5, <2>3 DEF TrashShape, LiveBelowLive
  <2> QED
    BY <1>2, <2>1, <2>2, <2>3
<1>9. \A m \in Trashed' : /\ m \in Trashed /\ m \in Nodes \ (own \cup given)
                          /\ owner'[m] = owner[m] /\ parent'[m] = parent[m]
                          /\ trash_root'[m] = trash_root[m] /\ owner[m] # u
  BY <1>0, <1>2, <1>4, <1>5
<1>10. \A m \in Trashed : owner[m] # u => m \in Trashed'
  BY <1>2 DEF Owned
<1>11. BatchesHaveRoots'
  BY <1>0, <1>9, <1>10 DEF TrashShape, BatchesHaveRoots
<1>12. Hanging' \subseteq Hanging
  BY <1>9 DEF Hanging
<1>13. BatchesHang'
  <2> SUFFICES ASSUME NEW m \in Hanging'
               PROVE  parent'[m] \in Trashed' /\ trash_root'[parent'[m]] = trash_root'[m]
    BY DEF BatchesHang
  <2>1. m \in Hanging /\ m \in Trashed'
    BY <1>12 DEF Hanging
  <2>2. parent[m] \in Trashed /\ trash_root[parent[m]] = trash_root[m]
    BY <1>0, <2>1 DEF TrashShape, BatchesHang
  <2>3. owner[parent[m]] = owner[m]
    BY <1>0, <1>9, <2>1, <2>2 DEF Columns, OwnerOf
  <2> QED
    BY <1>9, <1>10, <2>1, <2>2, <2>3
<1>14. BatchesEnd'
  <2> SUFFICES ASSUME NEW C \in SUBSET Hanging', C # {} PROVE \E x \in C : parent'[x] \notin C
    BY DEF BatchesEnd
  <2>1. PICK x \in C : parent[x] \notin C
    BY <1>0, <1>12 DEF TrashShape, BatchesEnd
  <2> QED
    BY <1>9, <2>1 DEF Hanging
<1>15. StillSo'
  <2>1. op' = op /\ op \in Op /\ Holds(op)
    BY <1>0, <1>1 DEF StillSo
  <2>2. ASSUME Exists(op.dir)'
        PROVE  /\ Exists(op.dir) /\ op.dir \notin own /\ op.dir # u
               /\ OwnerOf(op.dir) # u => OwnerOf(op.dir)' = OwnerOf(op.dir)
               /\ OwnerOf(op.dir) = u => OwnerOf(op.dir)' = r
               /\ op.dir \in Live \cup Users => op.dir \in Live' \cup Users
    <3>1. op.dir \in (Nodes \ own) \cup (Accounts \ {u})
      BY <1>1, <1>2, <1>3, <2>1, <2>2 DEF Exists
    <3>2. CASE op.dir \in Nodes \ own
      <4>1. op.dir \notin Users /\ OwnerOf(op.dir) = owner[op.dir]
            /\ OwnerOf(op.dir)' = owner'[op.dir]
        BY <1>0, <2>1, <3>2 DEF OwnerOf
      <4>2. CASE op.dir \in given
        BY <1>0, <1>2, <1>4, <1>6, <3>2, <4>1, <4>2 DEF Exists
      <4>3. CASE op.dir \notin given
        BY <1>0, <1>2, <1>5, <3>2, <4>1, <4>3 DEF Exists
      <4> QED
        BY <4>2, <4>3
    <3>3. CASE op.dir \in Accounts \ {u}
      <4>1. OwnerOf(op.dir) = op.dir /\ OwnerOf(op.dir)' = op.dir
        BY <1>0, <2>1, <3>3 DEF OwnerOf
      <4>2. op.dir \notin own
        BY <1>0, <1>4, <3>3
      <4> QED
        BY <1>0, <3>3, <4>1, <4>2 DEF Exists
    <3> QED
      BY <3>1, <3>2, <3>3
  <2>3. ASSUME op.node \in Nodes'
        PROVE  /\ op.node \in Nodes
               /\ op.node \in Live => op.node \in Live'
               /\ owner[op.node] # u => owner'[op.node] = owner[op.node]
               /\ owner[op.node] = u /\ op.node \in Live => owner'[op.node] = r
    <3>1. op.node \in Nodes \ own
      BY <1>2, <1>3, <2>3
    <3> QED
      BY <1>0, <1>2, <1>4, <1>5, <1>6, <3>1
  <2>4. ASSUME op.at \in {"folder", "file", "copy"}, op.owner \in Accounts', Exists(op.dir)'
        PROVE  OwnerOf(op.dir)' = op.owner /\ op.dir \in Live' \cup Users
    BY <1>1, <2>1, <2>2, <2>4 DEF Holds
  <2>5. ASSUME op.at = "move", op.node \in Nodes', Exists(op.dir)'
        PROVE  /\ OwnerOf(op.dir)' = owner'[op.node] /\ op.node \in Live'
               /\ op.dir \in Live' \cup Users
    BY <2>1, <2>2, <2>3, <2>5 DEF Holds
  <2>6. ASSUME op.at = "send", op.node \in Nodes', op.owner \in Accounts'
        PROVE  owner'[op.node] = op.owner
    BY <1>1, <2>1, <2>3, <2>6 DEF Holds
  <2>7. Holds(op)'
    <3> SUFFICES /\ op.at \in {"move", "copy", "send"} => op.node \in Ids
                 /\ op.at = "email" => op.dir \in Addresses /\ op.owner \in Users
      BY <2>1, <2>4, <2>5, <2>6 DEF Holds
    <3> QED
      BY <2>1 DEF Holds
  <2> QED
    BY <2>1, <2>7 DEF StillSo
<1> QED
  BY <1>7, <1>8, <1>11, <1>13, <1>14, <1>15 DEF TreeInv, TrashShape

-----------------------------------------------------------------------------
(* Every step *)

(* A step that leaves the tree alone, after which there are as many        *)
(* accounts at least, none of them one that the request under way read and *)
(* that was not there.                                                     *)
LEMMA TreeApart ==
    ASSUME TreeInv, UNCHANGED treeVars, email' \in [Users -> Addresses \cup {None}],
           Accounts \subseteq Accounts',
           \/ op' = Idle
           \/ op' = op /\ {op.owner, op.dir} \cap Accounts' \subseteq Accounts
    PROVE  TreeInv'
<1>0. Columns /\ TrashShape /\ StillSo
  BY DEF TreeInv
<1>1. /\ Columns' /\ TrashShape' /\ Nodes' = Nodes /\ Live' = Live
      /\ owner' = owner
  BY <1>0, TreeUnchanged DEF treeVars
<1>2. StillSo'
  <2>1. CASE op' = Idle
    BY <2>1, DoneHolds
  <2>2. CASE op' = op /\ {op.owner, op.dir} \cap Accounts' \subseteq Accounts
    <3>1. Exists(op.dir)' => Exists(op.dir)
      BY <1>1, <2>2 DEF Exists
    <3>2. OwnerOf(op.dir)' = OwnerOf(op.dir)
      BY <1>1, <2>2 DEF OwnerOf
    <3>3. op.owner \in Accounts' => op.owner \in Accounts
      BY <2>2
    <3> QED
      BY <1>0, <1>1, <2>2, <3>1, <3>2, <3>3 DEF StillSo, Holds
  <2> QED
    BY <2>1, <2>2
<1> QED
  BY <1>1, <1>2 DEF TreeInv

(* Steps of grants, links and addresses.                                   *)
LEMMA TreeGiven ==
    ASSUME TreeInv,
           \/ \E u, n, a, access, x : Give(u, n, a, access, x)
           \/ \E u, g : Withdraw(u, g)
           \/ \E u, n : Mint(u, n)
           \/ \E l : TakeDown(l)
           \/ Serve \/ Refuse
           \/ SetEmail
           \/ \E u \in Users, a \in Addresses : Create(u, a)
    PROVE  TreeInv'
<1>0. email \in [Users -> Addresses \cup {None}] /\ None \notin Addresses
  BY IdsAssumption DEF TreeInv, Columns
<1>1. CASE SetEmail
  <2>1. /\ op.owner \in Users /\ op.dir \in Addresses /\ op' = Idle
        /\ email' = [email EXCEPT ![op.owner] = op.dir] /\ UNCHANGED treeVars
    BY <1>1 DEF SetEmail, TreeInv, StillSo, Holds, treeVars
  <2>2. email' \in [Users -> Addresses \cup {None}] /\ Accounts \subseteq Accounts'
    BY <1>0, <2>1 DEF Accounts
  <2> QED
    BY <2>1, <2>2, TreeApart
<1>2. ASSUME NEW u \in Users, NEW a \in Addresses, Create(u, a) PROVE TreeInv'
  <2>1. /\ email' = [email EXCEPT ![u] = a] /\ UNCHANGED treeVars /\ op' = op
        /\ op.owner # u /\ op.dir # u
    BY <1>2 DEF Create, treeVars
  <2>2. email' \in [Users -> Addresses \cup {None}] /\ Accounts' = Accounts \cup {u}
    BY <1>0, <2>1 DEF Accounts
  <2> QED
    BY <2>1, <2>2, TreeApart
<1>3. ASSUME UNCHANGED <<email, treeVars>>, op' = Idle \/ op' = op PROVE TreeInv'
  <2>1. Accounts' = Accounts /\ UNCHANGED treeVars
    BY <1>3 DEF Accounts
  <2> QED
    BY <1>0, <1>3, <2>1, TreeApart
<1>4. ASSUME NEW u, NEW n, NEW a, NEW access, NEW x, Give(u, n, a, access, x) PROVE TreeInv'
  BY <1>3, <1>4 DEF Give
<1>5. ASSUME NEW u, NEW g, Withdraw(u, g) PROVE TreeInv'
  BY <1>3, <1>5 DEF Withdraw
<1>6. ASSUME NEW u, NEW n, Mint(u, n) PROVE TreeInv'
  BY <1>3, <1>6 DEF Mint
<1>7. ASSUME NEW l, TakeDown(l) PROVE TreeInv'
  BY <1>3, <1>7 DEF TakeDown
<1>8. CASE Serve \/ Refuse
  BY <1>3, <1>8 DEF Serve, Refuse
<1> QED
  BY <1>1, <1>2, <1>4, <1>5, <1>6, <1>7, <1>8

(* A link is opened, and an address is sent for an account.                *)
LEMMA TreeLookOther ==
    ASSUME TreeInv, \/ \E l : Visit(l)
                    \/ \E u \in Accounts, a \in Addresses : LookEmail(u, a)
    PROVE  TreeInv'
<1> USE Kinds
<1>0. Columns
  BY DEF TreeInv
<1>1. ASSUME NEW l, Visit(l) PROVE TreeInv'
  <2> DEFINE what == [Idle EXCEPT !.at = "visit", !.node = l.node]
  <2>1. l.node \in Ids /\ Look(what)
    BY <1>0, <1>1 DEF Visit
  <2>2. Idle \in Op /\ DOMAIN Idle = {"at", "node", "dir", "owner"}
    BY IdleHolds DEF Idle
  <2>3. what \in Op /\ what.at = "visit"
    BY <2>1, <2>2 DEF Op
  <2> HIDE DEF what
  <2>4. Holds(what)
    BY <2>3 DEF Holds
  <2> QED
    BY <2>1, <2>3, <2>4, LookKeeps
<1>2. ASSUME NEW u \in Accounts, NEW a \in Addresses, LookEmail(u, a) PROVE TreeInv'
  <2> DEFINE what == [at |-> "email", node |-> None, dir |-> a, owner |-> u]
  <2>1. Look(what)
    BY <1>2 DEF LookEmail
  <2>2. what \in Op /\ what.at = "email" /\ what.dir = a /\ what.owner = u /\ u \in Users
    BY <1>0 DEF Op
  <2> HIDE DEF what
  <2>3. Holds(what)
    BY <2>2 DEF Holds
  <2> QED
    BY <2>1, <2>2, <2>3, LookKeeps
<1> QED
  BY <1>1, <1>2

(* Nothing is there at first.                                              *)
LEMMA TreeInvInit == Init => TreeInv
<1> SUFFICES ASSUME Init PROVE TreeInv
  OBVIOUS
<1>1. Nodes = {} /\ Accounts = {} /\ Live = {} /\ Trashed = {} /\ Hanging = {}
  BY DEF Init, Nodes, Accounts, Live, Trashed, Hanging
<1>2. Columns
  BY <1>1 DEF Init, Columns
<1>3. TrashShape
  BY <1>1 DEF TrashShape, LiveBelowLive, BatchesHaveRoots, BatchesHang, BatchesEnd
<1>4. StillSo
  BY IdleHolds DEF Init, StillSo, Holds
<1> QED
  BY <1>2, <1>3, <1>4 DEF TreeInv

(* Every step keeps the trees whole.                                       *)
LEMMA TreeInvStep == TreeInv /\ [Next]_vars => TreeInv'
<1> SUFFICES ASSUME TreeInv, [Next]_vars PROVE TreeInv'
  OBVIOUS
<1>1. CASE TreeStep
  <2>1. ASSUME NEW u \in Accounts,
               \/ \E kind \in {"folder", "file"} : LookMake(u, kind)
               \/ LookMove(u) \/ LookCopy(u) \/ LookSend(u)
        PROVE  TreeInv'
    BY <2>1, TreeLook
  <2>2. ASSUME op = Idle, NEW u \in Accounts, NEW n \in TrashRoots(u), Restore(u, n)
        PROVE  TreeInv'
    BY <2>2, TreeRestore
  <2>3. ASSUME op = Idle, NEW u \in Accounts, NEW n \in TrashRoots(u), Purge(n)
        PROVE  TreeInv'
    BY <2>3, TreePurge
  <2>4. CASE CreateFolder \/ Put
    BY <2>4, TreeMake DEF CreateFolder, Put, Ids
  <2>5. CASE Move \/ Copy \/ Send
    BY <2>5, TreeMove, TreeCopy, TreeSend
  <2>6. CASE Refuse
    BY <2>6, TreeGiven
  <2> QED
    BY <1>1, <2>1, <2>2, <2>3, <2>4, <2>5, <2>6 DEF TreeStep
<1>2. CASE SharingStep
  <2>1. ASSUME NEW l, Visit(l) PROVE TreeInv'
    BY <2>1, TreeLookOther
  <2> QED
    BY <1>2, <2>1, TreeGiven DEF SharingStep
<1>3. CASE AccountStep
  <2>1. ASSUME NEW u \in Accounts, NEW a \in Addresses, LookEmail(u, a) PROVE TreeInv'
    BY <2>1, TreeLookOther
  <2>2. ASSUME NEW u \in Accounts, RemoveAccount(u) PROVE TreeInv'
    BY <2>2, TreeRemove
  <2>3. ASSUME NEW u \in Accounts, NEW r \in Accounts, HandOver(u, r) PROVE TreeInv'
    BY <2>3, TreeHandOver
  <2> QED
    BY <1>3, <2>1, <2>2, <2>3, TreeGiven DEF AccountStep
<1>4. CASE UNCHANGED vars
  <2>1. UNCHANGED <<email, treeVars, op>> /\ Accounts' = Accounts
    BY <1>4 DEF vars, treeVars, Accounts
  <2> QED
    BY <2>1, TreeApart DEF TreeInv, Columns
<1> QED
  BY <1>1, <1>2, <1>3, <1>4 DEF Next

(* The trees are whole in every reachable state.                           *)
LEMMA TreeInvariant == Spec => []TreeInv
BY TreeInvInit, TreeInvStep, PTL DEF Spec

(* A subtree has one owner, and what is live is below what is live, for    *)
(* any number of accounts and nodes, although a request that moves or puts *)
(* through a mount writes by the node it looked at and accounts leave or   *)
(* hand over their files in between (db.rs, departure.rs).  There is one   *)
(* request on the trees at a time: what is trashed, restored or purged     *)
(* between another's look and its write is not spoken of here.             *)
THEOREM TreesStayWhole == Spec => []WholeTrees
<1>1. TreeInv => WholeTrees
  BY DEF TreeInv, TrashShape, Columns, LiveBelowLive, WholeTrees
<1> QED
  BY <1>1, TreeInvariant, PTL

-----------------------------------------------------------------------------
(* Accounts that leave *)

(* Accounts only go by departure::remove, one at a time.                   *)
LEMMA WhoLeaves ==
    ASSUME TreeInv, [Next]_vars, NEW u \in Accounts \ Accounts'
    PROVE  RemoveAccount(u) \/ \E r \in Accounts : HandOver(u, r)
<1>0. /\ email \in [Users -> Addresses \cup {None}] /\ None \notin Addresses
      /\ u \in Users /\ email[u] # None
  BY IdsAssumption DEF TreeInv, Columns, Accounts
<1>1. email' # email
  BY DEF Accounts
<1>2. ~TreeStep
  BY <1>1 DEF TreeStep, LookMake, LookMove, LookCopy, LookSend, Look, Restore, Purge, CreateFolder,
              Put, Make, Move, Copy, Send, Refuse
<1>3. ~SharingStep
  BY <1>1 DEF SharingStep, Give, Mint, Withdraw, TakeDown, Visit, Look, Serve
<1>4. ASSUME NEW v \in Users, NEW a \in Addresses, Create(v, a) PROVE FALSE
  <2>1. email' = [email EXCEPT ![v] = a]
    BY <1>4 DEF Create
  <2> QED
    BY <1>0, <2>1 DEF Accounts
<1>5. ~SetEmail
  <2> SUFFICES ASSUME SetEmail PROVE FALSE
    OBVIOUS
  <2>1. /\ op.owner \in Users /\ op.dir \in Addresses
        /\ email' = [email EXCEPT ![op.owner] = op.dir]
    BY DEF SetEmail, TreeInv, StillSo, Holds
  <2> QED
    BY <1>0, <2>1 DEF Accounts
<1>6. ASSUME NEW v, NEW a, LookEmail(v, a) PROVE FALSE
  BY <1>1, <1>6 DEF LookEmail, Look
<1>7. ASSUME NEW v, NEW left, Farewell(v, left) PROVE v = u
  <2>1. email' = [email EXCEPT ![v] = None]
    BY <1>7 DEF Farewell
  <2> QED
    BY <1>0, <2>1 DEF Accounts
<1>8. ASSUME NEW v, RemoveAccount(v) PROVE v = u
  BY <1>7, <1>8 DEF RemoveAccount
<1>9. ASSUME NEW v, NEW r, HandOver(v, r) PROVE v = u
  BY <1>7, <1>9 DEF HandOver
<1>10. AccountStep
  BY <1>1, <1>2, <1>3 DEF Next, vars
<1> QED
  BY <1>4, <1>5, <1>6, <1>8, <1>9, <1>10 DEF AccountStep

(* What departure::hand_over promises, for any number of accounts and      *)
(* nodes: other accounts lose nothing, and every live node goes to the     *)
(* recipient with the directory it is in.                                  *)
THEOREM NothingIsLostInDeparture == Spec => NothingLostInDeparture
<1> DEFINE Kept == \A u \in Accounts \ Accounts' :
          /\ \A n \in Nodes : owner[n] # u => owner'[n] = owner[n]
          /\ \A r \in Accounts' : HandOver(u, r) =>
                \A n \in Live : owner[n] = u =>
                    /\ owner'[n] = r
                    /\ IF parent[n] = u THEN parent'[parent'[n]] = r
                       ELSE parent'[n] = parent[n]
<1>1. TreeInv /\ [Next]_vars => Kept
  <2> SUFFICES ASSUME TreeInv, [Next]_vars, NEW u \in Accounts \ Accounts'
               PROVE  /\ \A n \in Nodes : owner[n] # u => owner'[n] = owner[n]
                      /\ \A r \in Accounts' : HandOver(u, r) =>
                            \A n \in Live : owner[n] = u =>
                                /\ owner'[n] = r
                                /\ IF parent[n] = u THEN parent'[parent'[n]] = r
                                   ELSE parent'[n] = parent[n]
    OBVIOUS
  <2>0. Columns
    BY DEF TreeInv
  <2> USE <2>0, Kinds
  <2>1. ASSUME NEW r \in Accounts, HandOver(u, r)
        PROVE  /\ \A n \in Nodes : owner[n] # u => owner'[n] = owner[n]
               /\ \A n \in Live : owner[n] = u =>
                    /\ owner'[n] = r
                    /\ IF parent[n] = u THEN parent'[parent'[n]] = r
                       ELSE parent'[n] = parent[n]
    <3>1. PICK folder \in Fresh(Folders) :
              \A n \in Ids :
                /\ owner'[n] = IF n = folder \/ n \in Live \cap Owned(u) THEN r
                               ELSE IF n \in Trashed \cap Owned(u) THEN None ELSE owner[n]
                /\ parent'[n] = IF n = folder THEN r
                                ELSE IF n \in Trashed \cap Owned(u) THEN None
                                ELSE IF n \in Live \cap Owned(u) /\ parent[n] = u
                                THEN folder ELSE parent[n]
      BY <2>1, HandOverIs
    <3>2. folder \in Ids \ Nodes
      BY DEF Fresh, Ids
    <3>3. ASSUME NEW n \in Nodes, owner[n] # u PROVE owner'[n] = owner[n]
      BY <3>1, <3>2, <3>3 DEF Owned
    <3>4. ASSUME NEW n \in Live, owner[n] = u
          PROVE  /\ owner'[n] = r
                 /\ IF parent[n] = u THEN parent'[parent'[n]] = r ELSE parent'[n] = parent[n]
      <4>1. n \in Ids /\ n # folder /\ n \in Live \cap Owned(u) /\ n \notin Trashed
        BY <3>2, <3>4 DEF Owned
      <4> QED
        BY <3>1, <3>2, <4>1
    <3> QED
      BY <3>3, <3>4
  <2>2. CASE RemoveAccount(u)
    <3>1. \A n \in Nodes : owner[n] # u => owner'[n] = owner[n]
      BY <2>2, TreeRemove DEF Owned
    <3>2. Accounts' \subseteq Accounts
      BY <2>2, TreeRemove
    <3> QED
      BY <2>1, <3>1, <3>2
  <2>3. ASSUME NEW s \in Accounts, HandOver(u, s) PROVE Accounts' \subseteq Accounts
    BY <2>3, HandOverIs
  <2> QED
    BY <2>1, <2>2, <2>3, WhoLeaves
<1> QED
  BY <1>1, TreeInvariant, PTL DEF Spec, NothingLostInDeparture

-----------------------------------------------------------------------------
(* Grants and links *)

(* Rows that no constraint of the grants table refuses, each made by the   *)
(* account that owns its node.                                             *)
GrantRows(rows) ==
    /\ rows \subseteq Grant /\ IsFiniteSet(rows)
    /\ \A g \in rows : g.node \in Nodes /\ g.created_by = owner[g.node]
    /\ \A g, h \in rows :
          g.grantee = h.grantee /\ (g.node = h.node \/ g.mount_name = h.mount_name) => g = h

LinkRows ==
    /\ links \subseteq Link /\ IsFiniteSet(links)
    /\ \A l \in links : l.node \in Nodes /\ l.created_by = owner[l.node]

GrantInv ==
    /\ GrantRows(grants) /\ LinkRows
    /\ Cardinality(grants) + Cardinality(links) <= MostGiven

(* free_mount_name finds a name that is free.                              *)
LEMMA NameIsFree ==
    ASSUME NEW rows, IsFiniteSet(rows), Cardinality(rows) <= MostGiven, NEW a,
           NEW wanted \in Seq(Names \cup Nat)
    PROVE  /\ FreeMountName(rows, a, wanted) \in Seq(Names \cup Nat)
           /\ \A h \in rows : h.grantee = a => h.mount_name # FreeMountName(rows, a, wanted)
<1> DEFINE taken == {g.mount_name : g \in {h \in rows : h.grantee = a}}
           K == 2 .. MostGiven + 2
           free == {k \in K : Append(wanted, k) \notin taken}
<1>0. MostGiven \in Nat /\ Cardinality(rows) \in Nat
  BY LimitsAssumption, FS_CardinalityType
<1>1. \A h \in rows : h.grantee = a => h.mount_name \in taken
  OBVIOUS
<1>2. \A x \in taken : \E g \in rows : g.mount_name = x
  OBVIOUS
<1>3. FreeMountName(rows, a, wanted) =
          IF wanted \notin taken THEN wanted ELSE Append(wanted, Min(free))
  BY DEF FreeMountName
<1> HIDE DEF taken
<1>4. free # {}
  <2> SUFFICES ASSUME \A k \in K : Append(wanted, k) \in taken PROVE FALSE
    OBVIOUS
  <2> DEFINE f == [k \in K |-> CHOOSE g \in rows : g.mount_name = Append(wanted, k)]
  <2>1. ASSUME NEW k \in K PROVE f[k] \in rows /\ f[k].mount_name = Append(wanted, k)
    <3>1. \E g \in rows : g.mount_name = Append(wanted, k)
      BY <1>2
    <3> QED
      BY <3>1
  <2>2. f \in [K -> rows]
    BY <2>1
  <2>3. IsFiniteSet(K) /\ Cardinality(K) = MostGiven + 1
    BY <1>0, FS_Interval
  <2>4. Cardinality(rows) < Cardinality(K)
    BY <1>0, <2>3
  <2>5. ASSUME NEW x \in K, NEW y \in K, x # y, f[x] = f[y] PROVE FALSE
    <3>1. Append(wanted, x) = Append(wanted, y)
      BY <2>1, <2>5
    <3> QED
      BY <2>5, <3>1
  <2> HIDE DEF f, K
  <2> QED
    BY <2>2, <2>3, <2>4, <2>5, FS_PigeonHole
<1>5. Min(free) \in free
  <2>1. free \subseteq Nat
    BY <1>0
  <2> HIDE DEF free
  <2>2. \E x \in free : \A y \in free : x <= y
    BY <1>4, <2>1, LeastNatural
  <2> QED
    BY <2>2 DEF Min
<1>6. Min(free) \in Nat /\ Append(wanted, Min(free)) \notin taken
  BY <1>0, <1>5
<1> HIDE DEF free
<1> QED
  BY <1>1, <1>3, <1>6

(* Rows that are fewer are in order too.                                   *)
LEMMA FewerRows ==
    ASSUME NEW rows, GrantRows(rows), NEW some \in SUBSET rows
    PROVE  GrantRows(some) /\ Cardinality(some) <= Cardinality(rows)
BY FS_Subset DEF GrantRows

(* One more row, of an address and a node that no row has, and under a     *)
(* name that is free.                                                      *)
LEMMA OneMoreRow ==
    ASSUME NEW rows, GrantRows(rows), NEW new \in Grant,
           new.node \in Nodes, new.created_by = owner[new.node],
           \A h \in rows : h.grantee = new.grantee =>
               h.node # new.node /\ h.mount_name # new.mount_name
    PROVE  /\ GrantRows(rows \cup {new})
           /\ Cardinality(rows \cup {new}) <= Cardinality(rows) + 1
<1>1. /\ IsFiniteSet(rows \cup {new})
      /\ Cardinality(rows \cup {new}) <= Cardinality(rows) + 1
  <2>1. IsFiniteSet(rows)
    BY DEF GrantRows
  <2>2. Cardinality(rows) \in Nat
    BY <2>1, FS_CardinalityType
  <2>3. /\ IsFiniteSet(rows \cup {new})
        /\ Cardinality(rows \cup {new}) = IF new \in rows THEN Cardinality(rows)
                                          ELSE Cardinality(rows) + 1
    BY <2>1, FS_AddElement
  <2> QED
    BY <2>2, <2>3
<1> QED
  BY <1>1 DEF GrantRows

(* A round of reassign keeps the rows in order, takes the moving one, and  *)
(* no other that is still to move.                                         *)
LEMMA RoundKeeps ==
    ASSUME NEW rows, GrantRows(rows), Cardinality(rows) <= MostGiven,
           NEW g \in rows, NEW a \in Addresses
    PROVE  /\ GrantRows(ReassignOne(rows, g, a))
           /\ Cardinality(ReassignOne(rows, g, a)) <= Cardinality(rows)
           /\ \A h \in rows \ {g} : h.grantee # a \/ h.grantee = g.grantee
                                       => h \in ReassignOne(rows, g, a)
<1> DEFINE already == {h \in rows : h.grantee = a /\ h.node = g.node}
           others == rows \ {g}
<1>0. /\ rows \subseteq Grant /\ IsFiniteSet(rows) /\ g \in Grant
      /\ g.node \in Nodes /\ g.created_by = owner[g.node]
  BY DEF GrantRows
<1>1. /\ Cardinality(rows) \in Nat /\ IsFiniteSet(others)
      /\ Cardinality(others) = Cardinality(rows) - 1
  BY <1>0, FS_CardinalityType, FS_RemoveElement
<1>2. GrantRows(others)
  BY FewerRows
<1>3. CASE already = {}
  <2> DEFINE name == FreeMountName(rows, a, g.mount_name)
             new == [g EXCEPT !.grantee = a, !.mount_name = name]
  <2>1. name \in Seq(Names \cup Nat) /\ \A h \in rows : h.grantee = a => h.mount_name # name
    <3>1. g.mount_name \in Seq(Names \cup Nat)
      BY <1>0 DEF Grant
    <3> QED
      BY <1>0, <3>1, NameIsFree
  <2> HIDE DEF name
  <2>2. /\ new \in Grant /\ new.node = g.node /\ new.created_by = g.created_by
        /\ new.grantee = a /\ new.mount_name = name
    BY <1>0, <2>1 DEF Grant
  <2>3. ReassignOne(rows, g, a) = others \cup {new}
    BY <1>3 DEF ReassignOne, name
  <2> HIDE DEF new
  <2>4. \A h \in others : h.grantee = new.grantee =>
            h.node # new.node /\ h.mount_name # new.mount_name
    BY <1>3, <2>1, <2>2
  <2>5. GrantRows(others \cup {new}) /\ Cardinality(others \cup {new}) <= Cardinality(others) + 1
    BY <1>0, <1>2, <2>2, <2>4, OneMoreRow
  <2>6. IsFiniteSet(others \cup {new}) /\ Cardinality(others \cup {new}) \in Nat
    BY <2>5, FS_CardinalityType DEF GrantRows
  <2> QED
    BY <1>1, <2>3, <2>5, <2>6
<1>4. ASSUME NEW h \in already PROVE already = {h}
  BY <1>0, <1>4 DEF GrantRows
<1>5. CASE g \in already
  <2>1. already = {g} /\ g.grantee = a
    BY <1>4, <1>5
  <2>2. Merged(g, g) = g
    BY <1>0 DEF Merged, Grant
  <2>3. ReassignOne(rows, g, a)
            = (rows \ (already \cup {g})) \cup ({Merged(h, g) : h \in already} \ {g})
    BY <1>5 DEF ReassignOne
  <2> HIDE DEF already
  <2>4. ReassignOne(rows, g, a) = others
    BY <2>1, <2>2, <2>3
  <2> QED
    BY <1>1, <1>2, <2>4
<1>6. ASSUME NEW h \in already, h # g
      PROVE  /\ GrantRows(ReassignOne(rows, g, a))
             /\ Cardinality(ReassignOne(rows, g, a)) <= Cardinality(rows)
             /\ \A x \in others : x.grantee # a \/ x.grantee = g.grantee
                                     => x \in ReassignOne(rows, g, a)
  <2> DEFINE new == Merged(h, g)
             rest == others \ {h}
  <2>1. already = {h} /\ h \in rows /\ h.grantee = a /\ h.node = g.node /\ h \in Grant
    BY <1>0, <1>4, <1>6
  <2>2. /\ new \in Grant /\ new.node = h.node /\ new.created_by = h.created_by
        /\ new.grantee = a /\ new.mount_name = h.mount_name
    BY <2>1 DEF Merged, Grant, Access
  <2>3. g.grantee # a
    BY <1>6, <2>1 DEF GrantRows
  <2>4. ReassignOne(rows, g, a) = rest \cup {new}
    <3>1. ReassignOne(rows, g, a)
              = (rows \ (already \cup {g})) \cup ({Merged(x, g) : x \in already} \ {g})
      BY <1>6 DEF ReassignOne
    <3>2. new # g
      BY <2>2, <2>3
    <3> HIDE DEF already
    <3> QED
      BY <2>1, <3>1, <3>2
  <2>5. \A x \in rest : x.grantee = new.grantee =>
            x.node # new.node /\ x.mount_name # new.mount_name
    BY <2>1, <2>2 DEF GrantRows
  <2>6. h.node \in Nodes /\ h.created_by = owner[h.node]
    BY <2>1 DEF GrantRows
  <2> HIDE DEF new
  <2>7. GrantRows(rest) /\ Cardinality(rest) <= Cardinality(others)
    BY <1>2, FewerRows
  <2>8. GrantRows(rest \cup {new}) /\ Cardinality(rest \cup {new}) <= Cardinality(rest) + 1
    BY <2>2, <2>5, <2>6, <2>7, OneMoreRow
  <2>9. /\ IsFiniteSet(rest \cup {new}) /\ Cardinality(rest \cup {new}) \in Nat
        /\ Cardinality(rest) \in Nat
    BY <2>7, <2>8, FS_CardinalityType DEF GrantRows
  <2> QED
    BY <1>1, <2>1, <2>3, <2>4, <2>7, <2>8, <2>9
<1> QED
  BY <1>3, <1>5, <1>6

ReassignRounds(f, rows, moving, a, n) ==
    f = [k \in 0 .. n |-> IF k = 0 THEN rows ELSE ReassignOne(f[k - 1], moving[k], a)]

(* The loop of reassign has a result.                                      *)
LEMMA ReassignEnds ==
    ASSUME NEW rows, NEW moving, NEW a, NEW n \in Nat
    PROVE  \E f : ReassignRounds(f, rows, moving, a, n)
<1> DEFINE Good == {k \in 0 .. n : \E f : ReassignRounds(f, rows, moving, a, k)}
<1>1. 0 \in Good
  <2> DEFINE f == [k \in 0 .. 0 |-> rows]
  <2>1. ReassignRounds(f, rows, moving, a, 0)
    BY DEF ReassignRounds
  <2> QED
    BY <2>1
<1>2. ASSUME NEW k \in 0 .. n - 1, k \in Good PROVE k + 1 \in Good
  <2>1. PICK f : ReassignRounds(f, rows, moving, a, k)
    BY <1>2
  <2> DEFINE g == [j \in 0 .. k + 1 |-> IF j <= k THEN f[j]
                                        ELSE ReassignOne(f[k], moving[j], a)]
  <2>2. ASSUME NEW j \in 0 .. k + 1
        PROVE  g[j] = IF j = 0 THEN rows ELSE ReassignOne(g[j - 1], moving[j], a)
    <3>1. CASE j <= k
      <4>1. g[j] = f[j] /\ (j # 0 => g[j - 1] = f[j - 1])
        BY <3>1
      <4>2. f[j] = IF j = 0 THEN rows ELSE ReassignOne(f[j - 1], moving[j], a)
        BY <2>1, <3>1 DEF ReassignRounds
      <4> QED
        BY <4>1, <4>2
    <3>2. CASE j = k + 1
      <4>1. g[j] = ReassignOne(f[k], moving[j], a) /\ g[j - 1] = f[k] /\ j # 0
        BY <3>2
      <4> QED
        BY <4>1
    <3> QED
      BY <3>1, <3>2
  <2>3. ReassignRounds(g, rows, moving, a, k + 1)
    <3> HIDE DEF g
    <3>1. g = [j \in 0 .. k + 1 |-> g[j]]
      BY DEF g
    <3> QED
      BY <2>2, <3>1 DEF ReassignRounds
  <2> QED
    BY <2>3
<1> HIDE DEF Good
<1>3. \A k \in 0 .. n : k \in Good
  BY <1>1, <1>2, UpTo
<1> QED
  BY <1>3 DEF Good

(* ... which is what the last of its rounds leaves.                        *)
LEMMA ReassignByRounds ==
    ASSUME NEW rows, NEW moving, NEW a, Len(moving) \in Nat
    PROVE  \E f : /\ ReassignRounds(f, rows, moving, a, Len(moving))
                  /\ Reassign(rows, moving, a) = f[Len(moving)]
<1>1. PICK f : ReassignRounds(f, rows, moving, a, Len(moving))
  BY ReassignEnds
<1> QED
  BY <1>1 DEF Reassign, ReassignRounds

GivenTo(rows, old) == {g \in rows : g.grantee = old}

InOrder(f, rows, moving, a, n) ==
    /\ f[0] = rows /\ Reassign(rows, moving, a) = f[n]
    /\ \A k \in 0 .. n - 1 : f[k + 1] = ReassignOne(f[k], moving[k + 1], a)
    /\ \A k \in 0 .. n : /\ GrantRows(f[k]) /\ Cardinality(f[k]) <= Cardinality(rows)
                         /\ \A j \in k + 1 .. n : moving[j] \in f[k]

(* reassign, round by round: in every round the rows are in order and the  *)
(* grants that have not been moved are there.                              *)
LEMMA ReassignIs ==
    ASSUME NEW rows, GrantRows(rows), Cardinality(rows) <= MostGiven, NEW old,
           NEW a \in Addresses, NEW moving \in SetToSeqs(GivenTo(rows, old))
    PROVE  LET n == Cardinality(GivenTo(rows, old))
           IN  /\ n \in Nat
               /\ \A g \in rows : g.grantee = old => \E j \in 1 .. n : moving[j] = g
               /\ \A j \in 1 .. n : moving[j] \in rows /\ moving[j].grantee = old
               /\ \E f : InOrder(f, rows, moving, a, n)
<1> USE DEF GivenTo
<1> DEFINE due == GivenTo(rows, old)
           n == Cardinality(due)
<1>0. IsFiniteSet(rows) /\ IsFiniteSet(due) /\ n \in Nat /\ Cardinality(rows) \in Nat
  <2>1. IsFiniteSet(rows)
    BY DEF GrantRows
  <2>2. IsFiniteSet(due)
    BY <2>1, FS_Subset
  <2> QED
    BY <2>1, <2>2, FS_CardinalityType
<1>1. moving \in [1 .. n -> due] /\ \A i, j \in 1 .. n : i # j => moving[i] # moving[j]
  BY DEF SetToSeqs
<1>2. \A j \in 1 .. n : moving[j] \in due
  BY <1>1
<1>3. ASSUME NEW g \in due PROVE \E j \in 1 .. n : moving[j] = g
  <2>1. moving \in Injection(1 .. n, due)
    BY <1>1 DEF Injection, IsInjective
  <2>2. Cardinality(1 .. n) = n
    BY <1>0, FS_Interval
  <2> HIDE DEF n, due
  <2>3. moving \in Surjection(1 .. n, due)
    BY <1>0, <2>1, <2>2, FS_Injection DEF n
  <2> QED
    BY <1>3, <2>3 DEF Surjection
<1> HIDE DEF n
<1>4. Len(moving) = n
  BY <1>0, <1>1
<1>5. PICK f : ReassignRounds(f, rows, moving, a, n) /\ Reassign(rows, moving, a) = f[n]
  BY <1>0, <1>4, ReassignByRounds
<1>6. Reassign(rows, moving, a) = f[n]
  BY <1>5
<1>7. f[0] = rows /\ \A k \in 0 .. n - 1 : f[k + 1] = ReassignOne(f[k], moving[k + 1], a)
  <2>1. \A k \in 0 .. n : f[k] = IF k = 0 THEN rows ELSE ReassignOne(f[k - 1], moving[k], a)
    BY <1>5 DEF ReassignRounds
  <2> QED
    BY <1>0, <2>1
<1> DEFINE Good == {k \in 0 .. n : /\ GrantRows(f[k]) /\ Cardinality(f[k]) <= Cardinality(rows)
                                   /\ \A j \in k + 1 .. n : moving[j] \in f[k]}
<1>8. 0 \in Good
  BY <1>0, <1>2, <1>7
<1>9. ASSUME NEW k \in 0 .. n - 1, k \in Good PROVE k + 1 \in Good
  <2> DEFINE g == moving[k + 1]
  <2>1. /\ GrantRows(f[k]) /\ Cardinality(f[k]) <= Cardinality(rows)
        /\ \A j \in k + 1 .. n : moving[j] \in f[k]
    BY <1>9
  <2>2. g \in f[k] /\ k + 1 \in 1 .. n
    BY <1>0, <2>1
  <2>3. Cardinality(f[k]) \in Nat /\ Cardinality(f[k]) <= MostGiven
    <3>1. IsFiniteSet(f[k])
      BY <2>1 DEF GrantRows
    <3> QED
      BY <1>0, <2>1, <3>1, FS_CardinalityType, LimitsAssumption
  <2>4. /\ GrantRows(f[k + 1]) /\ Cardinality(f[k + 1]) <= Cardinality(f[k])
        /\ \A h \in f[k] \ {g} : h.grantee # a \/ h.grantee = g.grantee => h \in f[k + 1]
    BY <1>7, <2>1, <2>2, <2>3, RoundKeeps
  <2>5. Cardinality(f[k + 1]) \in Nat
    <3>1. IsFiniteSet(f[k + 1])
      BY <2>4 DEF GrantRows
    <3> QED
      BY <3>1, FS_CardinalityType
  <2>6. ASSUME NEW j \in (k + 1) + 1 .. n PROVE moving[j] \in f[k + 1]
    <3>1. j \in 1 .. n /\ j \in k + 1 .. n /\ j # k + 1
      BY <1>0
    <3>2. moving[j] \in f[k] \ {g} /\ moving[j].grantee = old /\ g.grantee = old
      BY <1>1, <1>2, <2>1, <2>2, <3>1
    <3> QED
      BY <2>4, <3>2
  <2>7. Cardinality(f[k + 1]) <= Cardinality(rows)
    BY <1>0, <2>1, <2>3, <2>4, <2>5
  <2> QED
    BY <1>0, <2>2, <2>4, <2>6, <2>7
<1> HIDE DEF Good
<1>10. \A k \in 0 .. n : k \in Good
  BY <1>0, <1>8, <1>9, UpTo
<1>11. \A k \in 0 .. n : /\ GrantRows(f[k]) /\ Cardinality(f[k]) <= Cardinality(rows)
                         /\ \A j \in k + 1 .. n : moving[j] \in f[k]
  BY <1>10 DEF Good
<1>12. InOrder(f, rows, moving, a, n)
  BY <1>6, <1>7, <1>11 DEF InOrder
<1> QED
  BY <1>0, <1>2, <1>3, <1>12 DEF n

(* Nothing is added, and the nodes of what is left have the owner they     *)
(* had.                                                                    *)
LEMMA GivenKept ==
    ASSUME GrantInv, grants' \subseteq grants, links' \subseteq links,
           \A r \in grants' \cup links' : r.node \in Nodes' /\ owner'[r.node] = owner[r.node]
    PROVE  GrantInv'
<1>1. GrantRows(grants') /\ Cardinality(grants') <= Cardinality(grants)
  BY FewerRows DEF GrantInv
<1>2. IsFiniteSet(grants) /\ IsFiniteSet(links) /\ IsFiniteSet(grants')
  BY <1>1 DEF GrantInv, GrantRows, LinkRows
<1>3. IsFiniteSet(links') /\ Cardinality(links') <= Cardinality(links)
  BY <1>2, FS_Subset
<1>4. /\ Cardinality(grants) \in Nat /\ Cardinality(links) \in Nat
      /\ Cardinality(grants') \in Nat /\ Cardinality(links') \in Nat
  BY <1>2, <1>3, FS_CardinalityType
<1>5. GrantRows(grants)'
  BY <1>1 DEF GrantRows
<1>6. LinkRows'
  BY <1>3 DEF GrantInv, LinkRows
<1>7. Cardinality(grants') + Cardinality(links') <= MostGiven
  BY <1>1, <1>3, <1>4, LimitsAssumption DEF GrantInv
<1> QED
  BY <1>5, <1>6, <1>7 DEF GrantInv

(* The rows stay and so do the nodes with their owners.                    *)
LEMMA GivenStays ==
    ASSUME GrantInv, UNCHANGED <<grants, links>>,
           \A n \in Nodes : n \in Nodes' /\ owner'[n] = owner[n]
    PROVE  GrantInv'
<1>1. \A r \in grants' \cup links' : r.node \in Nodes
  BY DEF GrantInv, GrantRows, LinkRows
<1> QED
  BY <1>1, GivenKept

(* give, by the owner of a live node.                                      *)
LEMMA GrantGive ==
    ASSUME TreeInv, GrantInv, NEW u \in Accounts, NEW n \in Grantable(u),
           Cardinality(grants) + Cardinality(links) < MostGiven,
           NEW a \in Addresses, NEW access \in Access, NEW x \in Names,
           Give(u, n, a, access, x)
    PROVE  GrantInv'
<1> DEFINE name == FreeMountName(grants, a, <<x>>)
           new == [node |-> n, grantee |-> a, access |-> access,
                   mount_name |-> name, created_by |-> u]
<1>0. Columns /\ LiveBelowLive /\ IsFiniteSet(grants) /\ IsFiniteSet(links) /\ GrantRows(grants)
  BY DEF TreeInv, TrashShape, GrantInv, GrantRows, LinkRows
<1>1. n \in Nodes /\ owner[n] = u /\ n \in Ids /\ u \in Users
  BY <1>0, FoundAre, Kinds DEF Grantable
<1>2. Cardinality(grants) \in Nat /\ Cardinality(links) \in Nat /\ MostGiven \in Nat
  BY <1>0, FS_CardinalityType, LimitsAssumption
<1>3. name \in Seq(Names \cup Nat) /\ \A h \in grants : h.grantee = a => h.mount_name # name
  <2>1. <<x>> \in Seq(Names \cup Nat) /\ Cardinality(grants) <= MostGiven
    BY <1>2
  <2> QED
    BY <1>0, <2>1, NameIsFree
<1>4. grants' = grants \cup {new}
  BY DEF Give
<1> HIDE DEF name
<1>5. /\ new \in Grant /\ new.node = n /\ new.created_by = u /\ new.grantee = a
      /\ new.mount_name = name
  BY <1>1, <1>3 DEF Grant
<1> HIDE DEF new
<1>6. ASSUME NEW h \in grants, h.grantee = a PROVE h.node # n
  <2>1. owner[h.node] = u => n \notin Climb(h.node, Nodes)
    BY <1>6 DEF Give, MayGive
  <2>2. n \in Climb(n, Nodes)
    BY <1>0, <1>1, Kinds, ClimbIs
  <2> QED
    BY <1>1, <2>1, <2>2
<1>7. GrantRows(grants \cup {new}) /\ Cardinality(grants \cup {new}) <= Cardinality(grants) + 1
  BY <1>0, <1>1, <1>3, <1>5, <1>6, OneMoreRow
<1>8. Cardinality(grants \cup {new}) \in Nat
  BY <1>7, FS_CardinalityType DEF GrantRows
<1>9. owner' = owner /\ links' = links /\ Nodes' = Nodes
  BY DEF Give, treeVars, Nodes
<1>10. GrantRows(grants)'
  BY <1>4, <1>7, <1>9 DEF GrantRows
<1>11. LinkRows'
  BY <1>9 DEF GrantInv, LinkRows
<1>12. Cardinality(grants') + Cardinality(links') <= MostGiven
  BY <1>2, <1>4, <1>7, <1>8, <1>9
<1> QED
  BY <1>10, <1>11, <1>12 DEF GrantInv

(* routes::shares::create, by the owner of a live node.                    *)
LEMMA GrantMint ==
    ASSUME TreeInv, GrantInv, NEW u \in Accounts, NEW n \in Grantable(u),
           Cardinality(grants) + Cardinality(links) < MostGiven, Mint(u, n)
    PROVE  GrantInv'
<1> DEFINE new == [node |-> n, created_by |-> u]
<1>0. Columns /\ LiveBelowLive /\ IsFiniteSet(grants) /\ IsFiniteSet(links)
  BY DEF TreeInv, TrashShape, GrantInv, GrantRows, LinkRows
<1>1. n \in Nodes /\ owner[n] = u /\ n \in Ids /\ u \in Users
  BY <1>0, FoundAre, Kinds DEF Grantable
<1>2. Cardinality(grants) \in Nat /\ Cardinality(links) \in Nat /\ MostGiven \in Nat
  BY <1>0, FS_CardinalityType, LimitsAssumption
<1>3. /\ links' = links \cup {new} /\ owner' = owner /\ grants' = grants /\ Nodes' = Nodes
  BY DEF Mint, treeVars, Nodes
<1>4. new \in Link /\ new.node = n /\ new.created_by = u
  BY <1>1 DEF Link
<1> HIDE DEF new
<1>5. /\ IsFiniteSet(links \cup {new})
      /\ Cardinality(links \cup {new}) = IF new \in links THEN Cardinality(links)
                                         ELSE Cardinality(links) + 1
  BY <1>0, FS_AddElement
<1>6. LinkRows'
  BY <1>1, <1>3, <1>4, <1>5 DEF GrantInv, LinkRows
<1>7. GrantRows(grants)'
  BY <1>3 DEF GrantInv, GrantRows
<1>8. Cardinality(grants') + Cardinality(links') <= MostGiven
  BY <1>2, <1>3, <1>5
<1> QED
  BY <1>6, <1>7, <1>8 DEF GrantInv

(* users::set_email: whoever the grants are to now, they are the same      *)
(* nodes' and by the same accounts.                                        *)
LEMMA GrantEmail ==
    ASSUME TreeInv, GrantInv, SetEmail
    PROVE  GrantInv'
<1> DEFINE old == email[op.owner]
           due == GivenTo(grants, old)
<1>1. PICK moving \in SetToSeqs(due) :
          grants' = Reassign(grants, moving, op.dir)
  BY DEF SetEmail, GivenTo
<1>2. op.dir \in Addresses /\ owner' = owner /\ links' = links /\ Nodes' = Nodes
  BY DEF SetEmail, TreeInv, StillSo, Holds, treeVars, Nodes
<1>3. GrantRows(grants) /\ IsFiniteSet(grants) /\ IsFiniteSet(links)
      /\ Cardinality(grants) + Cardinality(links) <= MostGiven
  BY DEF GrantInv, GrantRows, LinkRows
<1>4. Cardinality(grants) \in Nat /\ Cardinality(links) \in Nat /\ MostGiven \in Nat
  BY <1>3, FS_CardinalityType, LimitsAssumption
<1>5. GrantRows(grants') /\ Cardinality(grants') <= Cardinality(grants)
  <2> DEFINE n == Cardinality(due)
  <2>1. Cardinality(grants) <= MostGiven
    BY <1>3, <1>4
  <2> HIDE DEF old
  <2>2. n \in Nat /\ \E f : InOrder(f, grants, moving, op.dir, n)
    BY <1>2, <1>3, <2>1, ReassignIs
  <2> HIDE DEF n
  <2>3. n \in 0 .. n
    BY <2>2
  <2> QED
    BY <1>1, <2>2, <2>3 DEF InOrder
<1>6. Cardinality(grants') \in Nat
  BY <1>5, FS_CardinalityType DEF GrantRows
<1>7. GrantRows(grants)'
  BY <1>2, <1>5 DEF GrantRows
<1>8. LinkRows'
  BY <1>2 DEF GrantInv, LinkRows
<1>9. Cardinality(grants') + Cardinality(links') <= MostGiven
  BY <1>2, <1>3, <1>4, <1>5, <1>6
<1> QED
  BY <1>7, <1>8, <1>9 DEF GrantInv

(* An account leaves: its own grants and links go with it, and the nodes   *)
(* of all others keep their owners.                                        *)
LEMMA GrantDepart ==
    ASSUME TreeInv, GrantInv, NEW u \in Accounts,
           RemoveAccount(u) \/ \E r \in Accounts : HandOver(u, r)
    PROVE  GrantInv'
<1>0. Columns /\ TrashShape /\ u \in Users
  BY Kinds DEF TreeInv
<1>a. \A r \in grants \cup links : r.node \in Nodes /\ r.created_by = owner[r.node]
  BY DEF GrantInv, GrantRows, LinkRows
<1> DEFINE left(S) == Deleted(S)
<1>1. \A S : left(S).grants \subseteq grants /\ left(S).links \subseteq links
  BY DEF Deleted
<1>2. ASSUME NEW S, Farewell(u, left(S))
      PROVE  /\ grants' \subseteq grants /\ links' \subseteq links
             /\ \A r \in grants' \cup links' : r.created_by # u
  BY <1>1, <1>2 DEF Farewell
<1> HIDE DEF left
<1>3. CASE RemoveAccount(u)
  <2>1. /\ grants' \subseteq grants /\ links' \subseteq links
        /\ \A r \in grants' \cup links' : r.created_by # u
    BY <1>2, <1>3 DEF RemoveAccount, left
  <2>2. /\ Nodes' = Nodes \ Owned(u) /\ \A n \in Nodes' : owner'[n] = owner[n]
    BY <1>3, TreeRemove
  <2>3. \A r \in grants' \cup links' : r.node \in Nodes' /\ owner'[r.node] = owner[r.node]
    BY <1>a, <2>1, <2>2 DEF Owned
  <2> QED
    BY <2>1, <2>3, GivenKept
<1>4. ASSUME NEW r \in Accounts, HandOver(u, r) PROVE GrantInv'
  <2>1. /\ grants' \subseteq grants /\ links' \subseteq links
        /\ \A x \in grants' \cup links' : x.created_by # u
    BY <1>2, <1>4 DEF HandOver, left
  <2>2. PICK folder \in Fresh(Folders) :
            /\ Nodes' = (Nodes \ (Trashed \cap Owned(u))) \cup {folder}
            /\ \A n \in Ids :
                  owner'[n] = IF n = folder \/ n \in Live \cap Owned(u) THEN r
                              ELSE IF n \in Trashed \cap Owned(u) THEN None ELSE owner[n]
    BY <1>4, HandOverIs
  <2>3. folder \notin Nodes
    BY DEF Fresh
  <2>4. ASSUME NEW n \in Nodes, owner[n] # u PROVE n \in Nodes' /\ owner'[n] = owner[n]
    <3>1. n \notin Owned(u) /\ n # folder /\ n \in Ids
      BY <1>0, <2>3, <2>4, Kinds DEF Owned
    <3> QED
      BY <2>2, <3>1
  <2>5. \A x \in grants' \cup links' : x.node \in Nodes' /\ owner'[x.node] = owner[x.node]
    BY <1>a, <2>1, <2>4
  <2> QED
    BY <2>1, <2>5, GivenKept
<1> QED
  BY <1>3, <1>4

(* A request on the tree takes no node from anybody.                       *)
LEMMA OwnersStay ==
    ASSUME TreeInv, CreateFolder \/ Put \/ Move \/ Copy \/ Send,
           NEW n \in Nodes
    PROVE  n \in Nodes' /\ owner'[n] = owner[n]
<1>0. owner \in [Ids -> Users \cup {None}] /\ n \in Ids /\ owner[n] # None
  BY DEF TreeInv, Columns, Nodes
<1>1. SUFFICES owner'[n] = owner[n]
  BY <1>0, <1>1 DEF Nodes
<1>2. ASSUME NEW kind, NEW S, NEW size, Make(kind, S, size) PROVE owner'[n] = owner[n]
  <2>1. PICK m \in Fresh(S) : owner' = [owner EXCEPT ![m] = op.owner]
    BY <1>2 DEF Make
  <2>2. m # n
    BY DEF Fresh
  <2> QED
    BY <1>0, <2>1, <2>2
<1>3. CASE Copy
  <2> DEFINE copied == {op.node} \cup {m \in Live : op.node \in Climb(m, Live)}
  <2>1. PICK f \in [copied -> Ids \ Nodes] :
            owner' = [m \in Ids |-> IF m \in {f[k] : k \in copied} THEN op.owner ELSE owner[m]]
    BY <1>3, CopyRows
  <2> HIDE DEF copied
  <2> QED
    BY <1>0, <2>1
<1>4. CASE Move \/ Send
  BY <1>4 DEF Move, Send
<1> QED
  BY <1>2, <1>3, <1>4 DEF CreateFolder, Put

(* Every step keeps the grants and links in order.                         *)
LEMMA GrantInvStep == TreeInv /\ GrantInv /\ [Next]_vars => GrantInv'
<1> SUFFICES ASSUME TreeInv, GrantInv, [Next]_vars PROVE GrantInv'
  OBVIOUS
<1>1. ASSUME UNCHANGED <<owner, grants, links>> PROVE GrantInv'
  BY <1>1, GivenStays DEF Nodes
<1>2. ASSUME NEW what, Look(what) PROVE GrantInv'
  BY <1>1, <1>2 DEF Look, treeVars
<1>3. CASE TreeStep
  <2>1. ASSUME NEW u, \/ \E kind \in {"folder", "file"} : LookMake(u, kind)
                      \/ LookMove(u) \/ LookCopy(u) \/ LookSend(u)
        PROVE  GrantInv'
    BY <1>2, <2>1 DEF LookMake, LookMove, LookCopy, LookSend
  <2>2. ASSUME NEW u, NEW n, Restore(u, n) PROVE GrantInv'
    BY <1>1, <2>2 DEF Restore
  <2>3. ASSUME op = Idle, NEW u \in Accounts, NEW n \in TrashRoots(u), Purge(n) PROVE GrantInv'
    <3>1. Nodes' = Nodes \ Cascade({n}) /\ \A m \in Nodes' : owner'[m] = owner[m]
      BY <2>3, TreePurge
    <3>2. /\ grants' \subseteq grants /\ links' \subseteq links
          /\ \A r \in grants' \cup links' : r.node \notin Cascade({n})
      BY <2>3 DEF Purge, Deleted
    <3>3. \A r \in grants \cup links : r.node \in Nodes
      BY DEF GrantInv, GrantRows, LinkRows
    <3> QED
      BY <3>1, <3>2, <3>3, GivenKept
  <2>4. CASE CreateFolder \/ Put \/ Move \/ Copy \/ Send
    <3>1. UNCHANGED <<grants, links>>
      BY <2>4 DEF CreateFolder, Put, Make, Move, Copy, Send
    <3> QED
      BY <2>4, <3>1, OwnersStay, GivenStays
  <2>5. CASE Refuse
    BY <1>1, <2>5 DEF Refuse, treeVars
  <2> QED
    BY <1>3, <2>1, <2>2, <2>3, <2>4, <2>5 DEF TreeStep
<1>4. CASE SharingStep
  <2>1. ASSUME NEW u, NEW g, Withdraw(u, g) PROVE GrantInv'
    <3>1. grants' \subseteq grants /\ links' = links /\ owner' = owner /\ Nodes' = Nodes
      BY <2>1 DEF Withdraw, treeVars, Nodes
    <3> QED
      BY <3>1, GivenKept DEF GrantInv, GrantRows, LinkRows
  <2>2. ASSUME NEW l, TakeDown(l) PROVE GrantInv'
    <3>1. grants' = grants /\ links' \subseteq links /\ owner' = owner /\ Nodes' = Nodes
      BY <2>2 DEF TakeDown, treeVars, Nodes
    <3> QED
      BY <3>1, GivenKept DEF GrantInv, GrantRows, LinkRows
  <2>3. ASSUME NEW l, Visit(l) PROVE GrantInv'
    BY <1>2, <2>3 DEF Visit
  <2>4. CASE Serve
    BY <1>1, <2>4 DEF Serve, treeVars
  <2> QED
    BY <1>4, <2>1, <2>2, <2>3, <2>4, GrantGive, GrantMint DEF SharingStep
<1>5. CASE AccountStep
  <2>1. ASSUME NEW u, NEW a, Create(u, a) PROVE GrantInv'
    BY <1>1, <2>1 DEF Create, treeVars
  <2>2. ASSUME NEW u, NEW a, LookEmail(u, a) PROVE GrantInv'
    BY <1>2, <2>2 DEF LookEmail
  <2> QED
    BY <1>5, <2>1, <2>2, GrantEmail, GrantDepart DEF AccountStep
<1>6. CASE UNCHANGED vars
  BY <1>1, <1>6 DEF vars
<1> QED
  BY <1>3, <1>4, <1>5, <1>6 DEF Next

(* There are no grants and no links at first.                              *)
LEMMA GrantInvInit == Init => GrantInv
BY FS_EmptySet, LimitsAssumption DEF Init, GrantInv, GrantRows, LinkRows

(* Grants and links are in order in every reachable state.                 *)
LEMMA GrantInvariant == Spec => []GrantInv
BY GrantInvInit, GrantInvStep, TreeInvariant, PTL DEF Spec

(* Whatever moves, leaves, is handed over or changes its address: a grant  *)
(* or a link that stands was made by the account that owns its node now.   *)
THEOREM OnlyOwnersGive == Spec => []GivenByTheOwner
<1>1. GrantInv => GivenByTheOwner
  BY DEF GrantInv, GrantRows, LinkRows, GivenByTheOwner
<1> QED
  BY <1>1, GrantInvariant, PTL

-----------------------------------------------------------------------------
(* The sums *)

(* Bytes add up.                                                           *)
LEMMA BytesAddUp ==
    ASSUME NEW S \in SUBSET Ids, NEW T \in SUBSET Ids
    PROVE  /\ Bytes(S) \in Nat
           /\ S \cap T = {} => Bytes(S \cup T) = Bytes(S) + Bytes(T)
           /\ T \subseteq S => Bytes(S \ T) = Bytes(S) - Bytes(T)
           /\ Bytes(S \ T) <= Bytes(S)
           /\ Bytes(S) = 0 => S \cap Files = {}
           /\ S \cap Files = {} => Bytes(S) = 0
<1> DEFINE s == S \cap Files
           t == T \cap Files
<1>1. IsFiniteSet(s) /\ IsFiniteSet(t)
  BY RowsFinite, FS_Subset
<1>2. Cardinality(s) \in Nat /\ Cardinality(t) \in Nat
  BY <1>1, FS_CardinalityType
<1>3. Bytes(S) = Cardinality(s) /\ Bytes(T) = Cardinality(t)
  BY DEF Bytes
<1>4. ASSUME S \cap T = {} PROVE Bytes(S \cup T) = Bytes(S) + Bytes(T)
  <2>1. (S \cup T) \cap Files = s \cup t /\ s \cap t = {}
    BY <1>4
  <2>2. Cardinality(s \cup t) = Cardinality(s) + Cardinality(t) - Cardinality({})
    <3> HIDE DEF s, t
    <3>1. Cardinality(s \cup t) = Cardinality(s) + Cardinality(t) - Cardinality(s \cap t)
      BY <1>1, FS_Union
    <3> QED
      BY <2>1, <3>1
  <2>3. Bytes(S \cup T) = Cardinality(s \cup t)
    BY <2>1 DEF Bytes
  <2> HIDE DEF s, t
  <2> QED
    BY <1>2, <1>3, <2>2, <2>3, FS_EmptySet
<1>5. Cardinality(s \ t) = Cardinality(s) - Cardinality(s \cap t) /\ Cardinality(s \cap t) \in Nat
      /\ Bytes(S \ T) = Cardinality(s \ t)
  <2>1. (S \ T) \cap Files = s \ t
    OBVIOUS
  <2>2. IsFiniteSet(s \cap t)
    BY <1>1, FS_Intersection
  <2>3. Bytes(S \ T) = Cardinality(s \ t)
    BY <2>1 DEF Bytes
  <2> HIDE DEF s, t
  <2> QED
    BY <1>1, <2>2, <2>3, FS_Difference, FS_CardinalityType
<1>6. ASSUME T \subseteq S PROVE Bytes(S \ T) = Bytes(S) - Bytes(T)
  <2>1. s \cap t = t
    BY <1>6
  <2> HIDE DEF s, t
  <2> QED
    BY <1>2, <1>3, <1>5, <2>1
<1>7. Cardinality(s) = 0 <=> s = {}
  <2> HIDE DEF s
  <2> QED
    BY <1>1, FS_EmptySet
<1>8. Bytes(S \ T) <= Bytes(S)
  <2> HIDE DEF s, t
  <2> QED
    BY <1>2, <1>3, <1>5
<1> QED
  BY <1>2, <1>3, <1>4, <1>6, <1>7, <1>8

(* A copy has the bytes of what it is a copy of.                           *)
LEMMA CopyHasBytes ==
    ASSUME NEW S \in SUBSET Ids, NEW f \in [S -> Ids],
           \A m, n \in S : f[m] = f[n] => m = n,
           \A m \in S : f[m] \in Folders <=> m \in Folders
    PROVE  Bytes({f[m] : m \in S}) = Bytes(S)
<1> DEFINE s == S \cap Files
           t == {f[m] : m \in S} \cap Files
           g == [m \in s |-> f[m]]
<1>0. Ids = Folders \cup Files /\ Folders \cap Files = {}
  BY IdsAssumption DEF Ids
<1>1. IsFiniteSet(s)
  BY RowsFinite, FS_Subset
<1>2. \A m \in S : m \in Files <=> f[m] \in Files
  BY <1>0
<1>3. g \in [s -> t] /\ \A m, n \in s : g[m] = g[n] => m = n
  BY <1>2
<1>4. ASSUME NEW x \in t PROVE \E m \in s : g[m] = x
  <2>1. PICK m \in S : x = f[m]
    BY <1>4
  <2>2. m \in s
    BY <1>2, <2>1
  <2> QED
    BY <2>1, <2>2
<1> HIDE DEF g, s, t
<1>5. g \in Bijection(s, t)
  BY <1>3, <1>4 DEF Bijection, Injection, IsInjective, Surjection
<1>6. ExistsBijection(s, t)
  BY <1>5 DEF ExistsBijection
<1>7. Cardinality(t) = Cardinality(s)
  BY <1>1, <1>6, FS_Bijection
<1> QED
  BY <1>7 DEF Bytes, s, t

(* What an account is charged for.                                         *)
OwnLive(u) == {n \in Live : owner[n] = u}

SumsInv ==
    /\ bytes_used \in [Users -> 0 .. Quota]
    /\ \A u \in Users : bytes_used[u] = Bytes(OwnLive(u))
    /\ ref_count = Bytes(Nodes)

(* Nothing changes that is summed.                                         *)
LEMMA SumsStay ==
    ASSUME SumsInv, UNCHANGED <<bytes_used, ref_count, owner, trash_root>>
    PROVE  SumsInv'
BY DEF SumsInv, OwnLive, Bytes, Live, Nodes

(* New rows are charged to the account they belong to.                     *)
LEMMA SumsAdded ==
    ASSUME Columns, SumsInv, NEW new \in SUBSET (Ids \ Nodes), NEW w \in Accounts,
           Nodes' = Nodes \cup new, Live' = Live \cup new,
           owner' = [n \in Ids |-> IF n \in new THEN w ELSE owner[n]],
           Charge(w, Bytes(new)), Charged(w, Bytes(new)),
           ref_count' = ref_count + Bytes(new)
    PROVE  SumsInv'
<1> USE Kinds
<1>0. /\ bytes_used \in [Users -> 0 .. Quota] /\ Quota \in Nat /\ w \in Users
      /\ Bytes(new) \in Nat /\ new \in SUBSET Ids /\ Nodes \in SUBSET Ids
  BY BytesAddUp, LimitsAssumption DEF SumsInv
<1>1. bytes_used' = [bytes_used EXCEPT ![w] = @ + Bytes(new)]
      /\ bytes_used[w] + Bytes(new) \in 0 .. Quota
  BY <1>0 DEF Charge, Charged
<1>2. ref_count' = Bytes(Nodes')
  <2>1. Bytes(Nodes \cup new) = Bytes(Nodes) + Bytes(new)
    BY <1>0, BytesAddUp
  <2> QED
    BY <2>1 DEF SumsInv
<1>3. ASSUME NEW u \in Users PROVE bytes_used'[u] = Bytes(OwnLive(u)')
  <2>1. bytes_used[u] = Bytes(OwnLive(u))
    BY DEF SumsInv
  <2>2. OwnLive(u)' = {n \in Live' : owner'[n] = u}
    BY DEF OwnLive
  <2>3. CASE u = w
    <3>1. OwnLive(u)' = OwnLive(u) \cup new /\ OwnLive(u) \in SUBSET Ids /\ OwnLive(u) \cap new = {}
      BY <2>2, <2>3 DEF OwnLive
    <3>2. Bytes(OwnLive(u) \cup new) = Bytes(OwnLive(u)) + Bytes(new)
      BY <1>0, <3>1, BytesAddUp
    <3> QED
      BY <1>0, <1>1, <2>1, <2>3, <3>1, <3>2
  <2>4. CASE u # w
    <3>1. OwnLive(u)' = OwnLive(u)
      BY <2>2, <2>4 DEF OwnLive
    <3> QED
      BY <1>0, <1>1, <2>1, <2>4, <3>1
  <2> QED
    BY <2>3, <2>4
<1>4. bytes_used' \in [Users -> 0 .. Quota]
  BY <1>0, <1>1
<1>5. \A u \in Users : bytes_used'[u] = Bytes(OwnLive(u))'
  BY <1>3 DEF Bytes
<1> QED
  BY <1>2, <1>4, <1>5 DEF SumsInv, Bytes

(* insert_directory, put_file and copy_tree.                               *)
LEMMA SumsWritten ==
    ASSUME TreeInv, SumsInv, CreateFolder \/ Put \/ Copy
    PROVE  SumsInv'
<1> USE Kinds
<1>0. Columns
  BY DEF TreeInv
<1>1. CASE CreateFolder
  <2>0. Make("folder", Folders, 0) /\ Folders \in SUBSET Ids /\ "folder" \in {"folder", "file"}
    BY <1>1 DEF CreateFolder, Ids
  <2>1. PICK n \in Fresh(Folders) :
            /\ Nodes' = Nodes \cup {n} /\ Live' = Live \cup {n}
            /\ owner' = [m \in Ids |-> IF m \in {n} THEN op.owner ELSE owner[m]]
    BY <2>0, TreeMake
  <2> DEFINE new == {n}
  <2>2. new \in SUBSET (Ids \ Nodes) /\ new \cap Files = {} /\ op.owner \in Accounts
    BY <1>1, IdsAssumption DEF CreateFolder, Make, Fresh, Ids
  <2>3. Bytes(new) = 0
    BY <2>2, BytesAddUp
  <2>4. /\ Charge(op.owner, Bytes(new)) /\ Charged(op.owner, Bytes(new))
        /\ ref_count' = ref_count + Bytes(new)
    BY <1>1, <2>3 DEF CreateFolder, Make
  <2> HIDE DEF new
  <2> QED
    BY <1>0, <2>1, <2>2, <2>4, SumsAdded DEF new
<1>2. CASE Put
  <2>0. Make("file", Files, 1) /\ Files \in SUBSET Ids /\ "file" \in {"folder", "file"}
    BY <1>2 DEF Put, Ids
  <2>1. PICK n \in Fresh(Files) :
            /\ Nodes' = Nodes \cup {n} /\ Live' = Live \cup {n}
            /\ owner' = [m \in Ids |-> IF m \in {n} THEN op.owner ELSE owner[m]]
    BY <2>0, TreeMake
  <2> DEFINE new == {n}
  <2>2. new \in SUBSET (Ids \ Nodes) /\ new \cap Files = {n} /\ op.owner \in Accounts
    BY <1>2 DEF Put, Make, Fresh, Ids
  <2>3. Bytes(new) = 1
    BY <2>2, FS_Singleton DEF Bytes
  <2>4. /\ Charge(op.owner, Bytes(new)) /\ Charged(op.owner, Bytes(new))
        /\ ref_count' = ref_count + Bytes(new)
    BY <1>2, <2>3 DEF Put, Make
  <2> HIDE DEF new
  <2> QED
    BY <1>0, <2>1, <2>2, <2>4, SumsAdded DEF new
<1>3. CASE Copy
  <2> DEFINE copied == {op.node} \cup {m \in Live : op.node \in Climb(m, Live)}
  <2>1. PICK f \in [copied -> Ids \ Nodes] :
            /\ \A m, n \in copied : f[m] = f[n] => m = n
            /\ \A m \in copied : f[m] \in Folders <=> m \in Folders
            /\ Nodes' = Nodes \cup {f[m] : m \in copied}
            /\ Live' = Live \cup {f[m] : m \in copied}
            /\ owner' = [n \in Ids |-> IF n \in {f[m] : m \in copied} THEN op.owner
                                       ELSE owner[n]]
    BY <1>3, TreeCopy
  <2>2. copied \in SUBSET Ids /\ op.owner \in Accounts
    BY <1>0, <1>3 DEF Copy, TreeInv, StillSo, Holds
  <2>3. /\ Charge(op.owner, Bytes(copied)) /\ Charged(op.owner, Bytes(copied))
        /\ ref_count' = ref_count + Bytes(copied)
    BY <1>3 DEF Copy
  <2> DEFINE new == {f[m] : m \in copied}
  <2> HIDE DEF copied
  <2>4. f \in [copied -> Ids]
    BY <2>1
  <2>5. Bytes(new) = Bytes(copied)
    BY <2>1, <2>2, <2>4, CopyHasBytes
  <2>6. new \in SUBSET (Ids \ Nodes)
    BY <2>1
  <2>7. /\ Nodes' = Nodes \cup new /\ Live' = Live \cup new
        /\ owner' = [n \in Ids |-> IF n \in new THEN op.owner ELSE owner[n]]
    BY <2>1
  <2> HIDE DEF new
  <2> QED
    BY <1>0, <2>2, <2>3, <2>5, <2>6, <2>7, SumsAdded
<1> QED
  BY <1>1, <1>2, <1>3

(* trash::send gives the bytes back to the account that was charged.       *)
LEMMA SumsSend ==
    ASSUME TreeInv, SumsInv, Send
    PROVE  SumsInv'
<1> USE Kinds
<1> DEFINE marked == Under(op.node) \cap Live
           w == op.owner
<1>0. /\ Columns /\ bytes_used \in [Users -> 0 .. Quota] /\ Quota \in Nat
      /\ op.at = "send" /\ StillSo
  BY LimitsAssumption DEF TreeInv, SumsInv, Send
<1>1. Nodes' = Nodes /\ Live' = Live \ marked
  BY TreeSend
<1>2. /\ owner' = owner /\ ref_count' = ref_count /\ Charge(w, -Bytes(marked))
      /\ bytes_used' = [bytes_used EXCEPT ![w] = @ + (-Bytes(marked))]
  BY DEF Send, Charged
<1>3. marked \in SUBSET Ids /\ marked \subseteq Live /\ Bytes(marked) \in Nat
  BY <1>0, BytesAddUp
<1>4. \A m \in marked : op.node \in Live /\ owner[m] = owner[op.node]
  BY <1>0, MarkedAre
<1>5. w \in Accounts => \A m \in marked : owner[m] = w
  BY <1>0, <1>4 DEF StillSo, Holds
<1> HIDE DEF marked, w
<1>6. ASSUME NEW u \in Users
      PROVE  /\ OwnLive(u)' = OwnLive(u) \ marked /\ OwnLive(u) \in SUBSET Ids
             /\ bytes_used[u] = Bytes(OwnLive(u)) /\ Bytes(OwnLive(u)) \in Nat
             /\ bytes_used[u] \in 0 .. Quota
  <2>1. OwnLive(u) \in SUBSET Ids
    BY <1>0 DEF OwnLive
  <2>2. Bytes(OwnLive(u)) \in Nat
    BY <2>1, BytesAddUp
  <2> QED
    BY <1>0, <1>1, <1>2, <2>1, <2>2 DEF OwnLive, SumsInv
<1>7. CASE Bytes(marked) = 0
  <2>1. bytes_used' = bytes_used
    <3>1. CASE w \in Users
      <4>1. bytes_used[w] + (-Bytes(marked)) = bytes_used[w]
        BY <1>0, <1>7, <3>1
      <4> QED
        BY <1>0, <1>2, <3>1, <4>1
    <3>2. CASE w \notin Users
      BY <1>0, <1>2, <3>2
    <3> QED
      BY <3>1, <3>2
  <2>2. ASSUME NEW u \in Users PROVE Bytes(OwnLive(u))' = bytes_used[u]
    <3>1. marked \cap Files = {}
      BY <1>3, <1>7, BytesAddUp
    <3>2. (OwnLive(u) \ marked) \cap Files = OwnLive(u) \cap Files
      BY <3>1
    <3> QED
      BY <1>6, <3>2 DEF Bytes
  <2> QED
    BY <1>0, <1>1, <1>2, <2>1, <2>2 DEF SumsInv, Bytes
<1>8. CASE Bytes(marked) # 0
  <2>1. w \in Accounts /\ w \in Users /\ bytes_used[w] + (-Bytes(marked)) \in 0 .. Quota
    <3>1. -Bytes(marked) # 0
      BY <1>3, <1>8
    <3> QED
      BY <1>0, <1>2, <3>1 DEF Charge
  <2>2. bytes_used' \in [Users -> 0 .. Quota]
    BY <1>0, <1>2, <2>1
  <2>3. ASSUME NEW u \in Users PROVE Bytes(OwnLive(u))' = bytes_used'[u]
    <3>0. Bytes(OwnLive(u))' = Bytes(OwnLive(u) \ marked)
      BY <1>6 DEF Bytes
    <3>1. CASE u = w
      <4>1. marked \subseteq OwnLive(u)
        BY <1>3, <1>5, <2>1, <3>1 DEF OwnLive
      <4>2. Bytes(OwnLive(u) \ marked) = Bytes(OwnLive(u)) - Bytes(marked)
        BY <1>3, <1>6, <4>1, BytesAddUp
      <4> QED
        BY <1>0, <1>2, <1>3, <1>6, <2>1, <3>0, <3>1, <4>2
    <3>2. CASE u # w
      <4>1. OwnLive(u) \ marked = OwnLive(u)
        BY <1>5, <2>1, <3>2 DEF OwnLive
      <4> QED
        BY <1>0, <1>2, <1>6, <3>0, <3>2, <4>1
    <3> QED
      BY <3>1, <3>2
  <2> QED
    BY <1>1, <1>2, <2>2, <2>3 DEF SumsInv, Bytes
<1> QED
  BY <1>7, <1>8

(* restore charges the owner again for what comes back.                    *)
LEMMA SumsRestore ==
    ASSUME TreeInv, SumsInv, op = Idle, NEW u \in Accounts, NEW id \in TrashRoots(u),
           Restore(u, id)
    PROVE  SumsInv'
<1> USE Kinds
<1> DEFINE above == Climb(parent[id], Trashed) \cap Trashed
           back == above \cup {m \in Trashed : trash_root[m] = id}
<1>0. /\ Columns /\ bytes_used \in [Users -> 0 .. Quota] /\ Quota \in Nat /\ u \in Users
  BY LimitsAssumption DEF TreeInv, SumsInv
<1>1. /\ Nodes' = Nodes /\ Live' = Live \cup back
      /\ back \subseteq Trashed /\ \A m \in back : owner[m] = u
  BY TreeRestore
<1>2. /\ owner' = owner /\ ref_count' = ref_count /\ Charge(u, Bytes(back))
      /\ bytes_used' = [bytes_used EXCEPT ![u] = @ + Bytes(back)]
  BY DEF Restore, Charged
<1> HIDE DEF back
<1>3. back \in SUBSET Ids /\ Bytes(back) \in Nat
  BY <1>0, <1>1, BytesAddUp
<1>4. bytes_used[u] + Bytes(back) \in 0 .. Quota
  BY <1>0, <1>2, <1>3 DEF Charge
<1>5. ASSUME NEW v \in Users PROVE Bytes(OwnLive(v))' = bytes_used'[v]
  <2>1. bytes_used[v] = Bytes(OwnLive(v)) /\ OwnLive(v) \in SUBSET Ids
    BY <1>0 DEF SumsInv, OwnLive
  <2>2. OwnLive(v)' = {n \in Live \cup back : owner[n] = v}
    BY <1>1, <1>2 DEF OwnLive
  <2>3. CASE v = u
    <3>1. OwnLive(v)' = OwnLive(v) \cup back /\ OwnLive(v) \cap back = {}
      BY <1>0, <1>1, <2>2, <2>3 DEF OwnLive
    <3>2. Bytes(OwnLive(v) \cup back) = Bytes(OwnLive(v)) + Bytes(back)
      BY <1>3, <2>1, <3>1, BytesAddUp
    <3>3. Bytes(OwnLive(v))' = Bytes(OwnLive(v) \cup back)
      BY <3>1 DEF Bytes
    <3> QED
      BY <1>0, <1>2, <2>1, <2>3, <3>2, <3>3
  <2>4. CASE v # u
    <3>1. OwnLive(v)' = OwnLive(v)
      BY <1>1, <2>2, <2>4 DEF OwnLive
    <3>2. Bytes(OwnLive(v))' = Bytes(OwnLive(v))
      BY <3>1 DEF Bytes
    <3> QED
      BY <1>0, <1>2, <2>1, <2>4, <3>2
  <2> QED
    BY <2>3, <2>4
<1>6. bytes_used' \in [Users -> 0 .. Quota]
  BY <1>0, <1>2, <1>4
<1>7. ref_count' = Bytes(Nodes)'
  BY <1>1, <1>2 DEF SumsInv, Bytes
<1> QED
  BY <1>5, <1>6, <1>7 DEF SumsInv

(* purge lets go of every content below, and of what is trashed only.      *)
LEMMA SumsPurge ==
    ASSUME TreeInv, SumsInv, op = Idle, NEW u \in Accounts, NEW id \in TrashRoots(u), Purge(id)
    PROVE  SumsInv'
<1> USE Kinds
<1> DEFINE gone == Cascade({id})
<1>0. Columns /\ TrashShape /\ id \in Trashed
  BY DEF TreeInv, TrashRoots, Live, Trashed
<1>1. gone = {m \in Nodes : id \in Climb(m, Nodes)} /\ gone \subseteq Trashed
  BY <1>0, PurgedAre
<1>2. Nodes' = Nodes \ gone /\ Live' = Live /\ \A n \in Nodes' : owner'[n] = owner[n]
  BY TreePurge
<1>3. bytes_used' = bytes_used /\ ref_count' = ref_count - Bytes(gone)
  BY <1>1 DEF Purge
<1> HIDE DEF gone
<1>4. Bytes(Nodes \ gone) = Bytes(Nodes) - Bytes(gone)
  BY <1>0, <1>1, BytesAddUp
<1>5. \A v : OwnLive(v)' = OwnLive(v)
  BY <1>0, <1>1, <1>2 DEF OwnLive
<1>6. ref_count' = Bytes(Nodes)'
  BY <1>2, <1>3, <1>4 DEF SumsInv, Bytes
<1>7. \A v \in Users : bytes_used'[v] = Bytes(OwnLive(v))'
  BY <1>3, <1>5 DEF SumsInv, Bytes
<1> QED
  BY <1>3, <1>6, <1>7 DEF SumsInv

(* An account leaves with all that it held, ...                            *)
LEMMA SumsRemove ==
    ASSUME TreeInv, SumsInv, NEW u \in Accounts, RemoveAccount(u)
    PROVE  SumsInv'
<1> USE Kinds
<1>0. /\ Columns /\ u \in Users /\ bytes_used \in [Users -> 0 .. Quota] /\ Quota \in Nat
  BY LimitsAssumption DEF TreeInv, SumsInv
<1>1. /\ Nodes' = Nodes \ Owned(u) /\ Live' = Live \ Owned(u)
      /\ \A n \in Nodes' : owner'[n] = owner[n]
  BY TreeRemove
<1>2. bytes_used' = [bytes_used EXCEPT ![u] = 0] /\ ref_count' = ref_count - Bytes(Owned(u))
  BY DEF RemoveAccount, HeldBlobs, Owned
<1>3. Bytes(Nodes \ Owned(u)) = Bytes(Nodes) - Bytes(Owned(u))
  BY <1>0, BytesAddUp DEF Owned
<1>4. ASSUME NEW v \in Users PROVE bytes_used'[v] = Bytes(OwnLive(v))'
  <2>1. Live' \subseteq Nodes'
    BY <1>0, <1>1
  <2>2. CASE v = u
    <3>1. OwnLive(v)' = {}
      BY <1>0, <1>1, <2>1, <2>2 DEF OwnLive, Owned
    <3>2. Bytes(OwnLive(v))' = 0
      BY <3>1, FS_EmptySet DEF Bytes
    <3> QED
      BY <1>0, <1>2, <2>2, <3>2
  <2>3. CASE v # u
    <3>1. OwnLive(v)' = OwnLive(v)
      BY <1>0, <1>1, <2>1, <2>3 DEF OwnLive, Owned
    <3> QED
      BY <1>0, <1>2, <2>3, <3>1 DEF SumsInv, Bytes
  <2> QED
    BY <2>2, <2>3
<1>5. ref_count' = Bytes(Nodes)'
  BY <1>1, <1>2, <1>3 DEF SumsInv, Bytes
<1>6. bytes_used' \in [Users -> 0 .. Quota]
  BY <1>0, <1>2
<1> QED
  BY <1>4, <1>5, <1>6 DEF SumsInv

(* ... or the charge goes to the recipient with the nodes.                 *)
LEMMA SumsHandOver ==
    ASSUME TreeInv, SumsInv, NEW u \in Accounts, NEW r \in Accounts, HandOver(u, r)
    PROVE  SumsInv'
<1> USE Kinds
<1> DEFINE own == Trashed \cap Owned(u)
           given == Live \cap Owned(u)
<1>0. /\ Columns /\ u \in Users /\ r \in Users /\ u # r
      /\ bytes_used \in [Users -> 0 .. Quota] /\ Quota \in Nat
  BY LimitsAssumption DEF TreeInv, SumsInv, HandOver
<1>1. PICK folder \in Fresh(Folders) :
          /\ Nodes' = (Nodes \ own) \cup {folder} /\ Live' = Live \cup {folder}
          /\ \A n \in Ids :
                owner'[n] = IF n = folder \/ n \in given THEN r
                            ELSE IF n \in own THEN None ELSE owner[n]
  BY HandOverIs
<1>2. /\ folder \in Ids \ Nodes /\ folder \notin Files /\ {folder} \in SUBSET Ids
      /\ {folder} \cap Files = {}
  BY IdsAssumption DEF Fresh, Ids
<1>3. Bytes({folder}) = 0
  BY <1>2, BytesAddUp
<1>4. given = OwnLive(u) /\ HandedOver(u) = given /\ HeldBlobs(u) \ given = own
  <2>1. HandedOver(u) = given
    BY HandOverIs
  <2> QED
    BY <1>0, <2>1 DEF OwnLive, Owned, HeldBlobs
<1>5. /\ bytes_used' = [bytes_used EXCEPT ![u] = 0, ![r] = @ + bytes_used[u]]
      /\ ref_count' = ref_count - Bytes(own) /\ Charge(r, bytes_used[u])
  <2>1. ref_count' = ref_count - Bytes(HeldBlobs(u) \ HandedOver(u))
    BY DEF HandOver
  <2>2. /\ bytes_used' = [bytes_used EXCEPT ![u] = 0, ![r] = @ + bytes_used[u]]
        /\ Charge(r, bytes_used[u])
    BY DEF HandOver, HandoverBytes
  <2> QED
    BY <1>4, <2>1, <2>2
<1>6. bytes_used[r] + bytes_used[u] \in 0 .. Quota
  BY <1>0, <1>5 DEF Charge
<1>7. /\ bytes_used'[u] = 0 /\ bytes_used'[r] = bytes_used[r] + bytes_used[u]
      /\ \A v \in Users \ {u, r} : bytes_used'[v] = bytes_used[v]
      /\ bytes_used' \in [Users -> 0 .. Quota]
  BY <1>0, <1>5, <1>6
<1>a. own \subseteq Nodes /\ own \cap Live = {} /\ given \subseteq Live
      /\ \A n \in Live : n \in given <=> owner[n] = u
  BY <1>0 DEF Owned
<1> HIDE DEF own, given
<1>8. Bytes((Nodes \ own) \cup {folder}) = Bytes(Nodes) - Bytes(own)
  <2>1. (Nodes \ own) \in SUBSET Ids /\ own \in SUBSET Ids /\ (Nodes \ own) \cap {folder} = {}
        /\ Nodes \in SUBSET Ids
    BY <1>0, <1>2, <1>a
  <2>2. Bytes(Nodes \ own) = Bytes(Nodes) - Bytes(own) /\ Bytes(Nodes \ own) \in Nat
    BY <1>a, <2>1, BytesAddUp
  <2>3. Bytes((Nodes \ own) \cup {folder}) = Bytes(Nodes \ own) + Bytes({folder})
    BY <1>2, <2>1, BytesAddUp
  <2> QED
    BY <1>3, <2>2, <2>3
<1>9. ref_count' = Bytes(Nodes)'
  BY <1>1, <1>5, <1>8 DEF SumsInv, Bytes
<1>10. ASSUME NEW v \in Users PROVE bytes_used'[v] = Bytes(OwnLive(v))'
  <2>1. \A n \in Live : /\ n \in Ids /\ n # folder
                        /\ owner'[n] = IF owner[n] = u THEN r ELSE owner[n]
    BY <1>0, <1>1, <1>2, <1>a
  <2>2. owner'[folder] = r
    BY <1>1, <1>2
  <2>3. OwnLive(v)' = {n \in Live \cup {folder} : owner'[n] = v}
    BY <1>1 DEF OwnLive
  <2>4. CASE v = u
    <3>1. OwnLive(v)' = {}
      BY <1>0, <2>1, <2>2, <2>3, <2>4
    <3>2. Bytes(OwnLive(v))' = 0
      BY <3>1, FS_EmptySet DEF Bytes
    <3> QED
      BY <1>7, <2>4, <3>2
  <2>5. CASE v = r
    <3>1. OwnLive(v)' = (OwnLive(r) \cup OwnLive(u)) \cup {folder}
      BY <1>0, <2>1, <2>2, <2>3, <2>5 DEF OwnLive
    <3>2. /\ OwnLive(r) \in SUBSET Ids /\ OwnLive(u) \in SUBSET Ids
          /\ OwnLive(r) \cap OwnLive(u) = {}
          /\ (OwnLive(r) \cup OwnLive(u)) \cap {folder} = {}
      BY <1>0, <1>2 DEF OwnLive
    <3>3. Bytes(OwnLive(r) \cup OwnLive(u)) = Bytes(OwnLive(r)) + Bytes(OwnLive(u))
      BY <3>2, BytesAddUp
    <3>4. Bytes((OwnLive(r) \cup OwnLive(u)) \cup {folder})
              = Bytes(OwnLive(r) \cup OwnLive(u)) + Bytes({folder})
      BY <1>2, <3>2, BytesAddUp
    <3>5. Bytes(OwnLive(v))' = Bytes((OwnLive(r) \cup OwnLive(u)) \cup {folder})
      BY <3>1 DEF Bytes
    <3>6. Bytes(OwnLive(r)) = bytes_used[r] /\ Bytes(OwnLive(u)) = bytes_used[u]
      BY <1>0 DEF SumsInv
    <3> QED
      BY <1>0, <1>3, <1>7, <2>5, <3>3, <3>4, <3>5, <3>6
  <2>6. CASE v \notin {u, r}
    <3>1. OwnLive(v)' = OwnLive(v)
      BY <1>0, <2>1, <2>2, <2>3, <2>6 DEF OwnLive
    <3>2. Bytes(OwnLive(v))' = Bytes(OwnLive(v))
      BY <3>1 DEF Bytes
    <3> QED
      BY <1>7, <2>6, <3>2 DEF SumsInv
  <2> QED
    BY <2>4, <2>5, <2>6
<1> QED
  BY <1>7, <1>9, <1>10 DEF SumsInv

(* Every step keeps the sums.                                              *)
LEMMA SumsInvStep == TreeInv /\ SumsInv /\ [Next]_vars => SumsInv'
<1> SUFFICES ASSUME TreeInv, SumsInv, [Next]_vars PROVE SumsInv'
  OBVIOUS
<1>1. ASSUME NEW what, Look(what) PROVE SumsInv'
  BY <1>1, SumsStay DEF Look, treeVars
<1>2. CASE TreeStep
  <2>1. ASSUME NEW u, \/ \E kind \in {"folder", "file"} : LookMake(u, kind)
                      \/ LookMove(u) \/ LookCopy(u) \/ LookSend(u)
        PROVE  SumsInv'
    BY <1>1, <2>1 DEF LookMake, LookMove, LookCopy, LookSend
  <2>2. CASE Move \/ Refuse
    BY <2>2, SumsStay DEF Move, Refuse, treeVars
  <2> QED
    BY <1>2, <2>1, <2>2, SumsWritten, SumsSend, SumsRestore, SumsPurge DEF TreeStep
<1>3. CASE SharingStep
  <2>1. ASSUME NEW l, Visit(l) PROVE SumsInv'
    BY <1>1, <2>1 DEF Visit
  <2>2. ASSUME UNCHANGED <<bytes_used, ref_count, treeVars>> PROVE SumsInv'
    BY <2>2, SumsStay DEF treeVars
  <2>3. ASSUME NEW u, NEW n, NEW a, NEW access, NEW x, Give(u, n, a, access, x) PROVE SumsInv'
    BY <2>2, <2>3 DEF Give
  <2>4. ASSUME NEW u, NEW g, Withdraw(u, g) PROVE SumsInv'
    BY <2>2, <2>4 DEF Withdraw
  <2>5. ASSUME NEW u, NEW n, Mint(u, n) PROVE SumsInv'
    BY <2>2, <2>5 DEF Mint
  <2>6. ASSUME NEW l, TakeDown(l) PROVE SumsInv'
    BY <2>2, <2>6 DEF TakeDown
  <2>7. CASE Serve
    BY <2>2, <2>7 DEF Serve
  <2> QED
    BY <1>3, <2>1, <2>3, <2>4, <2>5, <2>6, <2>7 DEF SharingStep
<1>4. CASE AccountStep
  <2>1. ASSUME NEW u, NEW a, Create(u, a) PROVE SumsInv'
    BY <2>1, SumsStay DEF Create, treeVars
  <2>2. CASE SetEmail
    BY <2>2, SumsStay DEF SetEmail, treeVars
  <2>3. ASSUME NEW u, NEW a, LookEmail(u, a) PROVE SumsInv'
    BY <1>1, <2>3 DEF LookEmail
  <2> QED
    BY <1>4, <2>1, <2>2, <2>3, SumsRemove, SumsHandOver DEF AccountStep
<1>5. CASE UNCHANGED vars
  BY <1>5, SumsStay DEF vars
<1> QED
  BY <1>2, <1>3, <1>4, <1>5 DEF Next

(* At first nobody has anything.                                           *)
LEMMA SumsInvInit == Init => SumsInv
<1> SUFFICES ASSUME Init PROVE SumsInv
  OBVIOUS
<1>1. Nodes = {} /\ \A u : OwnLive(u) = {}
  BY DEF Init, Nodes, Live, OwnLive
<1> QED
  BY <1>1, FS_EmptySet, LimitsAssumption DEF Init, SumsInv, Bytes

(* The sums are right in every reachable state.                            *)
LEMMA SumsInvariant == Spec => []SumsInv
BY SumsInvInit, SumsInvStep, TreeInvariant, PTL DEF Spec

(* Every account is charged for exactly what it owns and the content is    *)
(* held once for each file, for any number of accounts and nodes, whoever  *)
(* leaves while a request is under way.                                    *)
THEOREM SumsBalance == Spec => []SumsExact
<1>1. SumsInv => SumsExact
  BY DEF SumsInv, OwnLive, SumsExact
<1> QED
  BY <1>1, SumsInvariant, PTL

-----------------------------------------------------------------------------
(* Addresses *)

(* No two accounts have the same address.                                  *)
EmailUnique == \A u, v \in Accounts : email[u] = email[v] => u = v

(* How addresses change.                                                   *)
LEMMA EmailSteps ==
    ASSUME [Next]_vars
    PROVE  \/ email' = email
           \/ \E u \in Users, a \in Addresses : Create(u, a)
           \/ SetEmail
           \/ \E u \in Accounts : email' = [email EXCEPT ![u] = None]
<1>1. TreeStep => email' = email
  BY DEF TreeStep, LookMake, LookMove, LookCopy, LookSend, Look, Restore, Purge, CreateFolder,
         Put, Make, Move, Copy, Send, Refuse
<1>2. SharingStep => email' = email
  BY DEF SharingStep, Give, Mint, Withdraw, TakeDown, Visit, Look, Serve
<1>3. \A u, a : LookEmail(u, a) => email' = email
  BY DEF LookEmail, Look
<1>4. \A u : RemoveAccount(u) => email' = [email EXCEPT ![u] = None]
  BY DEF RemoveAccount, Farewell
<1>5. \A u, r : HandOver(u, r) => email' = [email EXCEPT ![u] = None]
  BY DEF HandOver, Farewell
<1> QED
  BY <1>1, <1>2, <1>3, <1>4, <1>5 DEF Next, AccountStep, vars

(* An address that is taken is not given to another account.               *)
LEMMA EmailStep == TreeInv /\ EmailUnique /\ [Next]_vars => EmailUnique'
<1> SUFFICES ASSUME TreeInv, EmailUnique, [Next]_vars PROVE EmailUnique'
  OBVIOUS
<1>0. email \in [Users -> Addresses \cup {None}] /\ None \notin Addresses
  BY IdsAssumption DEF TreeInv, Columns
<1>1. CASE email' = email
  BY <1>1 DEF EmailUnique, Accounts
<1>2. ASSUME NEW u \in Users, NEW a \in Addresses, Create(u, a) PROVE EmailUnique'
  <2>1. email' = [email EXCEPT ![u] = a] /\ \A v \in Accounts : email[v] # a
    BY <1>2 DEF Create
  <2> QED
    BY <1>0, <2>1 DEF EmailUnique, Accounts
<1>3. CASE SetEmail
  <2>1. /\ email' = [email EXCEPT ![op.owner] = op.dir] /\ op.owner \in Accounts
        /\ \A v \in Accounts \ {op.owner} : email[v] # op.dir
    BY <1>3 DEF SetEmail
  <2> QED
    BY <1>0, <2>1 DEF EmailUnique, Accounts
<1>4. ASSUME NEW u \in Accounts, email' = [email EXCEPT ![u] = None] PROVE EmailUnique'
  BY <1>0, <1>4 DEF EmailUnique, Accounts
<1> QED
  BY <1>1, <1>2, <1>3, <1>4, EmailSteps

(* The rows refer to rows that are there, addresses are unique, and no     *)
(* constraint of the grants table ever fails, for any number of accounts,  *)
(* nodes and grants.                                                       *)
THEOREM RowsAreWellFormed == Spec => []TypeOK
<1>1. Init => EmailUnique
  BY DEF Init, EmailUnique, Accounts
<1>2. TreeInv /\ EmailUnique /\ GrantInv /\ SumsInv => TypeOK
  <2> SUFFICES ASSUME TreeInv, EmailUnique, GrantInv, SumsInv PROVE TypeOK
    OBVIOUS
  <2> USE Kinds
  <2>0. Columns /\ TrashShape
    BY DEF TreeInv
  <2>1. /\ email \in [Users -> Addresses \cup {None}]
        /\ owner \in [Ids -> Accounts \cup {None}]
        /\ parent \in [Ids -> Nodes \cup Accounts \cup {None}]
        /\ \A n \in Ids \ Nodes : parent[n] = None /\ trash_root[n] = None
    BY <2>0 DEF Columns, Nodes
  <2>2. trash_root \in [Ids -> Nodes \cup {None}]
    <3>1. \A n \in Ids : trash_root[n] \in Nodes \cup {None}
      BY <2>0 DEF TrashShape, BatchesHaveRoots
    <3> QED
      BY <2>0, <3>1 DEF Columns
  <2>3. bytes_used \in [Users -> 0 .. Quota] /\ ref_count \in Nat
    BY <2>0, BytesAddUp DEF SumsInv
  <2>4. \A r \in grants \cup links : r.node \in Nodes /\ r.created_by \in Accounts
    BY <2>0 DEF GrantInv, GrantRows, LinkRows, Columns
  <2>5. /\ grants \subseteq Grant /\ links \subseteq Link
        /\ \A g, h \in grants :
              g.grantee = h.grantee /\ (g.node = h.node \/ g.mount_name = h.mount_name) => g = h
    BY DEF GrantInv, GrantRows, LinkRows
  <2>6. op \in Op
    BY DEF TreeInv, StillSo
  <2> QED
    BY <2>1, <2>2, <2>3, <2>4, <2>5, <2>6 DEF TypeOK, EmailUnique
<1> QED
  BY <1>1, <1>2, EmailStep, TreeInvariant, GrantInvariant, SumsInvariant, PTL DEF Spec

(* What address a may do with node m by the rows.                          *)
Has(rows, a, m, right) == \E h \in rows : h.grantee = a /\ h.node = m /\ h.access = right

(* A node is given to an address once.                                     *)
LEMMA OneRight ==
    ASSUME NEW rows, GrantRows(rows), NEW a, NEW m
    PROVE  ~(Has(rows, a, m, "read") /\ Has(rows, a, m, "write"))
BY DEF GrantRows, Has

(* A round of reassign gives the new address the moving right, or raises   *)
(* the one it has, and changes no other.                                   *)
LEMMA RoundRights ==
    ASSUME NEW rows, GrantRows(rows), NEW g \in rows, NEW a \in Addresses, g.grantee # a,
           NEW m
    PROVE  LET new == ReassignOne(rows, g, a)
           IN  /\ Has(new, a, m, "write") <=>
                     Has(rows, a, m, "write") \/ (g.node = m /\ g.access = "write")
               /\ Has(new, a, m, "read") <=>
                     /\ ~Has(new, a, m, "write")
                     /\ Has(rows, a, m, "read") \/ (g.node = m /\ g.access = "read")
               /\ \A b : b \notin {g.grantee, a} =>
                     {h \in new : h.grantee = b} = {h \in rows : h.grantee = b}
<1> DEFINE already == {h \in rows : h.grantee = a /\ h.node = g.node}
           round == ReassignOne(rows, g, a)
<1>0. rows \subseteq Grant /\ g \in Grant /\ g.access \in {"read", "write"}
  BY DEF GrantRows, Grant, Access
<1>1. CASE already = {}
  <2> DEFINE name == FreeMountName(rows, a, g.mount_name)
             new == [g EXCEPT !.grantee = a, !.mount_name = name]
  <2> HIDE DEF name
  <2>1. new.node = g.node /\ new.access = g.access /\ new.grantee = a
    BY <1>0 DEF Grant
  <2>2. round = (rows \ {g}) \cup {new}
    BY <1>1 DEF ReassignOne, name
  <2>3. \A h \in rows : h.grantee = a => h.node # g.node /\ h # g
    BY <1>1
  <2> HIDE DEF new, round, already
  <2>4. \A right : Has(round, a, m, right) <=>
            Has(rows, a, m, right) \/ (g.node = m /\ g.access = right)
    BY <2>1, <2>2, <2>3 DEF Has
  <2>5. Has(round, a, m, "read") => ~Has(round, a, m, "write")
    BY <1>0, <2>1, <2>2, <2>3, OneRight DEF Has
  <2>6. \A b : b \notin {g.grantee, a} =>
            {h \in round : h.grantee = b} = {h \in rows : h.grantee = b}
    BY <2>1, <2>2
  <2> QED
    BY <2>4, <2>5, <2>6 DEF round
<1>2. ASSUME NEW x \in already
      PROVE  /\ Has(round, a, m, "write") <=>
                   Has(rows, a, m, "write") \/ (g.node = m /\ g.access = "write")
             /\ Has(round, a, m, "read") <=>
                   /\ ~Has(round, a, m, "write")
                   /\ Has(rows, a, m, "read") \/ (g.node = m /\ g.access = "read")
             /\ \A b : b \notin {g.grantee, a} =>
                   {h \in round : h.grantee = b} = {h \in rows : h.grantee = b}
  <2> DEFINE new == Merged(x, g)
  <2>1. already = {x} /\ x \in rows /\ x.grantee = a /\ x.node = g.node /\ x \in Grant
    BY <1>0, <1>2 DEF GrantRows
  <2>2. /\ new.node = g.node /\ new.grantee = a
        /\ new.access = IF g.access = "write" THEN "write" ELSE x.access
        /\ x.access \in {"read", "write"}
    BY <2>1 DEF Merged, Grant, Access
  <2>3. round = (rows \ {x, g}) \cup {new}
    <3>1. round = (rows \ (already \cup {g})) \cup ({Merged(h, g) : h \in already} \ {g})
      BY <1>2 DEF ReassignOne
    <3>2. new # g
      BY <2>2
    <3> HIDE DEF already, round
    <3> QED
      BY <2>1, <3>1, <3>2
  <2>4. \A h \in rows : h.grantee = a /\ h.node = g.node => h = x
    BY <2>1
  <2>5. \A h \in rows : h.grantee = a => h # g
    OBVIOUS
  <2> HIDE DEF new, round, already
  <2>6. CASE m = g.node
    <3>1. \A right : Has(rows, a, m, right) <=> x.access = right
      BY <2>1, <2>4, <2>6 DEF Has
    <3>2. \A right : Has(round, a, m, right) <=> new.access = right
      BY <2>2, <2>3, <2>4, <2>6 DEF Has
    <3>3. Has(rows, a, m, "write") <=> x.access = "write"
      BY <3>1
    <3>4. Has(rows, a, m, "read") <=> x.access = "read"
      BY <3>1
    <3>5. Has(round, a, m, "write") <=> new.access = "write"
      BY <3>2
    <3>6. Has(round, a, m, "read") <=> new.access = "read"
      BY <3>2
    <3>7. /\ Has(round, a, m, "write") <=>
                 Has(rows, a, m, "write") \/ (g.node = m /\ g.access = "write")
          /\ Has(round, a, m, "read") <=>
                 /\ ~Has(round, a, m, "write")
                 /\ Has(rows, a, m, "read") \/ (g.node = m /\ g.access = "read")
      BY <1>0, <2>2, <2>6, <3>3, <3>4, <3>5, <3>6
    <3>8. \A b : b \notin {g.grantee, a} =>
              {h \in round : h.grantee = b} = {h \in rows : h.grantee = b}
      BY <2>1, <2>2, <2>3
    <3> QED
      BY <3>7, <3>8
  <2>7. CASE m # g.node
    <3>1. \A right : Has(round, a, m, right) <=> Has(rows, a, m, right)
      BY <2>1, <2>2, <2>3, <2>5, <2>7 DEF Has
    <3>2. /\ Has(round, a, m, "write") <=> Has(rows, a, m, "write")
          /\ Has(round, a, m, "read") <=> Has(rows, a, m, "read")
      BY <3>1
    <3>3. ~(Has(rows, a, m, "read") /\ Has(rows, a, m, "write"))
      BY OneRight
    <3>4. \A b : b \notin {g.grantee, a} =>
              {h \in round : h.grantee = b} = {h \in rows : h.grantee = b}
      BY <2>1, <2>2, <2>3
    <3> QED
      BY <2>7, <3>2, <3>3, <3>4
  <2> QED
    BY <2>6, <2>7
<1> QED
  BY <1>1, <1>2 DEF round

(* reassign as a whole: the new address has what either had, at its        *)
(* strongest, and all others have what they had.                           *)
LEMMA ReassignRights ==
    ASSUME NEW rows, GrantRows(rows), Cardinality(rows) <= MostGiven, NEW old,
           NEW a \in Addresses, old # a, NEW moving \in SetToSeqs(GivenTo(rows, old))
    PROVE  LET left == Reassign(rows, moving, a)
           IN  /\ GrantRows(left)
               /\ \A m : Has(left, a, m, "write") <=>
                     Has(rows, a, m, "write") \/ Has(rows, old, m, "write")
               /\ \A m : Has(left, a, m, "read") <=>
                     /\ ~Has(left, a, m, "write")
                     /\ Has(rows, a, m, "read") \/ Has(rows, old, m, "read")
               /\ \A b : b \notin {old, a} =>
                     GivenTo(left, b) = GivenTo(rows, b)
<1> DEFINE n == Cardinality(GivenTo(rows, old))
<1>1. /\ n \in Nat
      /\ \A g \in rows : g.grantee = old => \E j \in 1 .. n : moving[j] = g
      /\ \A j \in 1 .. n : moving[j] \in rows /\ moving[j].grantee = old
      /\ \E f : InOrder(f, rows, moving, a, n)
  BY ReassignIs
<1>2. PICK f : InOrder(f, rows, moving, a, n)
  BY <1>1
<1> HIDE DEF n
<1>3. /\ f[0] = rows /\ Reassign(rows, moving, a) = f[n]
      /\ \A k \in 0 .. n - 1 : f[k + 1] = ReassignOne(f[k], moving[k + 1], a)
      /\ \A k \in 0 .. n : GrantRows(f[k]) /\ \A j \in k + 1 .. n : moving[j] \in f[k]
  BY <1>2 DEF InOrder
<1> DEFINE Moved(k, m, right) ==
               \E j \in 1 .. k : moving[j].node = m /\ moving[j].access = right
           Writes(k) == \A m : Has(f[k], a, m, "write") <=>
                            Has(rows, a, m, "write") \/ Moved(k, m, "write")
           Reads(k) == \A m : Has(f[k], a, m, "read") <=>
                            /\ ~Has(f[k], a, m, "write")
                            /\ Has(rows, a, m, "read") \/ Moved(k, m, "read")
           Others(k) == \A b : b \notin {old, a} =>
                            {h \in f[k] : h.grantee = b} = {h \in rows : h.grantee = b}
           Good == {k \in 0 .. n : Writes(k) /\ Reads(k) /\ Others(k)}
<1>4. 0 \in Good
  <2>1. \A m, right : ~Moved(0, m, right)
    OBVIOUS
  <2>2. \A m : ~(Has(rows, a, m, "read") /\ Has(rows, a, m, "write"))
    BY OneRight
  <2> HIDE DEF Moved
  <2> QED
    BY <1>1, <1>3, <2>1, <2>2
<1>5. ASSUME NEW k \in 0 .. n - 1, k \in Good PROVE k + 1 \in Good
  <2> DEFINE g == moving[k + 1]
  <2>1. k \in 0 .. n /\ k + 1 \in 0 .. n /\ k + 1 \in 1 .. n /\ k + 1 \in k + 1 .. n
    BY <1>1
  <2>2. /\ GrantRows(f[k]) /\ g \in f[k] /\ g.grantee = old /\ g.grantee # a
        /\ f[k + 1] = ReassignOne(f[k], g, a)
    BY <1>1, <1>3, <2>1
  <2>3. ASSUME NEW m, NEW right
        PROVE  Moved(k + 1, m, right) <=> Moved(k, m, right) \/ (g.node = m /\ g.access = right)
    <3>1. 1 .. k + 1 = (1 .. k) \cup {k + 1}
      BY <1>1
    <3> QED
      BY <3>1
  <2>4. Writes(k) /\ Reads(k) /\ Others(k)
    BY <1>5
  <2> HIDE DEF g, Moved
  <2>5. ASSUME NEW m
        PROVE  /\ Has(f[k + 1], a, m, "write") <=>
                      Has(f[k], a, m, "write") \/ (g.node = m /\ g.access = "write")
               /\ Has(f[k + 1], a, m, "read") <=>
                      /\ ~Has(f[k + 1], a, m, "write")
                      /\ Has(f[k], a, m, "read") \/ (g.node = m /\ g.access = "read")
               /\ \A b : b \notin {g.grantee, a} =>
                      {h \in f[k + 1] : h.grantee = b} = {h \in f[k] : h.grantee = b}
    BY <2>2, RoundRights
  <2>6. Writes(k + 1)
    BY <2>3, <2>4, <2>5
  <2>7. Reads(k + 1)
    BY <2>3, <2>4, <2>5
  <2>8. Others(k + 1)
    BY <2>2, <2>4, <2>5
  <2> QED
    BY <2>1, <2>6, <2>7, <2>8
<1>6. ASSUME NEW m, NEW right PROVE Moved(n, m, right) <=> Has(rows, old, m, right)
  BY <1>1 DEF Has
<1> HIDE DEF Moved
<1>7. n \in Good
  <2> HIDE DEF Good
  <2>1. \A k \in 0 .. n : k \in Good
    BY <1>1, <1>4, <1>5, UpTo
  <2> QED
    BY <1>1, <2>1
<1>8. Writes(n) /\ Reads(n) /\ Others(n) /\ GrantRows(f[n])
  BY <1>1, <1>3, <1>7
<1> QED
  BY <1>3, <1>6, <1>8 DEF GivenTo

(* The rights of an address, by what it has.                               *)
LEMMA RightsAre ==
    ASSUME NEW rows, rows \subseteq Grant, NEW a
    PROVE  /\ Rights(rows, a) \subseteq Ids \X {"read", "write"}
           /\ \A m, right : <<m, right>> \in Rights(rows, a) <=> Has(rows, a, m, right)
<1>1. Rights(rows, a) \subseteq Ids \X {"read", "write"}
  BY DEF Rights, Grant, Access
<1>2. \A m, right : <<m, right>> \in Rights(rows, a) <=> Has(rows, a, m, right)
  BY DEF Rights, Has
<1> QED
  BY <1>1, <1>2

(* The strongest of two sets of rights, right by right.                    *)
LEMMA StrongestAre ==
    ASSUME NEW R, R \subseteq Ids \X {"read", "write"},
           NEW P, P \subseteq Ids \X {"read", "write"},
           \A m \in Ids : /\ <<m, "write">> \in R <=> <<m, "write">> \in P
                          /\ <<m, "read">> \in R <=>
                                <<m, "write">> \notin R /\ <<m, "read">> \in P
    PROVE  R = Strongest(P)
<1>1. ASSUME NEW m \in Ids
      PROVE  /\ <<m, "write">> \in Strongest(P) <=> <<m, "write">> \in P
             /\ <<m, "read">> \in Strongest(P) <=>
                   <<m, "read">> \in P /\ <<m, "write">> \notin P
  BY DEF Strongest
<1>2. Strongest(P) \subseteq Ids \X {"read", "write"}
  BY DEF Strongest
<1>3. ASSUME NEW x \in Ids \X {"read", "write"} PROVE x \in R <=> x \in Strongest(P)
  <2>1. PICK m \in Ids, right \in {"read", "write"} : x = <<m, right>>
    OBVIOUS
  <2>2. CASE right = "write"
    BY <1>1, <2>1, <2>2
  <2>3. CASE right = "read"
    BY <1>1, <2>1, <2>3
  <2> QED
    BY <2>1, <2>2, <2>3
<1> QED
  BY <1>2, <1>3

(* An address that is being sent is not the one the account has.           *)
AnotherAddress == op.at = "email" /\ op.owner \in Accounts => op.dir # email[op.owner]

(* ... as long as no address is set to what it is already: while the       *)
(* request is under way nobody else sets it.                               *)
LEMMA AnotherAddressStep ==
    ASSUME SameAddress = FALSE, TreeInv, AnotherAddress, [Next]_vars
    PROVE  AnotherAddress'
<1>0. email \in [Users -> Addresses \cup {None}] /\ op \in Op
  BY DEF TreeInv, Columns, StillSo
<1>1. CASE op' = op
  <2>1. CASE email' = email
    BY <1>1, <2>1 DEF AnotherAddress, Accounts
  <2>2. ASSUME NEW u \in Users, NEW a \in Addresses, Create(u, a) PROVE AnotherAddress'
    <3>1. email' = [email EXCEPT ![u] = a] /\ op.owner # u
      BY <2>2 DEF Create
    <3> QED
      BY <1>0, <1>1, <3>1 DEF AnotherAddress, Accounts
  <2>3. CASE SetEmail
    BY <2>3, IdleHolds DEF SetEmail, AnotherAddress
  <2>4. ASSUME NEW u \in Accounts, email' = [email EXCEPT ![u] = None] PROVE AnotherAddress'
    BY <1>0, <1>1, <2>4 DEF AnotherAddress, Accounts
  <2> QED
    BY <2>1, <2>2, <2>3, <2>4, EmailSteps
<1>2. CASE op' = Idle
  BY <1>2, IdleHolds DEF AnotherAddress
<1>3. ASSUME NEW what, Look(what), what.at # "email" PROVE AnotherAddress'
  BY <1>3 DEF Look, AnotherAddress
<1>4. ASSUME NEW u \in Accounts, NEW a, LookEmail(u, a) PROVE AnotherAddress'
  <2>1. /\ a # email[u] /\ email' = email
        /\ op' = [at |-> "email", node |-> None, dir |-> a, owner |-> u]
    BY <1>4 DEF LookEmail, Look
  <2> QED
    BY <2>1 DEF AnotherAddress
<1>5. CASE TreeStep
  <2>1. ASSUME NEW u, NEW kind \in {"folder", "file"}, LookMake(u, kind) PROVE AnotherAddress'
    BY <1>3, <2>1 DEF LookMake
  <2>2. ASSUME NEW u, LookMove(u) \/ LookCopy(u) \/ LookSend(u) PROVE AnotherAddress'
    BY <1>3, <2>2 DEF LookMove, LookCopy, LookSend
  <2>3. \A u, n : Restore(u, n) \/ Purge(n) => op' = op
    BY DEF Restore, Purge
  <2>4. CreateFolder \/ Put \/ Move \/ Copy \/ Send \/ Refuse => op' = Idle
    BY DEF CreateFolder, Put, Make, Move, Copy, Send, Refuse
  <2> QED
    BY <1>1, <1>2, <1>5, <2>1, <2>2, <2>3, <2>4 DEF TreeStep
<1>6. CASE SharingStep
  <2>1. ASSUME NEW l, Visit(l) PROVE AnotherAddress'
    <3>1. Look([Idle EXCEPT !.at = "visit", !.node = l.node])
      BY <2>1 DEF Visit
    <3>2. [Idle EXCEPT !.at = "visit", !.node = l.node].at = "visit"
      BY DEF Idle
    <3> QED
      BY <1>3, <3>1, <3>2
  <2>2. \A u, n, a, access, x : Give(u, n, a, access, x) => op' = op
    BY DEF Give
  <2>3. /\ \A u, n : Mint(u, n) => op' = op
        /\ \A u, g : Withdraw(u, g) => op' = op
        /\ \A l : TakeDown(l) => op' = op
        /\ Serve => op' = Idle
    BY DEF Mint, Withdraw, TakeDown, Serve
  <2> QED
    BY <1>1, <1>2, <1>6, <2>1, <2>2, <2>3 DEF SharingStep
<1>7. CASE AccountStep
  <2>1. /\ \A u, a : Create(u, a) => op' = op
        /\ \A u : RemoveAccount(u) => op' = op
        /\ \A u, r : HandOver(u, r) => op' = op
        /\ SetEmail => op' = Idle
    BY DEF Create, RemoveAccount, HandOver, SetEmail
  <2> QED
    BY <1>1, <1>2, <1>4, <1>7, <2>1 DEF AccountStep
<1> QED
  BY <1>1, <1>5, <1>6, <1>7 DEF Next, vars

(* A request that sends an address ends in users::set_email or is refused. *)
LEMMA AddressIsSet ==
    ASSUME [Next]_vars, op.at = "email", op' = Idle
    PROVE  SetEmail \/ UNCHANGED <<email, grants>>
<1>0. op # Idle /\ op' # op
  BY IdleHolds
<1>1. \A what : ~Look(what)
  BY <1>0 DEF Look
<1>2. TreeStep => Refuse
  <2>1. ~CreateFolder /\ ~Put /\ ~Move /\ ~Copy /\ ~Send
    BY DEF CreateFolder, Put, Make, Move, Copy, Send
  <2> QED
    BY <1>0, <2>1 DEF TreeStep
<1>3. ~SharingStep
  <2>1. \A u, n, a, access, x : ~Give(u, n, a, access, x)
    BY <1>0 DEF Give
  <2>2. /\ \A u, n : ~Mint(u, n)
        /\ \A u, g : ~Withdraw(u, g)
        /\ \A l : ~TakeDown(l)
        /\ \A l : ~Visit(l)
        /\ ~Serve
    BY <1>0, <1>1 DEF Mint, Withdraw, TakeDown, Visit, Serve
  <2> QED
    BY <2>1, <2>2 DEF SharingStep
<1>4. AccountStep => SetEmail
  <2>1. /\ \A u, a : ~Create(u, a)
        /\ \A u, a : ~LookEmail(u, a)
        /\ \A u : ~RemoveAccount(u)
        /\ \A u, r : ~HandOver(u, r)
    BY <1>0, <1>1 DEF Create, LookEmail, RemoveAccount, HandOver
  <2> QED
    BY <2>1 DEF AccountStep
<1> QED
  BY <1>0, <1>2, <1>3, <1>4 DEF Next, vars, Refuse

(* An account keeps what was shared with it, at its strongest, when its    *)
(* address changes, and nobody else gains or loses a right: for any number *)
(* of grants, in whatever order reassign takes them, and for any change to *)
(* another address.                                                        *)
THEOREM SharesFollowTheAddress ==
    ASSUME SameAddress = FALSE
    PROVE  Spec => RightsFollowTheAddress
<1> DEFINE old == email[op.owner]
           new == email'[op.owner]
           Follow == op.at = "email" /\ op' = Idle /\ op.owner \in Accounts =>
               /\ Rights(grants', new) = Strongest(Rights(grants, old) \cup Rights(grants, new))
               /\ \A a \in Addresses \ {old, new} : Rights(grants', a) = Rights(grants, a)
<1>1. TreeInv /\ GrantInv /\ AnotherAddress /\ [Next]_vars => Follow
  <2> SUFFICES ASSUME TreeInv, GrantInv, AnotherAddress, [Next]_vars,
                      op.at = "email", op' = Idle, op.owner \in Accounts
               PROVE  /\ Rights(grants', new)
                             = Strongest(Rights(grants, old) \cup Rights(grants, new))
                      /\ \A a \in Addresses \ {old, new} : Rights(grants', a) = Rights(grants, a)
    OBVIOUS
  <2>0. /\ GrantRows(grants) /\ grants \subseteq Grant /\ op.owner \in Users
        /\ email \in [Users -> Addresses \cup {None}] /\ op.dir \in Addresses
        /\ op.dir # old
    BY DEF GrantInv, GrantRows, TreeInv, Columns, Accounts, StillSo, Holds, AnotherAddress
  <2>1. \A a : /\ Rights(grants, a) \subseteq Ids \X {"read", "write"}
               /\ \A m, right : <<m, right>> \in Rights(grants, a) <=> Has(grants, a, m, right)
    BY <2>0, RightsAre
  <2>2. \A a, m : ~(Has(grants, a, m, "read") /\ Has(grants, a, m, "write"))
    BY <2>0, OneRight
  <2>3. CASE UNCHANGED <<email, grants>>
    <3> DEFINE P == Rights(grants, old)
    <3>1. new = old /\ grants' = grants
      BY <2>3
    <3>2. Rights(grants, old) = Strongest(P)
      BY <2>1, <2>2, StrongestAre
    <3> QED
      BY <3>1, <3>2
  <2>4. CASE SetEmail
    <3>1. PICK moving \in SetToSeqs(GivenTo(grants, old)) :
              grants' = Reassign(grants, moving, op.dir)
      BY <2>4 DEF SetEmail, GivenTo
    <3>2. new = op.dir
      BY <2>0, <2>4 DEF SetEmail
    <3>3. Cardinality(grants) <= MostGiven
      <4>1. IsFiniteSet(grants) /\ IsFiniteSet(links)
            /\ Cardinality(grants) + Cardinality(links) <= MostGiven
        BY DEF GrantInv, GrantRows, LinkRows
      <4>2. Cardinality(grants) \in Nat /\ Cardinality(links) \in Nat
        BY <4>1, FS_CardinalityType
      <4> QED
        BY <4>1, <4>2, LimitsAssumption
    <3> HIDE DEF old, new
    <3>4. /\ GrantRows(grants')
          /\ \A m : Has(grants', op.dir, m, "write") <=>
                Has(grants, op.dir, m, "write") \/ Has(grants, old, m, "write")
          /\ \A m : Has(grants', op.dir, m, "read") <=>
                /\ ~Has(grants', op.dir, m, "write")
                /\ Has(grants, op.dir, m, "read") \/ Has(grants, old, m, "read")
          /\ \A b : b \notin {old, op.dir} =>
                GivenTo(grants', b) = GivenTo(grants, b)
      <4> DEFINE left == Reassign(grants, moving, op.dir)
      <4>1. /\ GrantRows(left)
            /\ \A m : Has(left, op.dir, m, "write") <=>
                  Has(grants, op.dir, m, "write") \/ Has(grants, old, m, "write")
            /\ \A m : Has(left, op.dir, m, "read") <=>
                  /\ ~Has(left, op.dir, m, "write")
                  /\ Has(grants, op.dir, m, "read") \/ Has(grants, old, m, "read")
            /\ \A b : b \notin {old, op.dir} =>
                  GivenTo(left, b) = GivenTo(grants, b)
        BY <2>0, <3>3, ReassignRights
      <4> HIDE DEF left
      <4>2. grants' = left
        BY <3>1 DEF left
      <4> QED
        BY <4>1, <4>2
    <3>5. grants' \subseteq Grant
      BY <3>4 DEF GrantRows
    <3>6. \A a : /\ Rights(grants', a) \subseteq Ids \X {"read", "write"}
                 /\ \A m, right : <<m, right>> \in Rights(grants', a) <=> Has(grants', a, m, right)
      BY <3>5, RightsAre
    <3>7. \A a \in Addresses \ {old, new} : Rights(grants', a) = Rights(grants, a)
      BY <3>2, <3>4 DEF Rights, GivenTo
    <3> DEFINE R == Rights(grants', new)
               P == Rights(grants, old) \cup Rights(grants, new)
    <3>8. R \subseteq Ids \X {"read", "write"} /\ P \subseteq Ids \X {"read", "write"}
      BY <2>1, <3>6
    <3>9. ASSUME NEW m \in Ids
          PROVE  /\ <<m, "write">> \in R <=> <<m, "write">> \in P
                 /\ <<m, "read">> \in R <=> <<m, "write">> \notin R /\ <<m, "read">> \in P
      BY <2>1, <3>2, <3>4, <3>6
    <3> HIDE DEF R, P
    <3>10. R = Strongest(P)
      BY <3>8, <3>9, StrongestAre
    <3> QED
      BY <3>7, <3>10 DEF R, P, old, new
  <2> QED
    BY <2>3, <2>4, AddressIsSet
<1>2. Init => AnotherAddress
  BY IdleHolds DEF Init, AnotherAddress
<1>3. TreeInv /\ AnotherAddress /\ [Next]_vars => AnotherAddress'
  BY AnotherAddressStep
<1> QED
  BY <1>1, <1>2, <1>3, TreeInvariant, GrantInvariant, PTL DEF Spec, RightsFollowTheAddress
=============================================================================
