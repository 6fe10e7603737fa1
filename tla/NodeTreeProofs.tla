---------------------------- MODULE NodeTreeProofs ----------------------------
(* The shape of the tree: what no sequence of requests, however they       *)
(* overlap, can do to it, and what the trash, the reference counts and the *)
(* quota are when they do not overlap.                                     *)
EXTENDS NodeTree, TablesProofs, SequenceTheorems

(* Climb as a function of the column it follows, so that what is known of  *)
(* it can be said of the tree before and after a step.                     *)
Walk(up, n, S) == Ancestors(up, n, S, Ids)

(* Every set of nodes that is not left by going up has the root in it.     *)
Rooted(up, N) ==
    \A C \in SUBSET Ids :
        C \cap N # {} /\ (\A x \in C \cap N : up[x] \in C \cup {None}) => Root \in C

Columns ==
    /\ nodes \subseteq Ids
    /\ parent \in [Ids -> Ids \cup {None}]
    /\ name \in [Ids -> Names \cup {None}]
    /\ blob \in [Ids -> Hashes \cup {None}]
    /\ etag \in [Ids -> Hashes \cup {None}]
    /\ trash_root \in [Ids -> Ids \cup {None}]

(* Every node but the root is in a directory that is there.                *)
Shape ==
    /\ Root \in nodes /\ parent[Root] = None /\ trash_root[Root] = None /\ blob[Root] = None
    /\ \A n \in Ids \ nodes : parent[n] = None /\ trash_root[n] = None /\ blob[n] = None
    /\ \A n \in nodes \ {Root} : parent[n] \in nodes /\ blob[parent[n]] = None

(* What a request read of the tree that nobody can change before it writes.*)
Remembered ==
    /\ ops \in [Requests -> Op]
    /\ \A r \in Requests :
           /\ ops[r].node # Root /\ ops[r].over # Root
           /\ ops[r].dir \in nodes => blob[ops[r].dir] = None
           /\ ops[r].op \in {"move", "copy", "send"} => ops[r].node \in Ids
           /\ ops[r].op \in {"put", "revert"} => ops[r].blob \in Hashes
           /\ ops[r].op = "copy" /\ ops[r].node \in nodes =>
                 (ops[r].blob = None <=> blob[ops[r].node] = None)

TreeInv == Columns /\ Shape /\ Remembered /\ Rooted(parent, nodes)

(* One request at a time *)
OneAtATime == \A r, q \in Requests : ops[r] # Idle /\ ops[q] # Idle => r = q

(* A live node is in a live directory.                                     *)
LiveBelowLive(up, N, t) == \A n \in N \ {Root} : t[n] = None => up[n] \in N /\ t[up[n]] = None

(* A batch is named after a node of it ...                                 *)
BatchesHaveRoots(N, t) == \A n \in N : t[n] # None => t[n] \in N /\ t[t[n]] = t[n]

(* ... and hangs together below that node.                                 *)
BatchesHang(up, N, t) == \A n \in N : t[n] \notin {None, n} => up[n] \in N /\ t[up[n]] = t[n]

TrashShape(up, N, t) ==
    LiveBelowLive(up, N, t) /\ BatchesHaveRoots(N, t) /\ BatchesHang(up, N, t)

(* What a request has read is still so when it writes.                     *)
StillThere ==
    \A r \in Requests :
        /\ ops[r].dir # None => ops[r].dir \in Live
        /\ ops[r].node # None => ops[r].node \in Live
        /\ ops[r].over # None => /\ ops[r].over \in Live /\ parent[ops[r].over] = ops[r].dir
                                 /\ ops[r].node \in Live
                                 /\ ops[r].over \notin Climb(ops[r].node, nodes)

TrashInv == OneAtATime /\ StillThere /\ TrashShape(parent, nodes, trash_root)
-----------------------------------------------------------------------------
(* Going up *)

(* What is known of going up in any table, for this one.                   *)
LEMMA WalkIs ==
    ASSUME NEW up \in [Ids -> Ids \cup {None}], NEW S \in SUBSET Ids, NEW n \in Ids
    PROVE  /\ n \in Walk(up, n, S) /\ Walk(up, n, S) \subseteq Ids
           /\ \A x \in Walk(up, n, S) \cap S : up[x] \in Walk(up, n, S) \cup {None}
           /\ \A C : n \in C /\ (\A x \in C \cap S : up[x] \in C \cup {None})
                        => Walk(up, n, S) \subseteq C
<1> DEFINE W == Walk(up, n, S)
<1>1. /\ n \in W /\ W \subseteq Ids
      /\ \A x \in W \cap S : up[x] \in Ids => up[x] \in W
      /\ \A C : n \in C /\ (\A x \in C \cap S : up[x] \in Ids => up[x] \in C) => W \subseteq C
  BY IdsAssumption, AncestorsAre DEF Walk
<1> HIDE DEF W
<1>2. \A x \in W \cap S : up[x] \in W \cup {None}
  BY <1>1
<1>3. ASSUME NEW C, n \in C, \A x \in C \cap S : up[x] \in C \cup {None} PROVE W \subseteq C
  BY <1>1, <1>3, NamesAssumption
<1> QED
  BY <1>1, <1>2, <1>3 DEF W

(* Going up, one step at a time, ...                                       *)
LEMMA WalkSteps ==
    ASSUME NEW up \in [Ids -> Ids \cup {None}], NEW S \in SUBSET Ids, NEW n \in Ids
    PROVE  /\ n \in S /\ up[n] # None => Walk(up, n, S) = {n} \cup Walk(up, up[n], S)
           /\ n \notin S \/ up[n] = None => Walk(up, n, S) = {n}
<1>1. up[n] # None <=> up[n] \in Ids
  BY NamesAssumption
<1> QED
  BY <1>1, IdsAssumption, AncestorsStep DEF Walk

(* ... and from each node on.                                              *)
LEMMA WalkOn ==
    ASSUME NEW up \in [Ids -> Ids \cup {None}], NEW S \in SUBSET Ids, NEW n \in Ids,
           NEW m \in Walk(up, n, S)
    PROVE  m \in Ids /\ Walk(up, m, S) \subseteq Walk(up, n, S)
  BY IdsAssumption, AncestorsOn DEF Walk

(* A way up through fewer nodes is part of the way through all of them.    *)
LEMMA WalkThroughFewer ==
    ASSUME NEW up \in [Ids -> Ids \cup {None}], NEW S \in SUBSET Ids, NEW n \in Ids,
           NEW T \in SUBSET S
    PROVE  Walk(up, n, T) \subseteq Walk(up, n, S)
  BY IdsAssumption, AncestorsFewer DEF Walk

(* Without a cycle, two nodes are not above each other.                    *)
LEMMA NotBothWays ==
    ASSUME NEW up \in [Ids -> Ids \cup {None}], NEW N \in SUBSET Ids, Rooted(up, N),
           up[Root] = None, NEW m \in N, NEW n \in N, m # n,
           n \in Walk(up, m, N), m \in Walk(up, n, N)
    PROVE  FALSE
<1>0. m \in Ids /\ n \in Ids
  OBVIOUS
<1>1. Walk(up, m, N) = Walk(up, n, N)
  BY <1>0, WalkOn
<1> DEFINE C == {x \in Walk(up, m, N) : Walk(up, x, N) = Walk(up, m, N)}
<1>2. m \in C /\ n \in C /\ C \subseteq Ids
  BY <1>0, <1>1, WalkIs
<1>3. ASSUME NEW x \in C \cap N PROVE up[x] \in C
  <2>1. x \in Ids /\ x \in Walk(up, x, N)
    BY <1>2, WalkIs
  <2>2. up[x] # None
    <3>1. up[x] = None => Walk(up, x, N) = {x}
      BY <2>1, WalkSteps
    <3> QED
      BY <1>2, <3>1
  <2>3. up[x] \in Ids /\ Walk(up, x, N) = {x} \cup Walk(up, up[x], N)
    BY <2>1, <2>2, WalkSteps
  <2>4. x \in Walk(up, up[x], N)
    <3>1. PICK y \in {m, n} : y # x
      OBVIOUS
    <3>2. y \in Ids /\ x \in Walk(up, y, N) /\ y \in Walk(up, x, N)
      BY <1>0, <1>1, <2>1, <3>1, WalkIs
    <3>3. y \in Walk(up, up[x], N)
      BY <2>3, <3>1, <3>2
    <3>4. Walk(up, y, N) \subseteq Walk(up, up[x], N)
      BY <2>3, <3>3, WalkOn
    <3> QED
      BY <3>2, <3>4
  <2>5. Walk(up, x, N) \subseteq Walk(up, up[x], N)
    BY <2>3, <2>4, WalkOn
  <2>6. up[x] \in Walk(up, up[x], N)
    BY <2>3, WalkIs
  <2> QED
    BY <2>3, <2>5, <2>6
<1> HIDE DEF C
<1>4. Root \in C
  BY <1>2, <1>3 DEF Rooted
<1>5. Root \in Ids /\ Walk(up, Root, N) = {Root}
  BY IdsAssumption, WalkSteps
<1> QED
  BY <1>2, <1>4, <1>5 DEF C

-----------------------------------------------------------------------------
(* The tree, whatever overtakes what *)

(* The columns of a tree whose rows a request has not touched, or touched  *)
(* in the trash only.                                                      *)
LEMMA RememberedKept ==
    ASSUME Remembered, Columns, nodes' \subseteq nodes \cup Fresh,
           ops' = ops \/ \E r \in Requests : Done(r),
           \A n \in nodes \cap nodes' : blob'[n] = None <=> blob[n] = None
    PROVE  Remembered'
<1>1. Root # None /\ None \notin Ids
  BY IdsAssumption, NamesAssumption
<1>2. Idle \in Op /\ Idle.node = None /\ Idle.over = None /\ Idle.dir = None /\ Idle.op = "idle"
  BY DEF Idle, Op
<1>3. ops' \in [Requests -> Op]
  BY <1>2 DEF Remembered, Done
<1>4. ASSUME NEW q \in Requests PROVE ops'[q] = ops[q] \/ ops'[q] = Idle
  BY DEF Remembered, Done
<1>5. ASSUME NEW q \in Requests
      PROVE  /\ ops[q].dir \in nodes' => ops[q].dir \in nodes
             /\ ops[q].node \in nodes' => ops[q].node \in nodes
  BY DEF Fresh
<1>6. ASSUME NEW q \in Requests
      PROVE  /\ ops'[q].node # Root /\ ops'[q].over # Root
             /\ ops'[q].dir \in nodes' => blob'[ops'[q].dir] = None
             /\ ops'[q].op \in {"move", "copy", "send"} => ops'[q].node \in Ids
             /\ ops'[q].op \in {"put", "revert"} => ops'[q].blob \in Hashes
             /\ ops'[q].op = "copy" /\ ops'[q].node \in nodes' =>
                   (ops'[q].blob = None <=> blob'[ops'[q].node] = None)
  <2>1. CASE ops'[q] = Idle
    <3>1. ops'[q].node = None /\ ops'[q].over = None /\ ops'[q].dir = None /\ ops'[q].op = "idle"
      BY <1>2, <2>1
    <3>2. None \notin nodes'
      BY <1>1 DEF Columns, Fresh
    <3> QED
      BY <1>1, <3>1, <3>2
  <2>2. CASE ops'[q] = ops[q]
    BY <1>5, <2>2 DEF Remembered
  <2> QED
    BY <1>4, <2>1, <2>2
<1> QED
  BY <1>3, <1>6 DEF Remembered

(* A new row below a directory that is there.                              *)
LEMMA InsertKeeps ==
    ASSUME TreeInv, NEW n \in Fresh, NEW p \in nodes, blob[p] = None,
           NEW x \in Names \cup {None}, NEW h \in Hashes \cup {None},
           NEW e \in Hashes \cup {None}, Insert(n, p, x, h, e)
    PROVE  Columns' /\ Shape' /\ Rooted(parent, nodes)'
<1> USE DEF TreeInv
<1>0. n \in Ids \ nodes /\ n # p /\ n # Root /\ p \in Ids
  BY DEF Fresh, Shape, Columns
<1>1. /\ nodes' = nodes \cup {n} /\ trash_root' = trash_root
      /\ parent' = [parent EXCEPT ![n] = p] /\ name' = [name EXCEPT ![n] = x]
      /\ blob' = [blob EXCEPT ![n] = h] /\ etag' = [etag EXCEPT ![n] = e]
  BY DEF Insert
<1>2. Columns'
  BY <1>0, <1>1 DEF Columns
<1>3. Shape'
  BY <1>0, <1>1 DEF Shape, Columns
<1>4. Rooted(parent', nodes')
  <2> SUFFICES ASSUME NEW C \in SUBSET Ids, C \cap nodes' # {},
                      \A m \in C \cap nodes' : parent'[m] \in C \cup {None}
               PROVE  Root \in C
    BY DEF Rooted
  <2>1. C \cap nodes # {}
    <3>1. n \in C => p \in C
      BY <1>0, <1>1, NamesAssumption DEF Columns
    <3> QED
      BY <1>1, <3>1
  <2>2. \A m \in C \cap nodes : parent[m] \in C \cup {None}
    BY <1>0, <1>1 DEF Columns
  <2> QED
    BY <2>1, <2>2 DEF Rooted
<1> QED
  BY <1>2, <1>3, <1>4

(* What send marks is never the root.                                      *)
LEMMA SubtreeSpares ==
    ASSUME TreeInv, NEW n \in Ids, n # Root
    PROVE  Subtree(n) \subseteq nodes \ {Root}
<1>1. Climb(Root, Live) = {Root}
  <2>1. Live \in SUBSET Ids /\ Root \in Ids /\ parent[Root] = None
        /\ parent \in [Ids -> Ids \cup {None}]
    BY IdsAssumption DEF TreeInv, Columns, Shape, Live
  <2>2. Walk(parent, Root, Live) = {Root}
    BY <2>1, WalkSteps
  <2> QED
    BY <2>2 DEF Walk, Climb
<1> QED
  BY <1>1 DEF Subtree, Live

(* Marking nodes as trashed leaves the rest of the tree as it is.          *)
LEMMA TrashedWithKeeps ==
    ASSUME TreeInv, NEW over \in Ids \cup {None}, over # Root
    PROVE  /\ TrashedWith(Cleared(over), over) \in [Ids -> Ids \cup {None}]
           /\ \A n \in (Ids \ nodes) \cup {Root} : TrashedWith(Cleared(over), over)[n] = None
           /\ Cleared(over) \subseteq nodes \ {Root}
<1>1. Cleared(over) \subseteq nodes \ {Root}
  BY SubtreeSpares DEF Cleared
<1> QED
  BY <1>1, IdsAssumption DEF TrashedWith, TreeInv, Columns, Shape

(* db::rename: what a directory is moved to is not inside it, and nothing  *)
(* is inside a file.                                                       *)
LEMMA MovedStaysRooted ==
    ASSUME TreeInv, NEW n \in nodes, n # Root, NEW p \in nodes, blob[p] = None,
           IsDirectory(n) => ~IsAbove(n, p)
    PROVE  Rooted([parent EXCEPT ![n] = p], nodes)
<1> USE DEF TreeInv
<1>0. /\ n \in Ids /\ p \in Ids /\ nodes \in SUBSET Ids
      /\ parent \in [Ids -> Ids \cup {None}]
  BY DEF Columns
<1> DEFINE E == Walk(parent, p, nodes)
<1>1. p \in E /\ E \subseteq Ids /\ \A x \in E \cap nodes : parent[x] \in E \cup {None}
  BY <1>0, WalkIs
<1>2. n \notin E
  <2>1. CASE IsDirectory(n)
    BY <2>1 DEF IsAbove, Climb, Walk
  <2>2. CASE ~IsDirectory(n)
    <3> DEFINE C == Ids \ {n}
    <3>1. p \in C
      BY <1>0, <2>2 DEF IsDirectory
    <3>2. \A x \in C \cap nodes : parent[x] \in C \cup {None}
      BY <1>0, <2>2 DEF IsDirectory, Shape
    <3> HIDE DEF C
    <3>3. E \subseteq C
      BY <1>0, <3>1, <3>2, WalkIs
    <3> QED
      BY <3>3 DEF C
  <2> QED
    BY <2>1, <2>2
<1> HIDE DEF E
<1> SUFFICES ASSUME NEW C \in SUBSET Ids, C \cap nodes # {},
                    \A x \in C \cap nodes : [parent EXCEPT ![n] = p][x] \in C \cup {None}
             PROVE  Root \in C
  BY DEF Rooted
<1>3. \A x \in C \cap nodes : x # n => parent[x] \in C \cup {None}
  BY <1>0
<1>4. CASE n \notin C
  BY <1>3, <1>4 DEF Rooted
<1>5. CASE n \in C
  <2>1. p \in C
    BY <1>0, <1>5, NamesAssumption
  <2> DEFINE D == C \cap E
  <2>2. D \in SUBSET Ids /\ p \in D \cap nodes
    BY <1>1, <2>1
  <2>3. \A x \in D \cap nodes : parent[x] \in D \cup {None}
    BY <1>1, <1>2, <1>3
  <2>4. Root \in D
    <3> HIDE DEF D
    <3> QED
      BY <2>2, <2>3 DEF Rooted
  <2> QED
    BY <2>4
<1> QED
  BY <1>4, <1>5

(* The columns of a tree in which only the trash marks have changed.       *)
LEMMA MarksKeep ==
    ASSUME TreeInv, UNCHANGED <<nodes, parent, name, blob>>,
           etag' \in [Ids -> Hashes \cup {None}],
           trash_root' \in [Ids -> Ids \cup {None}],
           \A n \in (Ids \ nodes) \cup {Root} : trash_root'[n] = None,
           ops' = ops \/ \E r \in Requests : Done(r)
    PROVE  TreeInv'
<1> USE DEF TreeInv
<1>1. Columns' /\ Shape'
  BY IdsAssumption DEF Columns, Shape
<1>2. Remembered'
  BY RememberedKept
<1>3. Rooted(parent', nodes')
  OBVIOUS
<1> QED
  BY <1>1, <1>2, <1>3

(* A request that looks changes no row.                                    *)
LEMMA TreeLook ==
    ASSUME TreeInv, NEW r \in Requests, LookStep(r)
    PROVE  TreeInv'
<1> USE DEF TreeInv
<1> DEFINE Good(op) ==
      /\ op \in Op
      /\ op.node # Root /\ op.over # Root
      /\ op.dir \in nodes => blob[op.dir] = None
      /\ op.op \in {"move", "copy", "send"} => op.node \in Ids
      /\ op.op \in {"put", "revert"} => op.blob \in Hashes
      /\ op.op = "copy" /\ op.node \in nodes => (op.blob = None <=> blob[op.node] = None)
<1>0. Root # None /\ None \notin Ids /\ nodes \subseteq Ids /\ Root \in Ids
  BY IdsAssumption, NamesAssumption DEF Columns
<1>1. ASSUME NEW op, Look(r, op), Good(op) PROVE TreeInv'
  <2>1. UNCHANGED rowVars /\ ops' = [ops EXCEPT ![r] = op]
    BY <1>1 DEF Look
  <2>2. Columns' /\ Shape' /\ Rooted(parent', nodes')
    BY <2>1 DEF rowVars, Columns, Shape
  <2>3. nodes' = nodes /\ blob' = blob /\ ops' \in [Requests -> Op]
    BY <1>1, <2>1 DEF rowVars, Remembered
  <2>4. ASSUME NEW q \in Requests PROVE ops'[q] = op \/ ops'[q] = ops[q]
    BY <2>1 DEF Remembered
  <2>5. Remembered'
    BY <1>1, <2>3, <2>4 DEF Remembered
  <2> QED
    BY <2>2, <2>5
<1>2. ASSUME NEW p \in nodes, NEW x \in Names, LookMkdir(r, p, x) PROVE TreeInv'
  <2> DEFINE op == [Idle EXCEPT !.op = "mkdir", !.dir = p, !.as = x]
  <2>1. Good(op)
    BY <1>0, <1>2 DEF Idle, Op, LookMkdir, Directory, IsDirectory
  <2> QED
    BY <1>1, <1>2, <2>1 DEF LookMkdir
<1>3. ASSUME NEW p \in nodes, NEW x \in Names, NEW h \in Hashes, LookPut(r, p, x, h)
      PROVE  TreeInv'
  <2> DEFINE op == [Idle EXCEPT !.op = "put", !.dir = p, !.as = x, !.blob = h]
  <2>1. Good(op)
    BY <1>0, <1>3 DEF Idle, Op, LookPut, Directory, IsDirectory
  <2> QED
    BY <1>1, <1>3, <2>1 DEF LookPut
<1>4. ASSUME NEW k \in {"move", "copy"}, NEW n \in nodes, NEW p \in nodes, NEW x \in Names,
             LookTransfer(r, k, n, p, x)
      PROVE  TreeInv'
  <2>1. PICK over \in Child(p, x, Live) \cup {None} :
            Look(r, [Idle EXCEPT !.op = k, !.node = n, !.dir = p, !.as = x,
                                 !.blob = IF k = "move" THEN etag[n] ELSE blob[n],
                                 !.over = over])
    BY <1>4 DEF LookTransfer
  <2> DEFINE content == IF k = "move" THEN etag[n] ELSE blob[n]
             op == [Idle EXCEPT !.op = k, !.node = n, !.dir = p, !.as = x,
                                !.blob = content, !.over = over]
  <2>2. over \in Ids \cup {None} /\ over # Root
    BY <1>0 DEF Child, Live, Shape
  <2>3. content \in Hashes \cup {None} /\ (k = "copy" => content = blob[n])
    BY <1>0 DEF Columns
  <2>4. n # Root /\ blob[p] = None /\ n \in Ids /\ p \in Ids
    BY <1>0, <1>4 DEF LookTransfer, Directory, IsDirectory
  <2>5. Good(op)
    <3> HIDE DEF content
    <3>1. /\ op.op = k /\ op.node = n /\ op.dir = p /\ op.blob = content
          /\ op.over = over
      BY DEF Idle
    <3>2. op \in Op
      BY <2>2, <2>3, <2>4 DEF Idle, Op
    <3> HIDE DEF op
    <3> QED
      BY <2>2, <2>3, <2>4, <3>1, <3>2
  <2>6. Look(r, op)
    BY <2>1
  <2> HIDE DEF op
  <2> QED
    BY <1>1, <2>5, <2>6
<1>5. ASSUME NEW n \in nodes, LookSend(r, n) PROVE TreeInv'
  <2> DEFINE op == [Idle EXCEPT !.op = "send", !.node = n]
  <2>1. Good(op)
    BY <1>0, <1>5 DEF Idle, Op, LookSend
  <2> QED
    BY <1>1, <1>5, <2>1 DEF LookSend
<1>6. ASSUME NEW n \in nodes, NEW h \in Hashes, LookRevert(r, n, h) PROVE TreeInv'
  <2> DEFINE op == [Idle EXCEPT !.op = "revert", !.node = n, !.dir = parent[n],
                                !.as = name[n], !.blob = h]
  <2>1. n # Root /\ blob[n] # None
    BY <1>6 DEF LookRevert, IsDirectory, Shape
  <2>2. parent[n] \in Ids \cup {None} /\ name[n] \in Names \cup {None} /\ n \in Ids
        /\ blob[parent[n]] = None
    BY <2>1 DEF Shape, Columns
  <2>3. Good(op)
    BY <1>0, <2>1, <2>2 DEF Idle, Op
  <2> QED
    BY <1>1, <1>6, <2>3 DEF LookRevert
<1> QED
  BY <1>2, <1>3, <1>4, <1>5, <1>6 DEF LookStep

(* put_file over a file keeps it a file.                                   *)
LEMMA OverwriteKeeps ==
    ASSUME TreeInv, NEW n \in Live, ~IsDirectory(n), NEW h \in Hashes,
           NEW history, NEW used, NEW counts, Overwrite(n, h, history, used, counts),
           ops' = ops \/ \E r \in Requests : Done(r)
    PROVE  TreeInv'
<1> USE DEF TreeInv
<1>0. n \in nodes /\ n \in Ids /\ blob[n] # None /\ h # None /\ n # Root
  BY NamesAssumption DEF Live, Columns, IsDirectory, Shape
<1>1. /\ blob' = [blob EXCEPT ![n] = h] /\ etag' = [etag EXCEPT ![n] = h]
      /\ UNCHANGED <<nodes, parent, name, trash_root>>
  BY DEF Overwrite
<1>2. Columns'
  BY <1>0, <1>1 DEF Columns
<1>3. Shape'
  BY <1>0, <1>1 DEF Columns, Shape
<1>4. \A m \in nodes \cap nodes' : blob'[m] = None <=> blob[m] = None
  BY <1>0, <1>1 DEF Columns
<1>5. Remembered'
  BY <1>1, <1>4, RememberedKept
<1> QED
  BY <1>1, <1>2, <1>3, <1>5

(* A node that is made hangs from where it is put.                         *)
LEMMA CreateKeeps ==
    ASSUME TreeInv, NEW p \in nodes, blob[p] = None, NEW x \in Names \cup {None},
           NEW h \in Hashes, NEW used, NEW counts, Create(p, x, h, used, counts),
           ops' = ops \/ \E r \in Requests : Done(r)
    PROVE  TreeInv'
<1>1. PICK n \in Fresh : Insert(n, p, x, h, h)
  BY DEF Create
<1>2. Columns' /\ Shape' /\ Rooted(parent', nodes')
  BY <1>1, InsertKeeps
<1>3. \A m \in nodes \cap nodes' : blob'[m] = None <=> blob[m] = None
  BY <1>1 DEF Insert, Fresh, TreeInv, Columns
<1>4. nodes' \subseteq nodes \cup Fresh
  BY <1>1 DEF Insert
<1>5. Remembered'
  BY <1>3, <1>4, RememberedKept DEF TreeInv
<1> QED
  BY <1>2, <1>5 DEF TreeInv

(* insert_directory.                                                       *)
LEMMA TreeMkdir ==
    ASSUME TreeInv, NEW r \in Requests, Mkdir(r)
    PROVE  TreeInv'
<1> DEFINE p == ops[r].dir
           x == ops[r].as
<1>0. p \in nodes /\ blob[p] = None /\ x \in Names \cup {None} /\ Done(r)
  BY DEF Mkdir, TreeInv, Remembered, Op
<1>1. CASE Child(p, x, Live) = {}
  <2>1. PICK n \in Fresh : Insert(n, p, x, None, None)
    BY <1>1 DEF Mkdir
  <2> HIDE DEF p, x
  <2>2. Columns' /\ Shape' /\ Rooted(parent', nodes')
    BY <1>0, <2>1, InsertKeeps
  <2>3. \A m \in nodes \cap nodes' : blob'[m] = None <=> blob[m] = None
    BY <2>1 DEF Insert, Fresh, TreeInv, Columns
  <2>4. nodes' \subseteq nodes \cup Fresh
    BY <2>1 DEF Insert
  <2>5. Remembered'
    BY <1>0, <2>3, <2>4, RememberedKept DEF TreeInv
  <2> QED
    BY <2>2, <2>5 DEF TreeInv
<1>2. CASE Child(p, x, Live) # {}
  <2>1. UNCHANGED <<nodes, parent, name, blob, etag, trash_root>>
    BY <1>2 DEF Mkdir
  <2> QED
    BY <1>0, <2>1, IdsAssumption, MarksKeep DEF TreeInv, Columns, Shape
<1> QED
  BY <1>1, <1>2

(* put_file, over a node or beside it.                                     *)
LEMMA TreePut ==
    ASSUME TreeInv, NEW r \in Requests, Put(r)
    PROVE  TreeInv'
<1> DEFINE p == ops[r].dir
           x == ops[r].as
           h == ops[r].blob
<1>0. /\ p \in nodes /\ blob[p] = None /\ x \in Names \cup {None} /\ h \in Hashes
      /\ Done(r)
  BY DEF Put, TreeInv, Remembered, Op
<1>1. CASE Create(p, x, h, bytes_used, ref_count)
  <2> HIDE DEF p, x, h
  <2> QED
    BY <1>0, <1>1, CreateKeeps
<1>2. ASSUME NEW n \in Child(p, x, Live), ~IsDirectory(n),
             Overwrite(n, h, versions, bytes_used, ref_count)
      PROVE  TreeInv'
  <2>1. n \in Live
    BY <1>2 DEF Child
  <2> HIDE DEF p, x, h
  <2> QED
    BY <1>0, <1>2, <2>1, OverwriteKeeps
<1> QED
  BY <1>1, <1>2 DEF Put

(* restore of a version, over the file at its path or as a new one.        *)
LEMMA TreeRevert ==
    ASSUME TreeInv, NEW r \in Requests, Revert(r)
    PROVE  TreeInv'
<1> DEFINE n == ops[r].node
           h == ops[r].blob
           p == ops[r].dir
           x == ops[r].as
           used == bytes_used - Size[h]
           counts == Adjusted(ref_count, None, [NothingLost EXCEPT ![h] = 1])
<1>0. /\ p \in nodes /\ blob[p] = None /\ x \in Names \cup {None} /\ h \in Hashes
      /\ Done(r)
  BY DEF Revert, TreeInv, Remembered, Op
<1>1. PICK i \in DOMAIN versions[n] :
          LET held == [versions EXCEPT ![n] = RemoveAt(@, i)]
          IN  \/ \E m \in Child(p, ops[r].as, Live) :
                    ~IsDirectory(m) /\ Overwrite(m, h, held, used, counts)
              \/ /\ Child(p, ops[r].as, Live) = {}
                 /\ Create(p, ops[r].as, h, used, counts)
                 /\ versions' = held
  BY DEF Revert
<1> DEFINE held == [versions EXCEPT ![n] = RemoveAt(@, i)]
<1>2. CASE Create(p, x, h, used, counts)
  <2> HIDE DEF p, x, h, used, counts
  <2> QED
    BY <1>0, <1>2, CreateKeeps
<1>3. ASSUME NEW m \in Child(p, x, Live), ~IsDirectory(m),
             Overwrite(m, h, held, used, counts)
      PROVE  TreeInv'
  <2>1. m \in Live
    BY <1>3 DEF Child
  <2> HIDE DEF p, x, h, used, counts, held
  <2> QED
    BY <1>0, <1>3, <2>1, OverwriteKeeps
<1> QED
  BY <1>1, <1>2, <1>3

(* trash::send moves nothing.                                              *)
LEMMA TreeSend ==
    ASSUME TreeInv, NEW r \in Requests, Send(r)
    PROVE  TreeInv'
<1> DEFINE n == ops[r].node
<1>0. /\ n \in Ids /\ n # Root /\ n # None /\ Done(r)
      /\ trash_root' = TrashedWith(Subtree(n), n)
      /\ UNCHANGED <<nodes, parent, name, blob, etag>>
  BY NamesAssumption DEF Send, TreeInv, Remembered
<1>1. Cleared(n) = Subtree(n)
  BY <1>0 DEF Cleared
<1> HIDE DEF n
<1>2. /\ trash_root' \in [Ids -> Ids \cup {None}]
      /\ \A m \in (Ids \ nodes) \cup {Root} : trash_root'[m] = None
  BY <1>0, <1>1, TrashedWithKeeps
<1>3. etag' \in [Ids -> Hashes \cup {None}]
  BY <1>0 DEF TreeInv, Columns
<1> QED
  BY <1>0, <1>2, <1>3, MarksKeep

(* db::rename: nothing is moved below itself.                              *)
LEMMA TreeMove ==
    ASSUME TreeInv, NEW r \in Requests, Move(r)
    PROVE  TreeInv'
<1> USE DEF TreeInv
<1> DEFINE n == ops[r].node
           p == ops[r].dir
           x == ops[r].as
           over == ops[r].over
<1>0. /\ n \in nodes /\ p \in nodes /\ (IsDirectory(n) => ~IsAbove(n, p))
      /\ trash_root' = TrashedWith(Cleared(over), over)
      /\ parent' = [parent EXCEPT ![n] = p] /\ name' = [name EXCEPT ![n] = x]
      /\ etag' = [etag EXCEPT ![n] = ops[r].blob] /\ Done(r)
      /\ UNCHANGED <<nodes, blob>>
  BY DEF Move
<1>1. /\ n # Root /\ over # Root /\ blob[p] = None /\ over \in Ids \cup {None}
      /\ x \in Names \cup {None} /\ ops[r].blob \in Hashes \cup {None}
      /\ n \in Ids /\ p \in Ids
  BY <1>0 DEF Remembered, Op, Columns
<1> HIDE DEF n, p, x, over
<1>2. /\ trash_root' \in [Ids -> Ids \cup {None}]
      /\ \A m \in (Ids \ nodes) \cup {Root} : trash_root'[m] = None
  BY <1>0, <1>1, TrashedWithKeeps
<1>3. Columns'
  BY <1>0, <1>1, <1>2 DEF Columns
<1>4. Shape'
  BY <1>0, <1>1, <1>2, IdsAssumption DEF Columns, Shape
<1>5. Remembered'
  BY <1>0, RememberedKept
<1>6. Rooted(parent', nodes')
  BY <1>0, <1>1, MovedStaysRooted
<1> QED
  BY <1>3, <1>4, <1>5, <1>6

(* What is below n, and not n, is in n or in something below n.            *)
LEMMA BelowIsClosed ==
    ASSUME TreeInv, NEW n \in Ids, NEW live \in SUBSET Ids,
           NEW m \in live \ {n}, n \in Climb(m, live)
    PROVE  /\ m # Root
           /\ \/ parent[m] = n
              \/ parent[m] \in live \ {n} /\ n \in Climb(parent[m], live)
<1>1. parent \in [Ids -> Ids \cup {None}] /\ parent[Root] = None
  BY DEF TreeInv, Columns, Shape
<1>2. m \in Ids /\ n \in Walk(parent, m, live)
  BY DEF Climb, Walk
<1>3. parent[m] # None /\ Walk(parent, m, live) = {m} \cup Walk(parent, parent[m], live)
  BY <1>1, <1>2, WalkSteps
<1>4. parent[m] \in Ids /\ n \in Walk(parent, parent[m], live)
  BY <1>1, <1>2, <1>3
<1>5. parent[m] \in live \/ parent[m] = n
  BY <1>1, <1>4, WalkSteps
<1> QED
  BY <1>1, <1>3, <1>4, <1>5 DEF Climb, Walk

(* copy_tree: the copy of a node is below the copy of its parent, up to    *)
(* the copy of the source, which is where the request said.                *)
LEMMA TreeCopy ==
    ASSUME TreeInv, NEW r \in Requests, Copy(r)
    PROVE  TreeInv'
<1> USE DEF TreeInv
<1> DEFINE n == ops[r].node
           p == ops[r].dir
           x == ops[r].as
           h == ops[r].blob
           over == ops[r].over
           live == Live \ Cleared(over)
           below == {m \in live \ {n} : n \in Climb(m, live)}
           shown(m) == IF m = n THEN h ELSE blob[m]
<1>0. /\ ops[r].op = "copy" /\ p \in nodes /\ Done(r)
      /\ trash_root' = TrashedWith(Cleared(over), over)
  BY DEF Copy
<1>1. PICK new \in [below \cup {n} -> Fresh] :
        /\ \A a, b \in below \cup {n} : new[a] = new[b] => a = b
        /\ LET old == [c \in {new[m] : m \in below \cup {n}} |->
                          CHOOSE m \in below \cup {n} : new[m] = c]
               ids == DOMAIN old
           IN  /\ nodes' = nodes \cup ids
               /\ parent' = [c \in Ids |->
                      IF c \notin ids THEN parent[c]
                      ELSE IF old[c] = n THEN p ELSE new[parent[old[c]]]]
               /\ name' = [c \in Ids |->
                      IF c \notin ids THEN name[c]
                      ELSE IF old[c] = n THEN x ELSE name[old[c]]]
               /\ blob' = [c \in Ids |->
                      IF c \in ids THEN shown(old[c]) ELSE blob[c]]
               /\ etag' = [c \in Ids |->
                      IF c \notin ids THEN etag[c]
                      ELSE IF old[c] = n THEN h ELSE etag[old[c]]]
  BY DEF Copy
<1> DEFINE ids == {new[m] : m \in below \cup {n}}
           old == [c \in ids |-> CHOOSE m \in below \cup {n} : new[m] = c]
<1>2. /\ n \in Ids /\ n # Root /\ over # Root /\ over \in Ids \cup {None}
      /\ blob[p] = None /\ p \in Ids
      /\ x \in Names \cup {None} /\ h \in Hashes \cup {None}
      /\ n \in nodes => (h = None <=> blob[n] = None)
  BY <1>0 DEF Remembered, Op, Columns
<1>3. below \subseteq nodes \ {n} /\ below \subseteq Ids /\ live \in SUBSET Ids
  BY DEF Live, Columns
<1>4. ASSUME NEW m \in below PROVE parent[m] \in below \cup {n} /\ m # Root
  BY <1>2, <1>3, BelowIsClosed
<1> HIDE DEF below, live
<1>5. /\ ids \subseteq Ids \ nodes
      /\ \A m \in below \cup {n} : new[m] \in ids
  BY <1>1 DEF Fresh
<1>6. \A c \in ids : old[c] \in below \cup {n} /\ new[old[c]] = c
  BY <1>1
<1>7. \A m \in below \cup {n} : new[m] \in ids /\ old[new[m]] = m
  BY <1>1, <1>6
<1>8. /\ nodes' = nodes \cup ids
      /\ parent' = [c \in Ids |->
                      IF c \notin ids THEN parent[c]
                      ELSE IF old[c] = n THEN p ELSE new[parent[old[c]]]]
      /\ name' = [c \in Ids |->
                      IF c \notin ids THEN name[c]
                      ELSE IF old[c] = n THEN x ELSE name[old[c]]]
      /\ blob' = [c \in Ids |-> IF c \in ids THEN shown(old[c]) ELSE blob[c]]
      /\ etag' = [c \in Ids |->
                      IF c \notin ids THEN etag[c]
                      ELSE IF old[c] = n THEN h ELSE etag[old[c]]]
  BY <1>1
<1> HIDE DEF ids, old
<1>9. /\ trash_root' \in [Ids -> Ids \cup {None}]
      /\ \A m \in (Ids \ nodes) \cup {Root} : trash_root'[m] = None
  <2> HIDE DEF over
  <2> QED
    BY <1>0, <1>2, TrashedWithKeeps
<1> HIDE DEF n, p, x, h, over
<1>10. \A m \in nodes : parent'[m] = parent[m] /\ blob'[m] = blob[m]
  BY <1>5, <1>8 DEF Columns
<1>11. ASSUME NEW c \in ids
       PROVE  /\ c \in Ids \ nodes
              /\ old[c] = n => parent'[c] = p /\ blob'[c] = h
              /\ old[c] # n => /\ old[c] \in below
                               /\ parent'[c] = new[parent[old[c]]]
                               /\ parent[old[c]] \in below \cup {n}
                               /\ parent'[c] \in ids /\ old[parent'[c]] = parent[old[c]]
  <2>1. c \in Ids \ nodes /\ old[c] \in below \cup {n}
    BY <1>5, <1>6
  <2>2. old[c] = n => parent'[c] = p /\ blob'[c] = h
    BY <1>8, <2>1
  <2>3. ASSUME old[c] # n
        PROVE  /\ old[c] \in below
               /\ parent'[c] = new[parent[old[c]]]
               /\ parent[old[c]] \in below \cup {n}
    BY <1>4, <1>8, <2>1, <2>3
  <2> QED
    BY <1>7, <2>1, <2>2, <2>3
<1>12. Columns'
  <2>1. nodes' \subseteq Ids
    BY <1>5, <1>8 DEF Columns
  <2>2. parent' \in [Ids -> Ids \cup {None}]
    <3>1. ASSUME NEW c \in Ids PROVE parent'[c] \in Ids \cup {None}
      <4>1. CASE c \notin ids
        BY <1>8, <4>1 DEF Columns
      <4>2. CASE c \in ids
        BY <1>2, <1>5, <1>11, <4>2
      <4> QED
        BY <4>1, <4>2
    <3> QED
      BY <1>8, <3>1
  <2>3. /\ name' \in [Ids -> Names \cup {None}] /\ blob' \in [Ids -> Hashes \cup {None}]
        /\ etag' \in [Ids -> Hashes \cup {None}]
    BY <1>2, <1>3, <1>6, <1>8 DEF Columns
  <2> QED
    BY <1>9, <2>1, <2>2, <2>3 DEF Columns
<1>13. Shape'
  <2>1. Root \in nodes' /\ parent'[Root] = None /\ trash_root'[Root] = None
        /\ blob'[Root] = None
    BY <1>8, <1>9, <1>10 DEF Shape
  <2>2. \A m \in Ids \ nodes' : parent'[m] = None /\ trash_root'[m] = None
                                /\ blob'[m] = None
    BY <1>8, <1>9 DEF Shape
  <2>3. ASSUME NEW m \in nodes \ {Root} PROVE parent'[m] \in nodes' /\ blob'[parent'[m]] = None
    BY <1>8, <1>10 DEF Shape
  <2>4. ASSUME NEW c \in ids PROVE parent'[c] \in nodes' /\ blob'[parent'[c]] = None
    <3>1. CASE old[c] = n
      BY <1>0, <1>2, <1>8, <1>10, <1>11, <3>1
    <3>2. CASE old[c] # n
      <4> DEFINE m == parent[old[c]]
      <4>1. old[c] \in below /\ m \in below \cup {n} /\ parent'[c] \in ids /\ old[parent'[c]] = m
        BY <1>11, <3>2
      <4>2. m \in nodes /\ blob[m] = None
        BY <1>3, <1>4, <4>1 DEF Shape
      <4>3. blob'[parent'[c]] = IF m = n THEN h ELSE blob[m]
        BY <1>5, <1>8, <4>1
      <4>4. m = n => h = None
        BY <1>2, <4>2
      <4>5. blob'[parent'[c]] = None
        BY <4>2, <4>3, <4>4
      <4> QED
        BY <1>8, <4>1, <4>5
    <3> QED
      BY <3>1, <3>2
  <2> QED
    BY <1>8, <2>1, <2>2, <2>3, <2>4 DEF Shape
<1>14. Remembered'
  <2>1. ids \subseteq Fresh
    BY <1>1 DEF ids
  <2> QED
    BY <1>0, <1>8, <1>10, <2>1, RememberedKept
<1>15. Rooted(parent', nodes')
  <2> SUFFICES ASSUME NEW C \in SUBSET Ids, C \cap nodes' # {},
                      \A m \in C \cap nodes' : parent'[m] \in C \cup {None}
               PROVE  Root \in C
    BY DEF Rooted
  <2>1. CASE C \cap nodes # {}
    <3>1. \A m \in C \cap nodes : parent[m] \in C \cup {None}
      BY <1>8, <1>10
    <3> QED
      BY <2>1, <3>1 DEF Rooted
  <2>2. CASE C \cap nodes = {}
    <3> DEFINE D == {m \in below \cup {n} : new[m] \in C}
    <3>1. D # {}
      <4>1. PICK c \in C : c \in ids
        BY <1>8, <2>2
      <4> QED
        BY <1>6, <4>1
    <3>2. n \notin D
      <4>1. new[n] \in ids /\ old[new[n]] = n
        BY <1>7
      <4>2. parent'[new[n]] = p /\ new[n] \in nodes'
        BY <1>8, <1>11, <4>1
      <4> QED
        BY <1>0, <1>2, <2>2, <4>2, NamesAssumption
    <3>3. ASSUME NEW m \in D PROVE parent[m] \in D /\ m \in below
      <4>1. m \in below
        BY <3>2
      <4>2. new[m] \in ids /\ old[new[m]] = m /\ m # n
        BY <1>7, <3>2
      <4>3. parent'[new[m]] = new[parent[m]] /\ parent[m] \in below \cup {n}
            /\ new[parent[m]] \in ids
        BY <1>11, <4>2
      <4>4. new[parent[m]] \in C
        <5>1. new[parent[m]] # None
          BY <1>5, <4>3, NamesAssumption
        <5> QED
          BY <1>8, <4>2, <4>3, <5>1
      <4> QED
        BY <4>1, <4>3, <4>4
    <3>4. D \in SUBSET Ids /\ D \cap nodes # {}
      BY <1>3, <3>1, <3>3
    <3> HIDE DEF D
    <3>5. Root \in D
      BY <3>3, <3>4 DEF Rooted
    <3>6. FALSE
      BY <1>4, <3>3, <3>5
    <3> QED
      BY <3>6
  <2> QED
    BY <2>1, <2>2
<1> QED
  BY <1>12, <1>13, <1>14, <1>15

(* restore changes no parent.                                              *)
LEMMA TreeRestore ==
    ASSUME TreeInv, NEW id \in Ids, Restore(id)
    PROVE  TreeInv'
<1> DEFINE above == Climb(parent[id], Trashed) \cap Trashed
           batch == {m \in Trashed \ above : trash_root[m] = id}
           back == above \cup batch
           opened == {trash_root[m] : m \in above}
           left == Trashed \ back
<1>0. /\ UNCHANGED <<nodes, parent, name, blob, etag, ops>>
      /\ trash_root' =
            [m \in Ids |->
                IF m \in back THEN None
                ELSE IF m \in left /\ trash_root[m] \in opened
                     THEN Rerooted(m, left, Live \cup back) ELSE trash_root[m]]
  BY DEF Restore
<1>1. left \subseteq nodes \ {Root} /\ nodes \subseteq Ids
  BY DEF Trashed, Live, TreeInv, Shape, Columns
<1> HIDE DEF left, back, opened
<1>2. \A m \in Ids : Rerooted(m, left, Live \cup back) \in Ids \cup {None}
  <2> TAKE m \in Ids
  <2> DEFINE mates == {q \in left : trash_root[q] = trash_root[m]}
             heads == {s \in Climb(m, mates) \cap mates : parent[s] \in Live \cup back}
  <2>1. heads \subseteq Ids
    BY <1>1
  <2>2. trash_root[m] \in Ids \cup {None}
    BY DEF TreeInv, Columns
  <2> HIDE DEF heads
  <2>3. (IF heads = {} THEN trash_root[m] ELSE CHOOSE s \in heads : TRUE) \in Ids \cup {None}
    BY <2>1, <2>2
  <2> QED
    BY <2>3 DEF Rerooted, heads
<1>3. trash_root' \in [Ids -> Ids \cup {None}]
  BY <1>0, <1>2 DEF TreeInv, Columns
<1>4. \A m \in (Ids \ nodes) \cup {Root} : trash_root'[m] = None
  BY <1>0, <1>1, IdsAssumption DEF TreeInv, Shape
<1>5. etag' \in [Ids -> Hashes \cup {None}]
  BY <1>0 DEF TreeInv, Columns
<1> QED
  BY <1>0, <1>3, <1>4, <1>5, MarksKeep

(* ON DELETE CASCADE takes what is in a directory or a batch that it takes,*)
(* and not the root.                                                       *)
LEMMA CascadeIs ==
    ASSUME TreeInv, NEW id \in Ids, id # Root
    PROVE  /\ id \in Cascade(id) /\ Cascade(id) \subseteq Ids \ {Root}
           /\ \A m \in nodes : parent[m] \in Cascade(id) \/ trash_root[m] \in Cascade(id)
                                  => m \in Cascade(id)
           /\ \A C : /\ id \in C
                     /\ \A m \in nodes : parent[m] \in C \/ trash_root[m] \in C => m \in C
                     => Cascade(id) \subseteq C
<1> USE DEF TreeInv
<1> DEFINE refers == References(parent, nodes, Ids) \cup References(trash_root, nodes, Ids)
           edges == {<<e[2], e[1]>> : e \in refers}
           all == Collected(edges, {id}, Ids)
<1>1. \A e \in refers : /\ e[1] \in nodes /\ e[2] \in Ids
                        /\ e[2] = parent[e[1]] \/ e[2] = trash_root[e[1]]
  BY DEF References, Columns
<1>2. edges \subseteq Ids \X Ids /\ {id} \subseteq Ids
  BY <1>1 DEF Columns
<1>3. \A m \in nodes : /\ parent[m] # None => <<m, parent[m]>> \in refers
                       /\ trash_root[m] # None => <<m, trash_root[m]>> \in refers
  BY DEF References, Columns
<1> HIDE DEF refers
<1>4. \A e \in edges : /\ e[1] \in Ids /\ e[2] \in nodes
                       /\ e[1] = parent[e[2]] \/ e[1] = trash_root[e[2]]
  BY <1>1
<1>5. \A m \in nodes : /\ parent[m] # None => <<parent[m], m>> \in edges
                       /\ trash_root[m] # None => <<trash_root[m], m>> \in edges
  <2> TAKE m \in nodes
  <2>1. ASSUME NEW a, <<m, a>> \in refers PROVE <<a, m>> \in edges
    <3>1. <<a, m>> = << <<m, a>>[2], <<m, a>>[1] >>
      OBVIOUS
    <3> QED
      BY <2>1, <3>1
  <2> QED
    BY <1>3, <2>1
<1> HIDE DEF edges
<1>6. /\ {id} \subseteq all /\ all \subseteq Ids
      /\ \A e \in edges : e[1] \in all => e[2] \in all
      /\ \A C : /\ {id} \subseteq C
                /\ \A e \in edges : e[1] \in C => e[2] \in C
                => all \subseteq C
  BY <1>2, IdsAssumption, QueryIsClosure
<1>7. Cascade(id) = all
  BY DEF Cascade, edges, refers
<1> HIDE DEF all
<1>8. ASSUME NEW C, id \in C,
             \A m \in nodes : parent[m] \in C \/ trash_root[m] \in C => m \in C
      PROVE  all \subseteq C
  BY <1>4, <1>6, <1>8
<1>9. Root \notin all
  <2> DEFINE C == Ids \ {Root}
  <2>1. \A m \in nodes : parent[m] \in C \/ trash_root[m] \in C => m \in C
    BY NamesAssumption DEF Shape, Columns
  <2> HIDE DEF C
  <2>2. all \subseteq C
    BY <1>8, <2>1 DEF C
  <2> QED
    BY <2>2 DEF C
<1>10. ASSUME NEW m \in nodes, NEW a \in all, a = parent[m] \/ a = trash_root[m]
       PROVE  m \in all
  <2>1. a # None
    BY <1>6, NamesAssumption
  <2>2. <<a, m>> \in edges
    BY <1>5, <1>10, <2>1
  <2>3. <<a, m>>[1] = a /\ <<a, m>>[2] = m
    OBVIOUS
  <2> QED
    BY <1>6, <2>2, <2>3
<1> QED
  BY <1>6, <1>7, <1>8, <1>9, <1>10

(* purge takes everything below what it takes.                             *)
LEMMA TreePurge ==
    ASSUME TreeInv, NEW id \in nodes, trash_root[id] = id, PurgeRoot(id)
    PROVE  TreeInv'
<1> USE DEF TreeInv
<1> DEFINE gone == Cascade(id)
<1>0. id \in Ids /\ id # Root
  BY NamesAssumption DEF Shape, Columns
<1>1. /\ nodes' = nodes \ gone /\ ops' = ops
      /\ parent' = [m \in Ids |-> IF m \in gone THEN None ELSE parent[m]]
      /\ name' = [m \in Ids |-> IF m \in gone THEN None ELSE name[m]]
      /\ blob' = [m \in Ids |-> IF m \in gone THEN None ELSE blob[m]]
      /\ etag' = [m \in Ids |-> IF m \in gone THEN None ELSE etag[m]]
      /\ trash_root' = [m \in Ids |-> IF m \in gone THEN None ELSE trash_root[m]]
  BY DEF PurgeRoot
<1>2. /\ gone \subseteq Ids \ {Root}
      /\ \A m \in nodes : parent[m] \in gone => m \in gone
  BY <1>0, CascadeIs
<1> HIDE DEF gone
<1>3. Columns'
  BY <1>1 DEF Columns
<1>4. Shape'
  BY <1>1, <1>2, IdsAssumption DEF Shape, Columns
<1>5. Remembered'
  BY <1>1, RememberedKept DEF Columns
<1>6. Rooted(parent', nodes')
  <2> SUFFICES ASSUME NEW C \in SUBSET Ids, C \cap nodes' # {},
                      \A m \in C \cap nodes' : parent'[m] \in C \cup {None}
               PROVE  Root \in C
    BY DEF Rooted
  <2> DEFINE D == C \cap nodes'
  <2>1. \A m \in D : m \in nodes /\ m \notin gone /\ parent'[m] = parent[m]
    BY <1>1 DEF Columns
  <2>2. \A m \in D : parent[m] \in D \cup {None}
    <3> TAKE m \in D
    <3>1. m = Root => parent[m] = None
      BY DEF Shape
    <3>2. m # Root => parent[m] \in nodes /\ parent[m] \notin gone
      BY <1>2, <2>1 DEF Shape
    <3> QED
      BY <1>1, <2>1, <3>1, <3>2
  <2>3. D \in SUBSET Ids /\ D \cap nodes = D /\ D # {}
    BY <2>1
  <2> HIDE DEF D
  <2>4. Root \in D
    BY <2>2, <2>3 DEF Rooted
  <2> QED
    BY <2>4 DEF D
<1> QED
  BY <1>3, <1>4, <1>5, <1>6

(* At first there are the roots.                                           *)
LEMMA TreeInvInit == Init => TreeInv
<1> SUFFICES ASSUME Init PROVE TreeInv
  OBVIOUS
<1>1. Columns /\ Shape
  BY IdsAssumption DEF Init, Columns, Shape
<1>2. Remembered
  BY IdsAssumption, NamesAssumption DEF Init, Remembered, Idle, Op
<1>3. Rooted(parent, nodes)
  BY DEF Init, Rooted
<1> QED
  BY <1>1, <1>2, <1>3 DEF TreeInv

(* Every step leaves everything hanging from its root.                     *)
LEMMA TreeInvStep == TreeInv /\ [Next]_vars => TreeInv'
<1> SUFFICES ASSUME TreeInv, [Next]_vars PROVE TreeInv'
  OBVIOUS
<1>0. ASSUME UNCHANGED <<nodes, parent, name, blob, etag, trash_root>>,
             ops' = ops \/ \E r \in Requests : Done(r)
      PROVE  TreeInv'
  BY <1>0, IdsAssumption, MarksKeep DEF TreeInv, Columns, Shape
<1>1. ASSUME NEW r \in Requests, LookStep(r) PROVE TreeInv'
  BY <1>1, TreeLook
<1>2. ASSUME NEW r \in Requests, WriteStep(r) PROVE TreeInv'
  <2>1. CASE Refuse(r)
    BY <1>0, <2>1 DEF Refuse, rowVars
  <2> QED
    BY <1>2, <2>1, TreeMkdir, TreePut, TreeRevert, TreeSend, TreeMove, TreeCopy DEF WriteStep
<1>3. ASSUME TrashStep PROVE TreeInv'
  <2>1. ASSUME NEW id \in Ids, ExpireOne(id) PROVE TreeInv'
    <3>1. CASE id \in nodes /\ trash_root[id] = id
      BY <2>1, <3>1, TreePurge DEF ExpireOne
    <3>2. CASE ~(id \in nodes /\ trash_root[id] = id)
      BY <1>0, <2>1, <3>2 DEF ExpireOne, rowVars
    <3> QED
      BY <3>1, <3>2
  <2>2. ASSUME NEW id \in Ids, Purge(id) PROVE TreeInv'
    BY <2>2, TreePurge DEF Purge
  <2>3. ASSUME NEW id \in Ids, Age(id) PROVE TreeInv'
    BY <1>0, <2>3 DEF Age, rowVars
  <2>4. ASSUME ListDue PROVE TreeInv'
    BY <1>0, <2>4 DEF ListDue, rowVars
  <2> QED
    BY <1>3, <2>1, <2>2, <2>3, <2>4, TreeRestore DEF TrashStep
<1>4. ASSUME NEW q \in Quotas, SetQuota(q) PROVE TreeInv'
  BY <1>0, <1>4 DEF SetQuota, rowVars
<1>5. ASSUME UNCHANGED vars PROVE TreeInv'
  BY <1>0, <1>5 DEF vars
<1> QED
  BY <1>1, <1>2, <1>3, <1>4, <1>5 DEF Next

(* Everything hangs from its root in every reachable state.                *)
LEMMA TreeInvariant == Spec => []TreeInv
<1> QED
  BY TreeInvInit, TreeInvStep, PTL DEF Spec

(* What hangs from the root is in no cycle.                                *)
LEMMA RootedIsNoCycle == TreeInv => NoCycle
<1> SUFFICES ASSUME TreeInv, NEW n \in nodes PROVE Root \in Climb(n, nodes)
  BY DEF NoCycle
<1> DEFINE C == Walk(parent, n, nodes)
<1>1. nodes \in SUBSET Ids /\ n \in Ids /\ parent \in [Ids -> Ids \cup {None}]
  BY DEF TreeInv, Columns
<1>2. n \in C /\ C \in SUBSET Ids /\ \A x \in C \cap nodes : parent[x] \in C \cup {None}
  BY <1>1, WalkIs
<1> HIDE DEF C
<1>3. Root \in C
  BY <1>2 DEF TreeInv, Rooted
<1> QED
  BY <1>3 DEF C, Walk, Climb

(* NoCycle, however requests overtake each other and the expiry: a move    *)
(* asks again, under the lock, whether it would cut its subtree off, and   *)
(* nothing that another request can do in between makes it do so.          *)
THEOREM EverythingHangsFromTheRoot == Spec => []NoCycle
<1> QED
  BY TreeInvariant, RootedIsNoCycle, PTL

-----------------------------------------------------------------------------
(* The trash, when requests do not overtake each other *)

(* What the tree invariant says of the columns.                            *)
LEMMA TreeColumns ==
    ASSUME TreeInv
    PROVE  /\ nodes \in SUBSET Ids /\ parent \in [Ids -> Ids \cup {None}]
           /\ trash_root \in [Ids -> Ids \cup {None}]
           /\ Root \in nodes /\ parent[Root] = None /\ trash_root[Root] = None
           /\ None \notin Ids /\ Root \in Ids
           /\ Live \in SUBSET Ids /\ Live = {n \in nodes : trash_root[n] = None}
           /\ Trashed \in SUBSET Ids /\ Trashed = {n \in nodes : trash_root[n] # None}
           /\ \A n \in nodes \ {Root} : parent[n] \in nodes
           /\ \A n \in Ids \ nodes : trash_root[n] = None
  BY NamesAssumption, IdsAssumption DEF TreeInv, Columns, Shape, Live, Trashed

(* The query goes up the way the rows lead.                                *)
LEMMA ClimbIsWalk ==
    ASSUME NEW n, NEW S
    PROVE  Climb(n, S) = Walk(parent, n, S)
  BY DEF Climb, Walk

(* A batch leads up to its root.                                           *)
LEMMA BatchReaches ==
    ASSUME TreeInv, TrashShape(parent, nodes, trash_root), NEW a \in Trashed
    PROVE  trash_root[a] \in Walk(parent, a, Trashed)
<1> SUFFICES ASSUME trash_root[a] \notin Walk(parent, a, Trashed) PROVE FALSE
  OBVIOUS
<1> DEFINE W == Walk(parent, a, Trashed)
           C == {x \in W \cap Trashed : trash_root[x] = trash_root[a]}
<1>1. a \in W /\ \A x \in W \cap Trashed : parent[x] \in W \cup {None}
  BY TreeColumns, WalkIs
<1> HIDE DEF W
<1>2. a \in C /\ C \in SUBSET Ids /\ C \cap nodes # {}
  BY <1>1, TreeColumns
<1>3. ASSUME NEW x \in C PROVE parent[x] \in C
  <2>1. x \in Trashed /\ trash_root[x] = trash_root[a] /\ x # trash_root[a] /\ x # Root
    BY TreeColumns DEF W
  <2>2. parent[x] \in Trashed /\ trash_root[parent[x]] = trash_root[x]
    BY <2>1, TreeColumns DEF TrashShape, BatchesHang
  <2> QED
    BY <1>1, <2>1, <2>2, TreeColumns
<1> HIDE DEF C
<1>4. Root \in C
  BY <1>2, <1>3 DEF TreeInv, Rooted
<1> QED
  BY <1>4, TreeColumns DEF C

(* send: everything live below the node goes, and goes into one batch.     *)
LEMMA SendKeepsShape ==
    ASSUME TreeInv, TrashShape(parent, nodes, trash_root), NEW n \in Live, n # Root
    PROVE  TrashShape(parent, nodes, TrashedWith(Subtree(n), n))
<1> DEFINE S == Subtree(n)
           t == TrashedWith(S, n)
<1>1. S = {m \in Live : n \in Walk(parent, m, Live)}
  BY ClimbIsWalk DEF Subtree
<1> HIDE DEF S
<1>2. n \in S /\ S \subseteq Live /\ n \in Ids
  BY <1>1, TreeColumns, WalkIs
<1>3. ASSUME NEW m \in S, m # n PROVE parent[m] \in S
  <2>1. m \in Live /\ m \in Ids /\ n \in Walk(parent, m, Live)
    BY <1>1, TreeColumns
  <2>2. parent[m] # None /\ Walk(parent, m, Live) = {m} \cup Walk(parent, parent[m], Live)
    BY <1>3, <2>1, TreeColumns, WalkSteps
  <2>3. m # Root
    BY <2>2, TreeColumns
  <2>4. parent[m] \in Live
    BY <2>1, <2>3, TreeColumns DEF TrashShape, LiveBelowLive
  <2> QED
    BY <1>1, <1>3, <2>1, <2>2, <2>4
<1>4. ASSUME NEW m \in Live, parent[m] \in S PROVE m \in S
  <2>1. m \in Ids /\ n \in Walk(parent, parent[m], Live) /\ parent[m] # None
    BY <1>1, <1>4, TreeColumns
  <2>2. Walk(parent, m, Live) = {m} \cup Walk(parent, parent[m], Live)
    BY <2>1, TreeColumns, WalkSteps
  <2> QED
    BY <1>1, <2>1, <2>2
<1>5. \A m \in Ids : t[m] = IF m \in S THEN n ELSE trash_root[m]
  BY DEF TrashedWith
<1> HIDE DEF t
<1>6. LiveBelowLive(parent, nodes, t)
  <2> SUFFICES ASSUME NEW m \in nodes \ {Root}, t[m] = None
               PROVE  parent[m] \in nodes /\ t[parent[m]] = None
    BY DEF LiveBelowLive
  <2>1. m \in Live \ S
    BY <1>2, <1>5, TreeColumns
  <2>2. parent[m] \in Live \ S
    BY <1>4, <2>1, TreeColumns DEF TrashShape, LiveBelowLive
  <2> QED
    BY <1>5, <2>2, TreeColumns
<1>7. BatchesHaveRoots(nodes, t)
  <2> SUFFICES ASSUME NEW m \in nodes, t[m] # None
               PROVE  t[m] \in nodes /\ t[t[m]] = t[m]
    BY DEF BatchesHaveRoots
  <2>1. CASE m \in S
    BY <1>2, <1>5, <2>1, TreeColumns
  <2>2. CASE m \notin S
    <3>1. t[m] = trash_root[m] /\ m \in Trashed
      BY <1>5, <2>2, TreeColumns
    <3>2. trash_root[m] \in Trashed /\ trash_root[trash_root[m]] = trash_root[m]
      BY <3>1, TreeColumns DEF TrashShape, BatchesHaveRoots
    <3>3. trash_root[m] \notin S /\ trash_root[m] \in Ids
      BY <1>2, <3>2, TreeColumns
    <3> QED
      BY <1>5, <3>1, <3>2, <3>3, TreeColumns
  <2> QED
    BY <2>1, <2>2
<1>8. BatchesHang(parent, nodes, t)
  <2> SUFFICES ASSUME NEW m \in nodes, t[m] \notin {None, m}
               PROVE  parent[m] \in nodes /\ t[parent[m]] = t[m]
    BY DEF BatchesHang
  <2>1. CASE m \in S
    <3>1. m # n /\ t[m] = n
      BY <1>5, <2>1, TreeColumns
    <3>2. parent[m] \in S
      BY <1>3, <2>1, <3>1
    <3> QED
      BY <1>2, <1>5, <3>1, <3>2, TreeColumns
  <2>2. CASE m \notin S
    <3>1. t[m] = trash_root[m] /\ m \in Trashed /\ trash_root[m] \notin {None, m}
      BY <1>5, <2>2, TreeColumns
    <3>2. parent[m] \in Trashed /\ trash_root[parent[m]] = trash_root[m]
      BY <3>1, TreeColumns DEF TrashShape, BatchesHang
    <3>3. parent[m] \notin S /\ parent[m] \in Ids
      BY <1>2, <3>2, TreeColumns
    <3> QED
      BY <1>5, <3>1, <3>2, <3>3, TreeColumns
  <2> QED
    BY <2>1, <2>2
<1> QED
  BY <1>6, <1>7, <1>8 DEF TrashShape, t, S

(* What is in the way of a move or a copy goes to the trash, and takes     *)
(* neither the source nor the directory it was in with it.                 *)
LEMMA ClearedLeaves ==
    ASSUME TreeInv, TrashInv, NEW r \in Requests, ops[r].node # None, ops[r].dir # None
    PROVE  LET over == ops[r].over
               t == TrashedWith(Cleared(over), over)
           IN  /\ TrashShape(parent, nodes, t)
               /\ t[ops[r].node] = None /\ t[ops[r].dir] = None
               /\ \A m \in Ids \ nodes : t[m] = None
<1> DEFINE n == ops[r].node
           p == ops[r].dir
           over == ops[r].over
           t == TrashedWith(Cleared(over), over)
<1>0. n \in Live /\ p \in Live /\ n \in Ids /\ p \in Ids
  BY TreeColumns DEF TrashInv, StillThere
<1>1. CASE over = None
  <2>1. Cleared(over) = {}
    BY <1>1 DEF Cleared
  <2>2. t = trash_root
    BY <2>1, TreeColumns DEF TrashedWith
  <2> QED
    BY <1>0, <2>2, TreeColumns DEF TrashInv
<1>2. CASE over # None
  <2>0. /\ over \in Live /\ over # Root /\ parent[over] = p
        /\ over \notin Walk(parent, n, nodes) /\ over \in Ids
        /\ Cleared(over) = Subtree(over)
    BY <1>2, TreeColumns, ClimbIsWalk DEF TrashInv, StillThere, TreeInv, Remembered, Cleared
  <2> HIDE DEF n, p, over
  <2>1. TrashShape(parent, nodes, t)
    BY <2>0, SendKeepsShape DEF TrashInv
  <2>2. Subtree(over) = {m \in Live : over \in Walk(parent, m, Live)}
    BY <2>0, ClimbIsWalk DEF Subtree
  <2>3. n \notin Subtree(over)
    <3>1. Walk(parent, n, Live) \subseteq Walk(parent, n, nodes)
      BY <1>0, TreeColumns, WalkThroughFewer
    <3> QED
      BY <2>0, <2>2, <3>1
  <2>4. p \notin Subtree(over)
    <3> SUFFICES ASSUME over \in Walk(parent, p, Live) PROVE FALSE
      BY <2>2
    <3>1. over \in Walk(parent, p, nodes)
      BY <1>0, TreeColumns, WalkThroughFewer
    <3>2. p \in Walk(parent, over, nodes)
      <4>1. over \in nodes /\ p # None
        BY <1>0, <2>0, TreeColumns
      <4> QED
        BY <1>0, <2>0, <4>1, TreeColumns, WalkSteps, WalkIs
    <3>3. CASE p # over
      BY <1>0, <2>0, <3>1, <3>2, <3>3, TreeColumns, NotBothWays DEF TreeInv
    <3>4. CASE p = over
      <4> DEFINE C == {over}
      <4>1. C \in SUBSET Ids /\ C \cap nodes # {}
            /\ \A x \in C \cap nodes : parent[x] \in C \cup {None}
        BY <2>0, <3>4, TreeColumns
      <4>2. Root \in C
        <5> HIDE DEF C
        <5> QED
          BY <4>1 DEF TreeInv, Rooted
      <4> QED
        BY <2>0, <4>2
    <3> QED
      BY <3>3, <3>4
  <2>5. \A m \in Ids \ Subtree(over) : t[m] = trash_root[m]
    BY <2>0 DEF TrashedWith
  <2>6. Subtree(over) \subseteq nodes
    BY <2>2, TreeColumns
  <2> HIDE DEF t
  <2>7. /\ TrashShape(parent, nodes, t) /\ t[n] = None /\ t[p] = None
        /\ \A m \in Ids \ nodes : t[m] = None
    BY <1>0, <2>1, <2>3, <2>4, <2>5, <2>6, TreeColumns
  <2> QED
    BY <2>7 DEF n, p, over, t
<1> QED
  BY <1>1, <1>2

(* With nobody in the middle of a request, nothing read can be old.        *)
LEMMA AllIdle ==
    ASSUME \A q \in Requests : ops'[q] = Idle
    PROVE  OneAtATime' /\ StillThere'
  BY DEF OneAtATime, StillThere, Idle

(* A request that is done remembers nothing.                               *)
LEMMA DoneIdle ==
    ASSUME TreeInv, TrashInv, NEW r \in Requests, ops[r] # Idle, Done(r)
    PROVE  OneAtATime' /\ StillThere'
<1>1. \A q \in Requests : ops'[q] = Idle
  BY DEF TrashInv, OneAtATime, Done, TreeInv, Remembered
<1> QED
  BY <1>1, AllIdle

(* A live node in a live directory disturbs no batch.                      *)
LEMMA InsertKeepsShape ==
    ASSUME TreeInv, TrashShape(parent, nodes, trash_root), NEW n \in Fresh, NEW p \in Live,
           NEW x, NEW h, NEW e, Insert(n, p, x, h, e)
    PROVE  TrashShape(parent, nodes, trash_root)'
<1>1. /\ nodes' = nodes \cup {n} /\ trash_root' = trash_root
      /\ parent' = [parent EXCEPT ![n] = p]
  BY DEF Insert
<1>2. n \in Ids \ nodes /\ trash_root[n] = None
  BY TreeColumns DEF Fresh
<1>3. parent'[n] = p /\ \A m \in nodes : parent'[m] = parent[m]
  BY <1>1, <1>2, TreeColumns
<1>4. LiveBelowLive(parent', nodes', trash_root')
  BY <1>1, <1>2, <1>3, TreeColumns DEF TrashShape, LiveBelowLive
<1>5. BatchesHaveRoots(nodes', trash_root')
  BY <1>1, <1>2 DEF TrashShape, BatchesHaveRoots
<1>6. BatchesHang(parent', nodes', trash_root')
  BY <1>1, <1>2, <1>3 DEF TrashShape, BatchesHang
<1> QED
  BY <1>4, <1>5, <1>6 DEF TrashShape

(* A request that looks has what it read.                                  *)
LEMMA TrashLook ==
    ASSUME Overtaking = FALSE, TreeInv, TrashInv, NEW r \in Requests, LookStep(r)
    PROVE  TrashInv'
<1> DEFINE Good(op) ==
      /\ op.dir # None => op.dir \in Live
      /\ op.node # None => op.node \in Live
      /\ op.over # None => /\ op.over \in Live /\ parent[op.over] = op.dir
                           /\ op.node \in Live
                           /\ op.over \notin Climb(op.node, nodes)
<1>1. ASSUME NEW op, Look(r, op), Good(op) PROVE TrashInv'
  <2>1. /\ UNCHANGED rowVars /\ ops' = [ops EXCEPT ![r] = op]
        /\ \A q \in Requests : ops[q] = Idle
    BY <1>1 DEF Look, Quiet
  <2>2. UNCHANGED <<nodes, parent, trash_root>>
    BY <2>1 DEF rowVars
  <2>3. ops'[r] = op /\ \A q \in Requests : q # r => ops'[q] = Idle
    BY <2>1 DEF TreeInv, Remembered
  <2>4. Good(Idle)
    BY DEF Idle
  <2>5. OneAtATime'
    BY <2>3 DEF OneAtATime
  <2>6. /\ Live' = Live
        /\ \A n : Climb(n, nodes)' = Climb(n, nodes)
    BY <2>2 DEF Live, Climb
  <2>7. StillThere'
    <3> SUFFICES ASSUME NEW q \in Requests
                 PROVE  /\ ops'[q].dir # None => ops'[q].dir \in Live'
                        /\ ops'[q].node # None => ops'[q].node \in Live'
                        /\ ops'[q].over # None =>
                              /\ ops'[q].over \in Live' /\ parent'[ops'[q].over] = ops'[q].dir
                              /\ ops'[q].node \in Live'
                              /\ ops'[q].over \notin Climb(ops[q].node, nodes)'
      BY DEF StillThere
    <3>1. Good(ops'[q])
      BY <1>1, <2>3, <2>4
    <3>2. Climb(ops[q].node, nodes)' = Climb(ops'[q].node, nodes)
      BY <2>2 DEF Climb
    <3> QED
      BY <2>2, <2>6, <3>1, <3>2
  <2> QED
    BY <2>2, <2>5, <2>7 DEF TrashInv
<1>2. ASSUME NEW p \in nodes, NEW x \in Names, LookMkdir(r, p, x) PROVE TrashInv'
  <2> DEFINE op == [Idle EXCEPT !.op = "mkdir", !.dir = p, !.as = x]
  <2>1. Good(op)
    BY <1>2 DEF Idle, LookMkdir, Directory, Reachable
  <2> QED
    BY <1>1, <1>2, <2>1 DEF LookMkdir
<1>3. ASSUME NEW p \in nodes, NEW x \in Names, NEW h \in Hashes, LookPut(r, p, x, h)
      PROVE  TrashInv'
  <2> DEFINE op == [Idle EXCEPT !.op = "put", !.dir = p, !.as = x, !.blob = h]
  <2>1. Good(op)
    BY <1>3 DEF Idle, LookPut, Directory, Reachable
  <2> QED
    BY <1>1, <1>3, <2>1 DEF LookPut
<1>4. ASSUME NEW k \in {"move", "copy"}, NEW n \in nodes, NEW p \in nodes, NEW x \in Names,
             LookTransfer(r, k, n, p, x)
      PROVE  TrashInv'
  <2> DEFINE content == IF k = "move" THEN etag[n] ELSE blob[n]
  <2>1. PICK over \in Child(p, x, Live) \cup {None} :
            /\ over # None => ~IsAbove(over, n)
            /\ Look(r, [Idle EXCEPT !.op = k, !.node = n, !.dir = p, !.as = x,
                                    !.blob = content, !.over = over])
    BY <1>4 DEF LookTransfer
  <2> DEFINE op == [Idle EXCEPT !.op = k, !.node = n, !.dir = p, !.as = x,
                                !.blob = content, !.over = over]
  <2>2. op.node = n /\ op.dir = p /\ op.over = over
    <3> HIDE DEF content
    <3> QED
      BY DEF Idle
  <2>3. n \in Live /\ p \in Live
    BY <1>4 DEF LookTransfer, Directory, Reachable
  <2>4. over # None => over \in Live /\ parent[over] = p /\ over \notin Climb(n, nodes)
    BY <2>1 DEF Child, IsAbove
  <2>5. Look(r, op)
    BY <2>1
  <2> HIDE DEF op
  <2> QED
    BY <1>1, <2>2, <2>3, <2>4, <2>5
<1>5. ASSUME NEW n \in nodes, LookSend(r, n) PROVE TrashInv'
  <2> DEFINE op == [Idle EXCEPT !.op = "send", !.node = n]
  <2>1. Good(op)
    BY <1>5 DEF Idle, LookSend, Reachable
  <2> QED
    BY <1>1, <1>5, <2>1 DEF LookSend
<1>6. ASSUME NEW n \in nodes, NEW h \in Hashes, LookRevert(r, n, h) PROVE TrashInv'
  <2> DEFINE op == [Idle EXCEPT !.op = "revert", !.node = n, !.dir = parent[n],
                                !.as = name[n], !.blob = h]
  <2>1. n # Root /\ n \in Live
    BY <1>6 DEF LookRevert, IsDirectory, Reachable, TreeInv, Shape
  <2>2. parent[n] \in Live
    BY <2>1, TreeColumns DEF TrashInv, TrashShape, LiveBelowLive
  <2>3. Good(op)
    BY <2>1, <2>2 DEF Idle
  <2> QED
    BY <1>1, <1>6, <2>3 DEF LookRevert
<1> QED
  BY <1>2, <1>3, <1>4, <1>5, <1>6 DEF LookStep

(* insert_directory into what was read and is still live.                  *)
LEMMA TrashMkdir ==
    ASSUME TreeInv, TrashInv, NEW r \in Requests, Mkdir(r)
    PROVE  TrashInv'
<1> DEFINE p == ops[r].dir
           x == ops[r].as
<1>0. p \in Live /\ Done(r) /\ ops[r] # Idle
  BY TreeColumns DEF Mkdir, TrashInv, StillThere, Idle
<1>1. TrashShape(parent, nodes, trash_root)'
  <2>1. CASE Child(p, x, Live) = {}
    <3>1. PICK n \in Fresh : Insert(n, p, x, None, None)
      BY <2>1 DEF Mkdir
    <3> HIDE DEF p, x
    <3> QED
      BY <1>0, <3>1, InsertKeepsShape DEF TrashInv
  <2>2. CASE Child(p, x, Live) # {}
    BY <2>2 DEF Mkdir, TrashInv
  <2> QED
    BY <2>1, <2>2
<1> QED
  BY <1>0, <1>1, DoneIdle DEF TrashInv

(* put_file, for an upload and for a version that is restored.             *)
LEMMA WriteKeepsShape ==
    ASSUME TreeInv, TrashShape(parent, nodes, trash_root), NEW p \in Live, NEW x, NEW h,
           NEW history, NEW used, NEW counts,
           \/ Create(p, x, h, used, counts)
           \/ \E n \in Child(p, x, Live) : Overwrite(n, h, history, used, counts)
    PROVE  TrashShape(parent, nodes, trash_root)'
<1>1. CASE Create(p, x, h, used, counts)
  BY <1>1, InsertKeepsShape DEF Create
<1>2. CASE \E n \in Child(p, x, Live) : Overwrite(n, h, history, used, counts)
  <2>1. UNCHANGED <<nodes, parent, trash_root>>
    BY <1>2 DEF Overwrite
  <2> QED
    BY <2>1
<1> QED
  BY <1>1, <1>2

(* put_file, over a live node or into a live directory.                    *)
LEMMA TrashPut ==
    ASSUME TreeInv, TrashInv, NEW r \in Requests, Put(r)
    PROVE  TrashInv'
<1> DEFINE p == ops[r].dir
           x == ops[r].as
           h == ops[r].blob
<1>0. p \in Live /\ Done(r) /\ ops[r] # Idle
  BY TreeColumns DEF Put, TrashInv, StillThere, Idle
<1>1. \/ Create(p, x, h, bytes_used, ref_count)
      \/ \E n \in Child(p, x, Live) : Overwrite(n, h, versions, bytes_used, ref_count)
  BY DEF Put
<1> HIDE DEF p, x, h
<1>2. TrashShape(parent, nodes, trash_root)'
  BY <1>0, <1>1, WriteKeepsShape DEF TrashInv
<1> QED
  BY <1>0, <1>2, DoneIdle DEF TrashInv

(* restore of a version into a directory that is live.                     *)
LEMMA TrashRevert ==
    ASSUME TreeInv, TrashInv, NEW r \in Requests, Revert(r)
    PROVE  TrashInv'
<1> DEFINE n == ops[r].node
           h == ops[r].blob
           p == ops[r].dir
           x == ops[r].as
           used == bytes_used - Size[h]
           counts == Adjusted(ref_count, None, [NothingLost EXCEPT ![h] = 1])
<1>0. p \in Live /\ Done(r) /\ ops[r] # Idle
  BY TreeColumns DEF Revert, TrashInv, StillThere, Idle
<1>1. PICK i \in DOMAIN versions[n] :
          LET held == [versions EXCEPT ![n] = RemoveAt(@, i)]
          IN  \/ \E m \in Child(p, ops[r].as, Live) :
                    ~IsDirectory(m) /\ Overwrite(m, h, held, used, counts)
              \/ /\ Child(p, ops[r].as, Live) = {}
                 /\ Create(p, ops[r].as, h, used, counts)
                 /\ versions' = held
  BY DEF Revert
<1> DEFINE held == [versions EXCEPT ![n] = RemoveAt(@, i)]
<1>2. \/ Create(p, x, h, used, counts)
      \/ \E m \in Child(p, x, Live) : Overwrite(m, h, held, used, counts)
  BY <1>1
<1> HIDE DEF p, x, h, used, counts, held
<1>3. TrashShape(parent, nodes, trash_root)'
  BY <1>0, <1>2, WriteKeepsShape DEF TrashInv
<1> QED
  BY <1>0, <1>3, DoneIdle DEF TrashInv

(* trash::send: all that is live below becomes one batch.                  *)
LEMMA TrashSend ==
    ASSUME TreeInv, TrashInv, NEW r \in Requests, Send(r)
    PROVE  TrashInv'
<1> DEFINE n == ops[r].node
<1>0. n \in Live /\ n # Root /\ Done(r) /\ ops[r] # Idle
  BY TreeColumns DEF Send, TrashInv, StillThere, Idle, TreeInv, Remembered
<1>1. /\ UNCHANGED <<nodes, parent>>
      /\ trash_root' = TrashedWith(Subtree(n), n)
  BY DEF Send
<1> HIDE DEF n
<1>2. TrashShape(parent, nodes, trash_root)'
  BY <1>0, <1>1, SendKeepsShape DEF TrashInv
<1> QED
  BY <1>0, <1>2, DoneIdle DEF TrashInv

(* db::rename of a live node into a live directory.                        *)
LEMMA TrashMove ==
    ASSUME TreeInv, TrashInv, NEW r \in Requests, Move(r)
    PROVE  TrashInv'
<1> DEFINE n == ops[r].node
           p == ops[r].dir
           over == ops[r].over
           t == TrashedWith(Cleared(over), over)
<1>0. /\ n \in nodes /\ p \in nodes /\ n # None /\ p # None /\ n \in Ids /\ n # Root
      /\ Done(r) /\ ops[r] # Idle
      /\ nodes' = nodes /\ trash_root' = t /\ parent' = [parent EXCEPT ![n] = p]
  BY TreeColumns DEF Move, Idle, TreeInv, Remembered
<1>1. TrashShape(parent, nodes, t) /\ t[n] = None /\ t[p] = None
  BY <1>0, ClearedLeaves
<1> HIDE DEF n, p, over, t
<1>2. parent'[n] = p /\ \A m \in nodes : m # n => parent'[m] = parent[m]
  BY <1>0, TreeColumns
<1>3. LiveBelowLive(parent', nodes', trash_root')
  BY <1>0, <1>1, <1>2 DEF TrashShape, LiveBelowLive
<1>4. BatchesHaveRoots(nodes', trash_root')
  BY <1>0, <1>1 DEF TrashShape, BatchesHaveRoots
<1>5. BatchesHang(parent', nodes', trash_root')
  BY <1>0, <1>1, <1>2 DEF TrashShape, BatchesHang
<1>6. OneAtATime' /\ StillThere'
  BY <1>0, DoneIdle
<1> QED
  BY <1>3, <1>4, <1>5, <1>6 DEF TrashInv, TrashShape

(* The rows of copy_tree: new ones, each in another or where it was asked. *)
LEMMA CopyRows ==
    ASSUME TreeInv, NEW r \in Requests, Copy(r)
    PROVE  \E ids \in SUBSET (Ids \ nodes) :
              /\ nodes' = nodes \cup ids
              /\ \A m \in nodes : parent'[m] = parent[m]
              /\ \A c \in ids : parent'[c] \in ids \cup {ops[r].dir}
<1> DEFINE n == ops[r].node
           p == ops[r].dir
           live == Live \ Cleared(ops[r].over)
           below == {m \in live \ {n} : n \in Climb(m, live)}
<1>1. PICK new \in [below \cup {n} -> Fresh] :
        LET old == [c \in {new[m] : m \in below \cup {n}} |->
                       CHOOSE m \in below \cup {n} : new[m] = c]
            ids == DOMAIN old
        IN  /\ nodes' = nodes \cup ids
            /\ parent' = [c \in Ids |->
                   IF c \notin ids THEN parent[c]
                   ELSE IF old[c] = n THEN p ELSE new[parent[old[c]]]]
  BY DEF Copy
<1> DEFINE ids == {new[m] : m \in below \cup {n}}
           old == [c \in ids |-> CHOOSE m \in below \cup {n} : new[m] = c]
<1>2. n \in Ids /\ live \in SUBSET Ids
  BY TreeColumns DEF Copy, TreeInv, Remembered
<1>3. \A m \in below : parent[m] \in below \cup {n}
  BY <1>2, BelowIsClosed
<1> HIDE DEF n, p, below
<1>4. ids \subseteq Ids \ nodes
  BY <1>1 DEF Fresh
<1>5. \A c \in ids : old[c] \in below \cup {n} /\ new[old[c]] = c
  BY <1>1
<1>6. /\ nodes' = nodes \cup ids
      /\ parent' = [c \in Ids |->
             IF c \notin ids THEN parent[c]
             ELSE IF old[c] = n THEN p ELSE new[parent[old[c]]]]
  BY <1>1
<1>7. \A m \in below \cup {n} : new[m] \in ids
  OBVIOUS
<1> HIDE DEF ids, old
<1>8. \A m \in nodes : parent'[m] = parent[m]
  BY <1>4, <1>6, TreeColumns
<1>9. ASSUME NEW c \in ids PROVE parent'[c] \in ids \cup {p}
  <2>1. CASE old[c] = n
    BY <1>4, <1>6, <2>1
  <2>2. CASE old[c] # n
    <3>1. parent'[c] = new[parent[old[c]]] /\ old[c] \in below
      BY <1>4, <1>5, <1>6, <2>2
    <3> QED
      BY <1>3, <1>7, <3>1
  <2> QED
    BY <2>1, <2>2
<1>10. \A c \in ids : parent'[c] \in ids \cup {ops[r].dir}
  BY <1>9 DEF p
<1> QED
  BY <1>4, <1>6, <1>8, <1>10

(* copy_tree into a live directory.                                        *)
LEMMA TrashCopy ==
    ASSUME TreeInv, TrashInv, NEW r \in Requests, Copy(r)
    PROVE  TrashInv'
<1> DEFINE p == ops[r].dir
           t == TrashedWith(Cleared(ops[r].over), ops[r].over)
<1>0. /\ ops[r].op = "copy" /\ p \in nodes /\ Done(r) /\ trash_root' = t
  BY DEF Copy
<1>1. ops[r] # Idle /\ ops[r].node # None /\ p # None
  BY <1>0, TreeColumns DEF Idle, TreeInv, Remembered
<1>2. /\ TrashShape(parent, nodes, t) /\ t[p] = None
      /\ \A m \in Ids \ nodes : t[m] = None
  BY <1>1, ClearedLeaves
<1>3. PICK ids \in SUBSET (Ids \ nodes) :
              /\ nodes' = nodes \cup ids
              /\ \A m \in nodes : parent'[m] = parent[m]
              /\ \A c \in ids : parent'[c] \in ids \cup {p}
  BY CopyRows
<1> HIDE DEF p, t
<1>4. LiveBelowLive(parent', nodes', trash_root')
  BY <1>0, <1>2, <1>3 DEF TrashShape, LiveBelowLive
<1>5. BatchesHaveRoots(nodes', trash_root')
  BY <1>0, <1>2, <1>3 DEF TrashShape, BatchesHaveRoots
<1>6. BatchesHang(parent', nodes', trash_root')
  BY <1>0, <1>2, <1>3 DEF TrashShape, BatchesHang
<1>7. OneAtATime' /\ StillThere'
  BY <1>0, <1>1, DoneIdle
<1> QED
  BY <1>4, <1>5, <1>6, <1>7 DEF TrashInv, TrashShape

(* restore: the way up comes back, the batch comes back whole, and what is *)
(* left of the batches the way up was in falls into batches again.         *)
LEMMA RestoreKeepsShape ==
    ASSUME TreeInv, TrashShape(parent, nodes, trash_root), NEW id \in Ids, Restore(id)
    PROVE  TrashShape(parent, nodes, trash_root)'
<1> USE TreeColumns
<1> DEFINE above == Climb(parent[id], Trashed) \cap Trashed
           batch == {m \in Trashed \ above : trash_root[m] = id}
           back == above \cup batch
           opened == {trash_root[m] : m \in above}
           left == Trashed \ back
           live == Live \cup back
<1>0. /\ UNCHANGED <<nodes, parent>> /\ id \in nodes /\ trash_root[id] = id
      /\ trash_root' =
            [m \in Ids |->
                IF m \in back THEN None
                ELSE IF m \in left /\ trash_root[m] \in opened
                     THEN Rerooted(m, left, live) ELSE trash_root[m]]
  BY DEF Restore
<1>1. id \in Trashed /\ id # Root /\ parent[id] \in nodes
  BY <1>0
<1>2. /\ parent[id] \in Trashed => parent[id] \in above
      /\ \A x \in above : parent[x] \in above \/ parent[x] \in Live
  <2> DEFINE W == Walk(parent, parent[id], Trashed)
  <2>1. parent[id] \in W /\ \A x \in W \cap Trashed : parent[x] \in W \cup {None}
    BY <1>1, WalkIs
  <2>2. above = W \cap Trashed
    BY ClimbIsWalk
  <2> HIDE DEF W, above
  <2>3. ASSUME NEW x \in above PROVE parent[x] \in above \/ parent[x] \in Live
    <3>1. x \in nodes \ {Root} /\ parent[x] \in nodes /\ parent[x] \in W
      BY <2>1, <2>2
    <3> QED
      BY <2>2, <3>1
  <2> QED
    BY <2>1, <2>2, <2>3
<1>3. ASSUME NEW a \in above PROVE trash_root[a] \in above
  <2>1. trash_root[a] \in Walk(parent, a, Trashed)
    BY BatchReaches
  <2>2. Walk(parent, a, Trashed) \subseteq Walk(parent, parent[id], Trashed)
    BY <1>1, ClimbIsWalk, WalkOn
  <2>3. trash_root[a] \in Trashed
    BY DEF TrashShape, BatchesHaveRoots
  <2> QED
    BY <2>1, <2>2, <2>3, ClimbIsWalk
<1> HIDE DEF above
<1>4. /\ opened \subseteq above
      /\ \A x \in above : trash_root[x] \in opened
      /\ back \subseteq Trashed /\ left \subseteq nodes \ {Root}
      /\ nodes = live \cup left /\ live \cap left = {}
  BY <1>3 DEF above
<1>5. \A m \in left : trash_root[m] # id /\ trash_root[m] \in Trashed
  BY DEF TrashShape, BatchesHaveRoots
<1> HIDE DEF opened
<1>6. ASSUME NEW m \in left, trash_root[m] \in opened PROVE trash_root[m] # m
  BY <1>4, <1>6
<1> DEFINE mates(m) == {q \in left : trash_root[q] = trash_root[m]}
           heads(m) == {s \in Walk(parent, m, mates(m)) \cap mates(m) : parent[s] \in live}
<1>7. ASSUME NEW m \in left, trash_root[m] \in opened
      PROVE  heads(m) # {} /\ heads(m) \subseteq mates(m)
  <2> SUFFICES ASSUME heads(m) = {} PROVE FALSE
    OBVIOUS
  <2> DEFINE W == Walk(parent, m, mates(m))
             C == W \cap mates(m)
  <2>1. mates(m) \in SUBSET Ids /\ m \in mates(m)
    BY <1>4
  <2>2. m \in W /\ \A x \in W \cap mates(m) : parent[x] \in W \cup {None}
    BY <1>4, <2>1, WalkIs
  <2>3. ASSUME NEW x \in C PROVE parent[x] \in C
    <3>1. x \in left /\ trash_root[x] = trash_root[m] /\ x # Root /\ x \in nodes
      BY <1>4
    <3>2. parent[x] \in left
      BY <1>4, <3>1
    <3>3. trash_root[x] # x
      BY <1>6, <1>7, <3>1
    <3>4. trash_root[parent[x]] = trash_root[m]
      BY <1>5, <3>1, <3>3 DEF TrashShape, BatchesHang
    <3> QED
      BY <2>2, <3>2, <3>4
  <2>4. C \in SUBSET Ids /\ C \cap nodes # {} /\ Root \notin C
    BY <1>4, <2>1, <2>2
  <2> HIDE DEF C
  <2> QED
    BY <2>3, <2>4 DEF TreeInv, Rooted
<1>8. ASSUME NEW m \in left, parent[m] \in live
      PROVE  heads(m) = {m}
  <2>1. mates(m) \in SUBSET Ids /\ m \in mates(m) /\ m \in Ids /\ parent[m] \in Ids
        /\ parent[m] \notin mates(m)
    BY <1>4, <1>8
  <2>2. Walk(parent, m, mates(m)) \subseteq {m, parent[m]} /\ m \in Walk(parent, m, mates(m))
    <3> HIDE DEF mates
    <3> QED
      BY <2>1, WalkSteps, WalkIs
  <2>3. Walk(parent, m, mates(m)) \cap mates(m) = {m}
    BY <2>1, <2>2
  <2> QED
    BY <1>8, <2>3
<1>9. ASSUME NEW m \in left, trash_root[m] \in opened, parent[m] \notin live
      PROVE  /\ parent[m] \in left /\ trash_root[parent[m]] = trash_root[m]
             /\ heads(parent[m]) = heads(m)
  <2>1. parent[m] \in left /\ trash_root[m] # m
    BY <1>4, <1>6, <1>9
  <2>2. trash_root[parent[m]] = trash_root[m]
    BY <1>4, <1>5, <2>1 DEF TrashShape, BatchesHang
  <2>3. mates(parent[m]) = mates(m)
    BY <2>2
  <2>4. Walk(parent, m, mates(m)) = {m} \cup Walk(parent, parent[m], mates(m))
    <3>1. mates(m) \in SUBSET Ids /\ m \in mates(m) /\ m \in Ids /\ parent[m] # None
      BY <1>4, <2>1
    <3> HIDE DEF mates
    <3> QED
      BY <3>1, WalkSteps
  <2> QED
    BY <1>9, <2>1, <2>2, <2>3, <2>4
<1> DEFINE head(m) == CHOOSE s \in heads(m) : TRUE
<1>10. ASSUME NEW m \in left, trash_root[m] \in opened
       PROVE  trash_root'[m] = head(m) /\ head(m) \in heads(m)
  <2>1. heads(m) # {}
    BY <1>7, <1>10
  <2>2. head(m) \in heads(m)
    <3> HIDE DEF heads
    <3> QED
      BY <2>1
  <2>3. Rerooted(m, left, live) = IF heads(m) = {} THEN trash_root[m] ELSE head(m)
    BY DEF Rerooted, Climb, Walk
  <2>4. m \in Ids /\ m \notin back
    BY <1>4
  <2> HIDE DEF heads, head, left, live, back
  <2>5. trash_root'[m] = Rerooted(m, left, live)
    BY <1>0, <1>10, <2>4
  <2> QED
    BY <2>1, <2>2, <2>3, <2>5
<1>11. /\ \A m \in live : trash_root'[m] = None
       /\ \A m \in left : trash_root[m] \notin opened => trash_root'[m] = trash_root[m]
  BY <1>0, <1>4
<1>12. LiveBelowLive(parent, nodes, trash_root')
  <2> SUFFICES ASSUME NEW m \in nodes \ {Root}, trash_root'[m] = None
               PROVE  parent[m] \in nodes /\ trash_root'[parent[m]] = None
    BY DEF LiveBelowLive
  <2>1. m \notin left
    <3> SUFFICES ASSUME m \in left PROVE FALSE
      OBVIOUS
    <3>1. CASE trash_root[m] \in opened
      <4>1. trash_root'[m] = head(m) /\ head(m) \in heads(m)
        BY <1>10, <3>1
      <4>2. head(m) \in Ids
        BY <1>4, <4>1
      <4> QED
        BY <4>1, <4>2
    <3>2. CASE trash_root[m] \notin opened
      BY <1>5, <1>11, <3>2
    <3> QED
      BY <3>1, <3>2
  <2>2. parent[m] \in live
    <3>1. CASE m \in Live
      BY <3>1 DEF TrashShape, LiveBelowLive
    <3>2. CASE m \in above
      BY <1>2, <3>2
    <3>3. CASE m \in batch /\ m = id
      BY <1>1, <1>2, <3>3
    <3>4. CASE m \in batch /\ m # id
      <4>1. parent[m] \in Trashed /\ trash_root[parent[m]] = id
        BY <1>1, <3>4 DEF TrashShape, BatchesHang
      <4> QED
        BY <4>1
    <3> QED
      BY <1>4, <2>1, <3>1, <3>2, <3>3, <3>4
  <2> QED
    BY <1>4, <1>11, <2>2
<1>13. BatchesHaveRoots(nodes, trash_root')
  <2> SUFFICES ASSUME NEW m \in nodes, trash_root'[m] # None
               PROVE  trash_root'[m] \in nodes /\ trash_root'[trash_root'[m]] = trash_root'[m]
    BY DEF BatchesHaveRoots
  <2>1. m \in left
    BY <1>4, <1>11
  <2>2. CASE trash_root[m] \in opened
    <3> DEFINE s == head(m)
    <3>1. trash_root'[m] = s /\ s \in heads(m)
      BY <1>10, <2>1, <2>2
    <3>2. s \in left /\ trash_root[s] = trash_root[m] /\ parent[s] \in live
      BY <3>1
    <3> HIDE DEF s
    <3>3. trash_root'[s] = head(s) /\ head(s) \in heads(s) /\ heads(s) = {s}
      BY <1>8, <1>10, <2>2, <3>2
    <3>4. trash_root'[s] = s
      BY <3>3
    <3> QED
      BY <1>4, <3>1, <3>2, <3>4
  <2>3. CASE trash_root[m] \notin opened
    <3> DEFINE b == trash_root[m]
    <3>1. b \in Trashed /\ trash_root[b] = b /\ b # id
      BY <1>5, <2>1 DEF TrashShape, BatchesHaveRoots
    <3>2. b \in left
      BY <1>4, <2>3, <3>1
    <3>3. trash_root'[m] = b /\ trash_root'[b] = b
      BY <1>11, <2>1, <2>3, <3>1, <3>2
    <3> QED
      BY <1>4, <3>2, <3>3
  <2> QED
    BY <2>2, <2>3
<1>14. BatchesHang(parent, nodes, trash_root')
  <2> SUFFICES ASSUME NEW m \in nodes, trash_root'[m] \notin {None, m}
               PROVE  parent[m] \in nodes /\ trash_root'[parent[m]] = trash_root'[m]
    BY DEF BatchesHang
  <2>1. m \in left
    BY <1>4, <1>11
  <2>2. CASE trash_root[m] \in opened
    <3>1. trash_root'[m] = head(m) /\ head(m) \in heads(m)
      BY <1>10, <2>1, <2>2
    <3>2. parent[m] \notin live
      <4> SUFFICES ASSUME parent[m] \in live PROVE FALSE
        OBVIOUS
      <4>1. heads(m) = {m}
        BY <1>8, <2>1
      <4> QED
        BY <3>1, <4>1
    <3>3. /\ parent[m] \in left /\ trash_root[parent[m]] = trash_root[m]
          /\ heads(parent[m]) = heads(m)
      BY <1>9, <2>1, <2>2, <3>2
    <3>4. trash_root'[parent[m]] = head(parent[m])
      BY <1>10, <2>2, <3>3
    <3>5. head(parent[m]) = head(m)
      <4> HIDE DEF heads
      <4> QED
        BY <3>3
    <3> QED
      BY <1>4, <3>1, <3>3, <3>4, <3>5
  <2>3. CASE trash_root[m] \notin opened
    <3>1. trash_root'[m] = trash_root[m] /\ trash_root[m] \notin {None, m}
      BY <1>11, <2>1, <2>3
    <3>2. parent[m] \in Trashed /\ trash_root[parent[m]] = trash_root[m]
      BY <2>1, <3>1 DEF TrashShape, BatchesHang
    <3>3. parent[m] \in left
      BY <1>4, <1>5, <2>1, <2>3, <3>2
    <3> QED
      BY <1>4, <1>11, <2>3, <3>1, <3>2, <3>3
  <2> QED
    BY <2>2, <2>3
<1> QED
  BY <1>0, <1>12, <1>13, <1>14 DEF TrashShape

(* purge, by hand or when the retention is over: it takes whole batches    *)
(* and nothing live.                                                       *)
LEMMA PurgeKeepsShape ==
    ASSUME TreeInv, TrashShape(parent, nodes, trash_root),
           NEW id \in nodes, trash_root[id] = id, PurgeRoot(id)
    PROVE  /\ TrashShape(parent, nodes, trash_root)'
           /\ Live' = Live /\ nodes' \subseteq nodes
           /\ \A m \in nodes' : parent'[m] = parent[m]
<1> USE TreeColumns
<1> DEFINE gone == Cascade(id)
<1>0. id \in Ids /\ id # Root /\ id \in Trashed
  OBVIOUS
<1>1. /\ nodes' = nodes \ gone
      /\ parent' = [m \in Ids |-> IF m \in gone THEN None ELSE parent[m]]
      /\ trash_root' = [m \in Ids |-> IF m \in gone THEN None ELSE trash_root[m]]
  BY DEF PurgeRoot
<1>2. \A m \in nodes : parent[m] \in gone \/ trash_root[m] \in gone => m \in gone
  BY <1>0, CascadeIs
<1>3. gone \subseteq Trashed
  <2> DEFINE C == Trashed
  <2>1. \A m \in nodes : parent[m] \in C \/ trash_root[m] \in C => m \in C
    BY DEF TrashShape, LiveBelowLive
  <2> HIDE DEF C
  <2>2. gone \subseteq C
    BY <1>0, <2>1, CascadeIs DEF C
  <2> QED
    BY <2>2 DEF C
<1> HIDE DEF gone
<1>4. \A m \in nodes' : /\ m \in nodes /\ m \notin gone /\ m \in Ids
                        /\ parent'[m] = parent[m] /\ trash_root'[m] = trash_root[m]
  BY <1>1
<1>5. Live' = Live
  BY <1>1, <1>3, <1>4 DEF Live
<1>6. LiveBelowLive(parent', nodes', trash_root')
  BY <1>1, <1>2, <1>4 DEF TrashShape, LiveBelowLive
<1>7. BatchesHaveRoots(nodes', trash_root')
  BY <1>1, <1>2, <1>4 DEF TrashShape, BatchesHaveRoots
<1>8. BatchesHang(parent', nodes', trash_root')
  BY <1>1, <1>2, <1>4 DEF TrashShape, BatchesHang
<1> QED
  BY <1>1, <1>4, <1>5, <1>6, <1>7, <1>8 DEF TrashShape

(* What a request read outlives the purge of what is in the trash.         *)
LEMMA ExpiryKeeps ==
    ASSUME TreeInv, TreeInv', TrashInv, ops' = ops, Live' = Live, nodes' \subseteq nodes,
           \A m \in nodes' : parent'[m] = parent[m],
           TrashShape(parent, nodes, trash_root)'
    PROVE  TrashInv'
<1>1. OneAtATime'
  BY DEF TrashInv, OneAtATime
<1>2. ASSUME NEW q \in Requests, ops[q].over # None
      PROVE  ops[q].over \notin Climb(ops[q].node, nodes)'
  <2> DEFINE n == ops[q].node
             C == Walk(parent, n, nodes)
  <2>1. n \in Live /\ n \in Ids /\ ops[q].over \notin C
    BY <1>2, ClimbIsWalk, TreeColumns DEF TrashInv, StillThere
  <2>2. n \in C /\ \A x \in C \cap nodes : parent[x] \in C \cup {None}
    BY <2>1, TreeColumns, WalkIs
  <2>3. \A x \in C \cap nodes' : parent'[x] \in C \cup {None}
    BY <2>2
  <2>4. nodes' \in SUBSET Ids /\ parent' \in [Ids -> Ids \cup {None}]
    BY DEF TreeInv, Columns
  <2> HIDE DEF C, n
  <2>5. Walk(parent', n, nodes') \subseteq C
    BY <2>1, <2>2, <2>3, <2>4, WalkIs
  <2>6. Climb(ops[q].node, nodes)' = Walk(parent', n, nodes')
    BY DEF Climb, Walk, n
  <2> QED
    BY <2>1, <2>5, <2>6
<1>3. ASSUME NEW q \in Requests, ops[q].over # None
      PROVE  parent'[ops[q].over] = ops[q].dir
  <2>1. ops[q].over \in Live' /\ parent[ops[q].over] = ops[q].dir
    BY <1>3 DEF TrashInv, StillThere
  <2> QED
    BY <2>1 DEF Live
<1>4. StillThere'
  BY <1>2, <1>3 DEF TrashInv, StillThere
<1> QED
  BY <1>1, <1>4 DEF TrashInv

(* purge takes whole batches.                                              *)
LEMMA TrashPurge ==
    ASSUME TreeInv, TreeInv', TrashInv, NEW id \in nodes, trash_root[id] = id, PurgeRoot(id)
    PROVE  TrashInv'
<1>1. ops' = ops
  BY DEF PurgeRoot
<1> QED
  BY <1>1, PurgeKeepsShape, ExpiryKeeps DEF TrashInv

(* Nothing is in the trash at first.                                       *)
LEMMA TrashInvInit == Init => TrashInv
<1> SUFFICES ASSUME Init PROVE TrashInv
  OBVIOUS
<1>1. OneAtATime /\ StillThere
  BY DEF Init, OneAtATime, StillThere, Idle
<1>2. TrashShape(parent, nodes, trash_root)
  BY IdsAssumption DEF Init, TrashShape, LiveBelowLive, BatchesHaveRoots, BatchesHang
<1> QED
  BY <1>1, <1>2 DEF TrashInv

(* Every step leaves batches whole and live nodes in live directories.     *)
LEMMA TrashInvStep ==
    ASSUME Overtaking = FALSE
    PROVE  TreeInv /\ TreeInv' /\ TrashInv /\ [Next]_vars => TrashInv'
<1> SUFFICES ASSUME TreeInv, TreeInv', TrashInv, [Next]_vars PROVE TrashInv'
  OBVIOUS
<1>0. ASSUME UNCHANGED <<nodes, parent, trash_root, ops>> PROVE TrashInv'
  BY <1>0, ExpiryKeeps DEF TrashInv, Live
<1>1. ASSUME NEW r \in Requests, LookStep(r) PROVE TrashInv'
  BY <1>1, TrashLook
<1>2. ASSUME NEW r \in Requests, WriteStep(r) PROVE TrashInv'
  <2>1. CASE Refuse(r)
    <3>1. OneAtATime' /\ StillThere'
      BY <2>1, DoneIdle DEF Refuse
    <3> QED
      BY <2>1, <3>1 DEF Refuse, rowVars, TrashInv
  <2> QED
    BY <1>2, <2>1, TrashMkdir, TrashPut, TrashRevert, TrashSend, TrashMove, TrashCopy
    DEF WriteStep
<1>3. ASSUME TrashStep PROVE TrashInv'
  <2>1. ASSUME NEW id \in Ids, Restore(id) PROVE TrashInv'
    <3>1. \A q \in Requests : ops'[q] = Idle
      BY <2>1 DEF Restore, Quiet
    <3> QED
      BY <2>1, <3>1, AllIdle, RestoreKeepsShape DEF TrashInv
  <2>2. ASSUME NEW id \in Ids, ExpireOne(id) PROVE TrashInv'
    <3>1. CASE id \in nodes /\ trash_root[id] = id
      BY <2>2, <3>1, TrashPurge DEF ExpireOne
    <3>2. CASE ~(id \in nodes /\ trash_root[id] = id)
      BY <1>0, <2>2, <3>2 DEF ExpireOne, rowVars
    <3> QED
      BY <3>1, <3>2
  <2>3. ASSUME NEW id \in Ids, Purge(id) PROVE TrashInv'
    BY <2>3, TrashPurge DEF Purge
  <2>4. ASSUME NEW id \in Ids, Age(id) PROVE TrashInv'
    BY <1>0, <2>4 DEF Age, rowVars
  <2>5. ASSUME ListDue PROVE TrashInv'
    BY <1>0, <2>5 DEF ListDue, rowVars
  <2> QED
    BY <1>3, <2>1, <2>2, <2>3, <2>4, <2>5 DEF TrashStep
<1>4. ASSUME NEW q \in Quotas, SetQuota(q) PROVE TrashInv'
  BY <1>0, <1>4 DEF SetQuota, rowVars
<1>5. ASSUME UNCHANGED vars PROVE TrashInv'
  BY <1>0, <1>5 DEF vars
<1> QED
  BY <1>1, <1>2, <1>3, <1>4, <1>5 DEF Next

(* The trash is in order in every reachable state.                         *)
LEMMA TrashInvariant ==
    ASSUME Overtaking = FALSE
    PROVE  Spec => [](TreeInv /\ TrashInv)
<1>1. TreeInv /\ TrashInv /\ [Next]_vars => TrashInv'
  BY TrashInvStep, TreeInvStep
<1> QED
  BY <1>1, TreeInvariant, TrashInvInit, PTL DEF Spec

(* NothingLiveBelowTrash: what is deleted goes with all that is in it and  *)
(* what is restored comes back with the way to it, so that a path leads to *)
(* every live node.  Requests that overtake each other are another matter: *)
(* one may write into a directory that is being trashed.                   *)
THEOREM LiveNodesAreReachable ==
    ASSUME Overtaking = FALSE
    PROVE  Spec => []NothingLiveBelowTrash
<1>1. TreeInv /\ TrashInv => NothingLiveBelowTrash
  <2> SUFFICES ASSUME TreeInv, TrashInv, NEW n \in Live
               PROVE  Root \in Walk(parent, n, Live \ {Root})
    BY ClimbIsWalk DEF NothingLiveBelowTrash, Reachable
  <2> USE TreeColumns
  <2> DEFINE S == Live \ {Root}
             C == Walk(parent, n, S)
  <2>0. n \in Ids /\ S \in SUBSET Ids
    OBVIOUS
  <2> HIDE DEF S
  <2>1. n \in C /\ C \in SUBSET Ids /\ \A x \in C \cap S : parent[x] \in C \cup {None}
    BY <2>0, WalkIs
  <2>2. C \subseteq Live
    <3> DEFINE D == Live
    <3>1. n \in D /\ \A x \in D \cap S : parent[x] \in D \cup {None}
      BY DEF S, TrashInv, TrashShape, LiveBelowLive
    <3> HIDE DEF D
    <3>2. C \subseteq D
      BY <2>0, <3>1, WalkIs
    <3> QED
      BY <3>2 DEF D
  <2> HIDE DEF C
  <2>3. \A x \in C \cap nodes : parent[x] \in C \cup {None}
    BY <2>1, <2>2 DEF S
  <2>4. Root \in C
    BY <2>1, <2>3 DEF TreeInv, Rooted
  <2> QED
    BY <2>4 DEF C, S
<1> QED
  BY <1>1, TrashInvariant, PTL

(* TrashIsListed: whatever is trashed, restored in part or purged, each    *)
(* trashed node is in a batch whose root the trash lists.                  *)
THEOREM TrashCanBeEmptied ==
    ASSUME Overtaking = FALSE
    PROVE  Spec => []TrashIsListed
<1>1. TreeInv /\ TrashInv => TrashIsListed
  <2> SUFFICES ASSUME TreeInv, TrashInv PROVE TrashIsListed
    OBVIOUS
  <2> QED
    BY TreeColumns DEF TrashInv, TrashShape, BatchesHaveRoots, TrashIsListed
<1> QED
  BY <1>1, TrashInvariant, PTL

-----------------------------------------------------------------------------
(* Versions and what they weigh *)

(* What the rows of a sequence of hashes add up to when h is worth c[h].   *)
Along(c, s) == SumFunction([i \in DOMAIN s |-> c[s[i]]])

(* One more row.                                                           *)
LEMMA AlongAppend ==
    ASSUME NEW c \in [Hashes -> Nat], NEW s \in Seq(Hashes), NEW h \in Hashes
    PROVE  Along(c, s) \in Int /\ Along(c, Append(s, h)) = Along(c, s) + c[h]
<1> DEFINE t == Append(s, h)
           n == Len(s) + 1
           F == [i \in DOMAIN t |-> c[t[i]]]
           G == [i \in DOMAIN s |-> c[s[i]]]
<1>1. /\ t \in Seq(Hashes) /\ DOMAIN t = 1 .. n /\ DOMAIN s = 1 .. Len(s) /\ n \in Nat
      /\ t[n] = h /\ \A i \in 1 .. Len(s) : t[i] = s[i] /\ s[i] \in Hashes
  OBVIOUS
<1>2. DOMAIN F = 1 .. n /\ F[n] = c[h] /\ \A i \in 1 .. n : F[i] \in Int
  BY <1>1
<1>3. Restrict(F, DOMAIN F \ {n}) = G
  <2>1. DOMAIN F \ {n} = 1 .. Len(s)
    BY <1>1, <1>2
  <2> QED
    BY <1>1, <2>1 DEF Restrict
<1>4. DOMAIN G = 1 .. Len(s) /\ \A i \in 1 .. Len(s) : G[i] \in Int
  BY <1>1
<1>5. IsFiniteSet(1 .. n) /\ IsFiniteSet(1 .. Len(s)) /\ n \in 1 .. n
  BY <1>1, FS_Interval
<1> HIDE DEF F, G
<1>6. SumFunction(F) = F[n] + SumFunction(G)
  BY <1>2, <1>3, <1>5, SumTakes
<1>7. SumFunction(G) \in Int
  BY <1>4, <1>5, SumTakes
<1>8. SumFunction(F) = SumFunction(G) + c[h]
  BY <1>2, <1>6, <1>7
<1> QED
  BY <1>7, <1>8 DEF Along, F, G

(* No rows, and two sequences of them.                                     *)
LEMMA AlongConcat ==
    ASSUME NEW c \in [Hashes -> Nat], NEW s \in Seq(Hashes), NEW t \in Seq(Hashes)
    PROVE  /\ Along(c, <<>>) = 0
           /\ Along(c, s) \in Nat
           /\ Along(c, s \o t) = Along(c, s) + Along(c, t)
<1>1. Along(c, <<>>) = 0
  <2> DEFINE F == [i \in DOMAIN <<>> |-> c[<<>>[i]]]
  <2>1. DOMAIN F = {}
    OBVIOUS
  <2> HIDE DEF F
  <2> QED
    BY <2>1, SumTakes, FS_EmptySet DEF Along, F
<1> DEFINE head(q, k) == SubSeq(q, 1, k)
<1>2. ASSUME NEW q \in Seq(Hashes)
      PROVE  /\ head(q, 0) = <<>> /\ head(q, Len(q)) = q /\ Len(q) \in Nat
             /\ \A k \in 0 .. Len(q) : head(q, k) \in Seq(Hashes)
             /\ \A k \in 0 .. Len(q) - 1 :
                   q[k + 1] \in Hashes /\ head(q, k + 1) = Append(head(q, k), q[k + 1])
  OBVIOUS
<1>3. ASSUME NEW p \in Seq(Hashes), NEW u \in Hashes
      PROVE  s \o p \in Seq(Hashes) /\ s \o Append(p, u) = Append(s \o p, u)
  OBVIOUS
<1>4. s \o <<>> = s
  OBVIOUS
<1> HIDE DEF head
<1>5. ASSUME NEW q \in Seq(Hashes) PROVE Along(c, q) \in Nat
  <2> DEFINE along(k) == Along(c, head(q, k))
             Good == {k \in 0 .. Len(q) : along(k) \in Nat}
  <2>1. 0 \in 0 .. Len(q) /\ along(0) = 0
    BY <1>1, <1>2
  <2>2. ASSUME NEW k \in 0 .. Len(q) - 1
        PROVE  k \in 0 .. Len(q) /\ k + 1 \in 0 .. Len(q) /\ along(k + 1) = along(k) + c[q[k + 1]]
    <3>0. Len(q) \in Nat
      BY <1>2
    <3>1. /\ k \in 0 .. Len(q) /\ k + 1 \in 0 .. Len(q) /\ q[k + 1] \in Hashes
          /\ head(q, k) \in Seq(Hashes) /\ head(q, k + 1) = Append(head(q, k), q[k + 1])
      <4>1. k \in 0 .. Len(q) /\ k + 1 \in 0 .. Len(q)
        BY <3>0
      <4> QED
        BY <1>2, <4>1
    <3>2. Along(c, Append(head(q, k), q[k + 1])) = Along(c, head(q, k)) + c[q[k + 1]]
      BY <3>1, AlongAppend
    <3> QED
      BY <3>1, <3>2
  <2>3. along(Len(q)) = Along(c, q)
    BY <1>2
  <2> HIDE DEF along
  <2>4. ASSUME NEW k \in 0 .. Len(q) - 1, k \in Good PROVE k + 1 \in Good
    <3>1. c[q[k + 1]] \in Nat
      BY <1>2
    <3>2. along(k) \in Nat
      BY <2>4
    <3> QED
      BY <2>2, <3>1, <3>2
  <2>5. \A k \in 0 .. Len(q) : k \in Good
    <3>1. 0 \in Good
      BY <2>1
    <3> HIDE DEF Good
    <3> QED
      BY <1>2, <2>4, <3>1, UpTo
  <2>6. Len(q) \in Good
    BY <1>2, <2>5
  <2> QED
    BY <2>3, <2>6
<1>6. Along(c, s \o t) = Along(c, s) + Along(c, t)
  <2> DEFINE along(k) == Along(c, head(t, k))
             both(k) == Along(c, s \o head(t, k))
             Good == {k \in 0 .. Len(t) : both(k) = Along(c, s) + along(k)}
  <2>1. 0 \in 0 .. Len(t) /\ along(0) = 0 /\ both(0) = Along(c, s)
    <3>1. head(t, 0) = <<>> /\ Len(t) \in Nat
      BY <1>2
    <3>2. s \o head(t, 0) = s
      BY <1>4, <3>1
    <3>3. Along(c, head(t, 0)) = 0 /\ Along(c, s \o head(t, 0)) = Along(c, s)
      BY <1>1, <3>1, <3>2
    <3> QED
      BY <3>1, <3>3
  <2>2. ASSUME NEW k \in 0 .. Len(t) - 1
        PROVE  /\ k + 1 \in 0 .. Len(t) /\ along(k) \in Int /\ c[t[k + 1]] \in Int
               /\ along(k + 1) = along(k) + c[t[k + 1]]
               /\ both(k + 1) = both(k) + c[t[k + 1]]
    <3>0. Len(t) \in Nat
      BY <1>2
    <3>1. /\ k \in 0 .. Len(t) /\ k + 1 \in 0 .. Len(t) /\ t[k + 1] \in Hashes
          /\ head(t, k) \in Seq(Hashes) /\ head(t, k + 1) = Append(head(t, k), t[k + 1])
      <4>1. k \in 0 .. Len(t) /\ k + 1 \in 0 .. Len(t)
        BY <3>0
      <4> QED
        BY <1>2, <4>1
    <3>2. /\ Along(c, Append(head(t, k), t[k + 1])) = Along(c, head(t, k)) + c[t[k + 1]]
          /\ Along(c, head(t, k)) \in Int
      BY <3>1, AlongAppend
    <3>3. s \o head(t, k) \in Seq(Hashes)
          /\ s \o head(t, k + 1) = Append(s \o head(t, k), t[k + 1])
      BY <1>3, <3>1
    <3>4. Along(c, Append(s \o head(t, k), t[k + 1])) = Along(c, s \o head(t, k)) + c[t[k + 1]]
      BY <3>1, <3>3, AlongAppend
    <3>5. both(k + 1) = both(k) + c[t[k + 1]]
      BY <3>3, <3>4
    <3>6. c[t[k + 1]] \in Int
      BY <3>1
    <3> QED
      BY <3>1, <3>2, <3>5, <3>6
  <2>3. along(Len(t)) = Along(c, t) /\ both(Len(t)) = Along(c, s \o t)
    BY <1>2
  <2> HIDE DEF along, both
  <2>4. Along(c, s) \in Int
    BY <1>5
  <2>5. ASSUME NEW k \in 0 .. Len(t) - 1, k \in Good PROVE k + 1 \in Good
    <3>1. both(k) = Along(c, s) + along(k)
      BY <2>5
    <3>2. both(k + 1) = Along(c, s) + along(k + 1)
      <4> DEFINE a == Along(c, s)
                 b == along(k)
                 d == c[t[k + 1]]
      <4>1. a \in Int /\ b \in Int /\ d \in Int
        BY <2>2, <2>4
      <4>2. along(k + 1) = b + d /\ both(k + 1) = both(k) + d
        BY <2>2
      <4>3. both(k) = a + b
        BY <3>1
      <4> HIDE DEF a, b, d
      <4>4. both(k + 1) = a + along(k + 1)
        BY <4>1, <4>2, <4>3
      <4> QED
        BY <4>4 DEF a
    <3> QED
      BY <2>2, <3>2
  <2>6. \A k \in 0 .. Len(t) : k \in Good
    <3>1. 0 \in Good
      BY <2>1, <2>4
    <3> HIDE DEF Good
    <3> QED
      BY <1>2, <2>5, <3>1, UpTo
  <2>7. Len(t) \in Good
    BY <1>2, <2>6
  <2> QED
    BY <2>3, <2>7
<1> QED
  BY <1>1, <1>5, <1>6

(* A sequence that is cut in two, ...                                      *)
LEMMA AlongCut ==
    ASSUME NEW c \in [Hashes -> Nat], NEW s \in Seq(Hashes), NEW k \in 0 .. Len(s)
    PROVE  /\ SubSeq(s, 1, k) \in Seq(Hashes) /\ Len(SubSeq(s, 1, k)) = k
           /\ SubSeq(s, k + 1, Len(s)) \in Seq(Hashes)
           /\ Len(SubSeq(s, k + 1, Len(s))) = Len(s) - k
           /\ Along(c, s) = Along(c, SubSeq(s, 1, k)) + Along(c, SubSeq(s, k + 1, Len(s)))
<1> DEFINE p == SubSeq(s, 1, k)
           q == SubSeq(s, k + 1, Len(s))
<1>1. p \in Seq(Hashes) /\ Len(p) = k /\ q \in Seq(Hashes) /\ Len(q) = Len(s) - k
  OBVIOUS
<1>2. Len(s) \in Nat /\ (\A i \in 1 .. k : p[i] = s[i]) /\ \A i \in 1 .. Len(s) - k : q[i] = s[i + k]
  OBVIOUS
<1> HIDE DEF p, q
<1>3. s = p \o q
  <2>1. /\ Len(p \o q) = Len(p) + Len(q) /\ p \o q \in Seq(Hashes)
        /\ \A i \in 1 .. Len(p) + Len(q) :
              (p \o q)[i] = IF i <= Len(p) THEN p[i] ELSE q[i - Len(p)]
    BY <1>1, ConcatProperties
  <2>2. Len(p \o q) = Len(s)
    BY <1>1, <1>2, <2>1
  <2>3. ASSUME NEW i \in 1 .. Len(s) PROVE (p \o q)[i] = s[i]
    <3>0. (p \o q)[i] = IF i <= k THEN p[i] ELSE q[i - k]
      BY <1>1, <1>2, <2>1
    <3>1. CASE i <= k
      BY <1>2, <3>0, <3>1
    <3>2. CASE ~(i <= k)
      <4>1. i - k \in 1 .. Len(s) - k /\ (i - k) + k = i
        BY <1>2, <3>2
      <4>2. q[i - k] = s[i]
        BY <1>2, <4>1
      <4> QED
        BY <3>0, <3>2, <4>2
    <3> QED
      BY <3>1, <3>2
  <2> QED
    BY <2>1, <2>2, <2>3, SeqEqual
<1> QED
  BY <1>1, <1>3, AlongConcat DEF p, q

(* ... one that ends a row earlier, ...                                    *)
LEMMA AlongStep ==
    ASSUME NEW c \in [Hashes -> Nat], NEW s \in Seq(Hashes), NEW k \in 1 .. Len(s)
    PROVE  Along(c, SubSeq(s, 1, k)) = Along(c, SubSeq(s, 1, k - 1)) + c[s[k]]
<1> DEFINE p == SubSeq(s, 1, k - 1)
<1>1. p \in Seq(Hashes) /\ s[k] \in Hashes /\ SubSeq(s, 1, k) = Append(p, s[k])
  OBVIOUS
<1> HIDE DEF p
<1> QED
  BY <1>1, AlongAppend DEF p

(* ... and one that loses a row.                                           *)
LEMMA AlongRemove ==
    ASSUME NEW c \in [Hashes -> Nat], NEW s \in Seq(Hashes), NEW k \in 1 .. Len(s)
    PROVE  /\ s[k] \in Hashes
           /\ RemoveAt(s, k) \in Seq(Hashes) /\ Len(RemoveAt(s, k)) = Len(s) - 1
           /\ Along(c, s) = Along(c, RemoveAt(s, k)) + c[s[k]]
<1> DEFINE p == SubSeq(s, 1, k - 1)
           q == SubSeq(s, k + 1, Len(s))
<1>1. k \in 0 .. Len(s) /\ k - 1 \in 0 .. Len(s) /\ Len(s) \in Nat /\ s[k] \in Hashes
  OBVIOUS
<1>2. /\ p \in Seq(Hashes) /\ Len(p) = k - 1
      /\ q \in Seq(Hashes) /\ Len(q) = Len(s) - k
  BY <1>1, AlongCut
<1>3. /\ Along(c, s) = Along(c, SubSeq(s, 1, k)) + Along(c, q)
      /\ Along(c, SubSeq(s, 1, k)) = Along(c, p) + c[s[k]]
  BY <1>1, AlongCut, AlongStep
<1>4. RemoveAt(s, k) = p \o q
  BY DEF RemoveAt
<1> HIDE DEF p, q
<1>5. p \o q \in Seq(Hashes) /\ Len(p \o q) = Len(p) + Len(q)
  BY <1>2, ConcatProperties
<1>6. Along(c, p \o q) = Along(c, p) + Along(c, q) /\ Along(c, p) \in Nat /\ Along(c, q) \in Nat
  BY <1>2, AlongConcat
<1>7. Along(c, s) = Along(c, p \o q) + c[s[k]]
  <2> DEFINE a == Along(c, p)
             b == Along(c, q)
             d == c[s[k]]
  <2>1. Along(c, s) = (a + d) + b /\ Along(c, p \o q) = a + b /\ a \in Int /\ b \in Int /\ d \in Int
    BY <1>1, <1>3, <1>6
  <2> HIDE DEF a, b, d
  <2>2. Along(c, s) = Along(c, p \o q) + d
    BY <2>1
  <2> QED
    BY <2>2 DEF d
<1>8. Len(p \o q) = Len(s) - 1
  BY <1>1, <1>2, <1>5
<1> QED
  BY <1>1, <1>4, <1>5, <1>7, <1>8

(* What each version costs, and whether it holds a blob.                   *)
One(h) == [g \in Hashes |-> IF g = h THEN 1 ELSE 0]

(* The bytes of a history and the times a blob is in it are such sums.    *)
LEMMA AlongIs ==
    ASSUME NEW s \in Seq(Hashes), NEW h \in Hashes
    PROVE  /\ Bytes(s) = Along(Size, s)
           /\ Occurrences(h, s) = Along(One(h), s)
           /\ Size \in [Hashes -> Nat] /\ One(h) \in [Hashes -> Nat]
<1> DEFINE F == [i \in DOMAIN s |-> One(h)[s[i]]]
           A == {i \in DOMAIN s : s[i] = h}
<1>1. IsFiniteSet(DOMAIN s) /\ A \in SUBSET (DOMAIN s)
  BY FS_Interval
<1>2. \A i \in DOMAIN s : F[i] = IF i \in A THEN 1 ELSE 0
  BY DEF One
<1>3. F = Restrict(F, DOMAIN s)
  BY DEF Restrict
<1> HIDE DEF F, A
<1>4. SumFunction(F) = Cardinality(A)
  BY <1>1, <1>2, <1>3, SumOfOnes
<1>5. Occurrences(h, s) = Along(One(h), s)
  BY <1>4 DEF Occurrences, Along, F, A
<1> QED
  BY <1>5, SizeAssumption DEF Bytes, Along, One

-----------------------------------------------------------------------------
(* Overwriting *)

(* make_room drops some of the oldest versions, none when the content fits *)
(* at once, and never charges below nothing on the way.                    *)
LEMMA MakeRoomIs ==
    ASSUME NEW held \in Seq(Hashes), NEW used \in Nat, NEW previous \in Hashes,
           NEW h \in Hashes, bytes_max \in Nat
    PROVE  LET room == MakeRoom(held, used, previous, h)
               first == SubSeq(held, 1, room.dropped)
           IN  /\ room.dropped \in 0 .. Len(held) /\ room.versioned \in BOOLEAN
               /\ room.used = used - Along(Size, first) + Size[h]
                              - (IF room.versioned THEN 0 ELSE Size[previous])
               /\ room.allowed => room.used \in Nat
<1> DEFINE first(k) == SubSeq(held, 1, k)
           fits == {k \in 0 .. Len(held) : Charge(used - Bytes(first(k)), Size[h])}
           dropped == IF fits = {} THEN Len(held) ELSE Min(fits)
           left == used - Bytes(first(dropped))
           delta == IF fits = {} THEN Size[h] - Size[previous] ELSE Size[h]
           allowed == /\ \A k \in 1 .. dropped :
                            Charge(used - Bytes(first(k - 1)), -Size[held[k]])
                      /\ Charge(left, delta)
           room == MakeRoom(held, used, previous, h)
<1>1. /\ room.versioned = (fits # {}) /\ room.dropped = dropped
      /\ room.used = left + delta /\ room.allowed = allowed
  BY DEF MakeRoom
<1>2. Len(held) \in Nat /\ fits \subseteq 0 .. Len(held)
  OBVIOUS
<1>3. ASSUME NEW k \in 0 .. Len(held)
      PROVE  first(k) \in Seq(Hashes) /\ Bytes(first(k)) = Along(Size, first(k))
             /\ Along(Size, first(k)) \in Nat
  <2>1. first(k) \in Seq(Hashes)
    BY AlongCut, SizeAssumption
  <2> HIDE DEF first
  <2> QED
    BY <2>1, AlongIs, AlongConcat, SizeAssumption
<1>4. ASSUME NEW k \in 1 .. Len(held)
      PROVE  /\ Along(Size, first(k)) = Along(Size, first(k - 1)) + Size[held[k]]
             /\ held[k] \in Hashes
  BY AlongStep, SizeAssumption
<1>5. first(0) = <<>> /\ Along(Size, <<>>) = 0
  BY AlongConcat, SizeAssumption
<1> HIDE DEF first, fits, room
<1>6. dropped \in 0 .. Len(held)
  <2>1. CASE fits = {}
    BY <1>2, <2>1
  <2>2. CASE fits # {}
    <3>1. \E x \in fits : \A y \in fits : x <= y
      <4>1. fits \subseteq Nat
        BY <1>2
      <4> QED
        BY <2>2, <4>1, LeastNatural
    <3>2. Min(fits) \in fits
      BY <3>1 DEF Min
    <3> QED
      BY <1>2, <2>2, <3>2
  <2> QED
    BY <2>1, <2>2
<1> HIDE DEF dropped
<1>7. left = used - Along(Size, first(dropped))
  BY <1>3, <1>6
<1>8. /\ Along(Size, first(dropped)) \in Nat /\ Size[h] \in Nat /\ Size[previous] \in Nat
      /\ \A k \in 1 .. Len(held) : Size[held[k]] \in Nat
  BY <1>3, <1>4, <1>6, SizeAssumption
<1>9. left + delta = used - Along(Size, first(dropped)) + Size[h]
                     - (IF fits # {} THEN 0 ELSE Size[previous])
  BY <1>7, <1>8
<1>10. ASSUME allowed PROVE left + delta \in Nat
  <2> DEFINE Good == {k \in 0 .. dropped : used - Along(Size, first(k)) \in Nat}
  <2>0. dropped \in Nat
    BY <1>2, <1>6
  <2>1. 0 \in Good
    BY <1>5, <2>0
  <2>2. ASSUME NEW k \in 0 .. dropped - 1, k \in Good PROVE k + 1 \in Good
    <3>1. k \in 0 .. Len(held) /\ k + 1 \in 1 .. Len(held) /\ k + 1 \in 1 .. dropped
          /\ k + 1 \in 0 .. dropped /\ (k + 1) - 1 = k
      BY <1>2, <1>6
    <3> DEFINE a == Along(Size, first(k))
               b == Size[held[k + 1]]
    <3>2. a \in Nat /\ b \in Nat /\ Along(Size, first(k + 1)) = a + b
      BY <1>3, <1>4, <1>8, <3>1
    <3>3. used - a \in Nat
      BY <2>2
    <3>4. Charge(used - a, -b)
      <4>1. Charge(used - Bytes(first((k + 1) - 1)), -b)
        BY <1>10, <3>1
      <4> QED
        BY <1>3, <3>1, <4>1
    <3> HIDE DEF a, b
    <3>5. used - (a + b) \in Nat
      BY <3>2, <3>3, <3>4 DEF Charge
    <3>6. used - Along(Size, first(k + 1)) \in Nat
      BY <3>2, <3>5
    <3> QED
      BY <3>1, <3>6
  <2>3. dropped \in Good
    <3>1. \A k \in 0 .. dropped : k \in Good
      <4> HIDE DEF Good
      <4> QED
        BY <2>0, <2>1, <2>2, UpTo
    <3> QED
      BY <2>0, <3>1
  <2>4. left \in Nat
    BY <1>7, <2>3
  <2>5. Charge(left, delta) /\ delta \in Int
    BY <1>8, <1>10
  <2> HIDE DEF left, delta
  <2> QED
    BY <2>4, <2>5 DEF Charge
<1> HIDE DEF allowed, left, delta
<1>11. room.versioned \in BOOLEAN
  BY <1>1
<1>12. room.used = used - Along(Size, first(room.dropped)) + Size[h]
                   - (IF room.versioned THEN 0 ELSE Size[previous])
  BY <1>1, <1>9
<1>13. room.dropped \in 0 .. Len(held) /\ (room.allowed => room.used \in Nat)
  BY <1>1, <1>6, <1>10
<1> QED
  BY <1>11, <1>12, <1>13 DEF room, first

(* ... and where no version is made of what is replaced, nothing is        *)
(* dropped.                                                                *)
LEMMA RoomIs ==
    ASSUME NEW held \in Seq(Hashes), NEW used \in Nat, NEW previous \in Hashes,
           NEW h \in Hashes, bytes_max \in Nat
    PROVE  LET room == Room(held, used, previous, h)
               first == SubSeq(held, 1, room.dropped)
           IN  /\ room.dropped \in 0 .. Len(held) /\ room.versioned \in BOOLEAN
               /\ room.used = used - Along(Size, first) + Size[h]
                              - (IF room.versioned THEN 0 ELSE Size[previous])
               /\ room.allowed => room.used \in Nat
<1>1. CASE VERSIONS_KEPT > 0 /\ Size[previous] > 0 /\ previous # h
  BY <1>1, MakeRoomIs DEF Room
<1>2. CASE ~(VERSIONS_KEPT > 0 /\ Size[previous] > 0 /\ previous # h)
  <2> DEFINE room == Room(held, used, previous, h)
  <2>1. /\ room.versioned = FALSE /\ room.dropped = 0
        /\ room.used = used + Size[h] - Size[previous]
        /\ room.allowed = Charge(used, Size[h] - Size[previous])
    BY <1>2 DEF Room, JustCharge
  <2>2. SubSeq(held, 1, 0) = <<>> /\ Along(Size, <<>>) = 0 /\ 0 \in 0 .. Len(held)
    BY AlongConcat, SizeAssumption
  <2>3. Size[h] \in Nat /\ Size[previous] \in Nat
    BY SizeAssumption
  <2> HIDE DEF room
  <2>4. room.allowed => room.used \in Nat
    <3> SUFFICES ASSUME room.allowed PROVE room.used \in Nat
      OBVIOUS
    <3> DEFINE d == Size[h] - Size[previous]
    <3>1. Charge(used, d)
      BY <2>1
    <3>2. d \in Int /\ room.used = used + d
      BY <2>1, <2>3
    <3> HIDE DEF d
    <3> QED
      BY <3>1, <3>2 DEF Charge
  <2>5. room.used = used - Along(Size, SubSeq(held, 1, room.dropped)) + Size[h]
                    - (IF room.versioned THEN 0 ELSE Size[previous])
    <3>1. Along(Size, SubSeq(held, 1, room.dropped)) = 0
      BY <2>1, <2>2
    <3> QED
      BY <2>1, <2>3, <3>1
  <2> QED
    BY <2>1, <2>2, <2>4, <2>5 DEF room
<1> QED
  BY <1>1, <1>2

(* An overwrite of n that leaves it the versions `kept` and lets go of     *)
(* `lost`: of every worth of blobs, nothing is lost on the way.            *)
Overwritten(n, h, history, used, counts, kept, lost) ==
    /\ versions' = [history EXCEPT ![n] = kept]
    /\ Len(kept) <= VERSIONS_KEPT
    /\ bytes_used' = used + Size[h] - Along(Size, lost)
    /\ bytes_used' \in Nat
    /\ ref_count' = Adjusted(counts, h, [g \in Hashes |-> Occurrences(g, lost)])
    /\ \A c \in [Hashes -> Nat] :
          Along(c, kept) + Along(c, lost) = c[blob[n]] + Along(c, history[n])

(* What an overwrite gives up and what it keeps are what there was, by any *)
(* measure; and it keeps no more than it should.                           *)
LEMMA OverwriteIs ==
    ASSUME NEW n \in Ids, NEW h \in Hashes, NEW history \in [Ids -> Seq(Hashes)],
           NEW used \in Nat, NEW counts, bytes_max \in Nat,
           blob[n] \in Hashes, Overwrite(n, h, history, used, counts)
    PROVE  \E kept \in Seq(Hashes), lost \in Seq(Hashes) :
              Overwritten(n, h, history, used, counts, kept, lost)
<1> DEFINE previous == blob[n]
           held == history[n]
           room == Room(held, used, previous, h)
           first == SubSeq(held, 1, room.dropped)
           left == SubSeq(held, room.dropped + 1, Len(held))
           stack == IF room.versioned THEN Append(left, previous) ELSE left
           beyond == Beyond(stack)
           pruned == SubSeq(stack, 1, beyond)
           kept == SubSeq(stack, beyond + 1, Len(stack))
           rest == IF room.versioned THEN <<>> ELSE <<previous>>
           lost == first \o pruned \o rest
<1>1. /\ room.allowed /\ Charge(room.used, -Bytes(pruned))
      /\ bytes_used' = room.used - Bytes(pruned)
      /\ ref_count' = Adjusted(counts, h, [g \in Hashes |-> Occurrences(g, lost)])
      /\ versions' = [history EXCEPT ![n] = kept]
  BY DEF Overwrite
<1>2. held \in Seq(Hashes) /\ previous \in Hashes
  OBVIOUS
<1> HIDE DEF held, previous
<1>3. /\ room.dropped \in 0 .. Len(held) /\ room.versioned \in BOOLEAN
      /\ room.used = used - Along(Size, first) + Size[h]
                     - (IF room.versioned THEN 0 ELSE Size[previous])
      /\ room.used \in Nat
  BY <1>1, <1>2, RoomIs
<1> HIDE DEF room
<1>4. /\ first \in Seq(Hashes) /\ left \in Seq(Hashes)
      /\ \A c \in [Hashes -> Nat] : Along(c, held) = Along(c, first) + Along(c, left)
  <2>1. ASSUME NEW c \in [Hashes -> Nat]
        PROVE  /\ first \in Seq(Hashes) /\ left \in Seq(Hashes)
               /\ Along(c, held) = Along(c, first) + Along(c, left)
    BY <1>2, <1>3, AlongCut
  <2> QED
    BY <2>1, SizeAssumption
<1> HIDE DEF first, left
<1>5. /\ stack \in Seq(Hashes) /\ rest \in Seq(Hashes)
      /\ \A c \in [Hashes -> Nat] :
            /\ Along(c, stack) + Along(c, rest) = Along(c, left) + c[previous]
            /\ Along(c, rest) = IF room.versioned THEN 0 ELSE c[previous]
  <2>1. <<>> \in Seq(Hashes) /\ <<previous>> \in Seq(Hashes) /\ Append(<<>>, previous) = <<previous>>
        /\ Append(left, previous) \in Seq(Hashes)
    BY <1>2, <1>4
  <2>2. stack \in Seq(Hashes) /\ rest \in Seq(Hashes)
    BY <1>4, <2>1
  <2>3. ASSUME NEW c \in [Hashes -> Nat]
        PROVE  /\ Along(c, stack) + Along(c, rest) = Along(c, left) + c[previous]
               /\ Along(c, rest) = IF room.versioned THEN 0 ELSE c[previous]
    <3>1. Along(c, <<>>) = 0 /\ Along(c, left) \in Nat /\ c[previous] \in Nat
      BY <1>2, <1>4, AlongConcat
    <3>2. Along(c, Append(<<>>, previous)) = Along(c, <<>>) + c[previous]
      BY <1>2, <2>1, AlongAppend
    <3>3. Along(c, <<previous>>) = c[previous]
      <4>1. Along(c, <<previous>>) = Along(c, Append(<<>>, previous))
        BY <2>1
      <4> QED
        BY <3>1, <3>2, <4>1
    <3>4. Along(c, Append(left, previous)) = Along(c, left) + c[previous]
      BY <1>2, <1>4, AlongAppend
    <3>5. CASE room.versioned
      BY <3>1, <3>4, <3>5
    <3>6. CASE ~room.versioned
      BY <3>1, <3>3, <3>6
    <3> QED
      BY <3>5, <3>6
  <2> QED
    BY <2>2, <2>3
<1> HIDE DEF stack, rest
<1>6. beyond \in 0 .. Len(stack) /\ Len(stack) - beyond <= VERSIONS_KEPT
  <2> DEFINE S == {0, Len(stack) - VERSIONS_KEPT}
  <2>1. Len(stack) \in Nat /\ VERSIONS_KEPT \in Nat
    BY <1>5, LimitsAssumption
  <2>2. \E x \in S : \A y \in S : x >= y
    BY <2>1
  <2>3. Max(S) \in S /\ \A y \in S : Max(S) >= y
    <3> HIDE DEF S
    <3> QED
      BY <2>2 DEF Max
  <2>4. beyond = Max(S)
    BY DEF Beyond
  <2> HIDE DEF beyond
  <2> QED
    BY <2>1, <2>3, <2>4
<1> HIDE DEF beyond
<1>7. /\ pruned \in Seq(Hashes) /\ kept \in Seq(Hashes) /\ Len(kept) <= VERSIONS_KEPT
      /\ \A c \in [Hashes -> Nat] : Along(c, stack) = Along(c, pruned) + Along(c, kept)
  <2>1. ASSUME NEW c \in [Hashes -> Nat]
        PROVE  /\ pruned \in Seq(Hashes) /\ kept \in Seq(Hashes)
               /\ Len(kept) = Len(stack) - beyond
               /\ Along(c, stack) = Along(c, pruned) + Along(c, kept)
    BY <1>5, <1>6, AlongCut
  <2> QED
    BY <1>6, <2>1, SizeAssumption
<1> HIDE DEF pruned, kept
<1>8. /\ lost \in Seq(Hashes)
      /\ \A c \in [Hashes -> Nat] : /\ Along(c, lost) = Along(c, first) + Along(c, pruned) + Along(c, rest)
                                    /\ Along(c, first) \in Nat /\ Along(c, pruned) \in Nat
                                    /\ Along(c, rest) \in Nat /\ Along(c, kept) \in Nat
                                    /\ Along(c, stack) \in Nat /\ Along(c, left) \in Nat
  <2> DEFINE both == first \o pruned
  <2>1. both \in Seq(Hashes)
    BY <1>4, <1>7, ConcatProperties
  <2>2. ASSUME NEW c \in [Hashes -> Nat] PROVE Along(c, both) = Along(c, first) + Along(c, pruned)
    BY <1>4, <1>7, AlongConcat
  <2> HIDE DEF both
  <2>3. both \o rest \in Seq(Hashes)
    BY <1>5, <2>1, ConcatProperties
  <2>4. ASSUME NEW c \in [Hashes -> Nat] PROVE Along(c, both \o rest) = Along(c, both) + Along(c, rest)
    BY <1>5, <2>1, AlongConcat
  <2>5. lost = both \o rest
    BY DEF both
  <2> HIDE DEF lost
  <2>6. ASSUME NEW c \in [Hashes -> Nat]
        PROVE  /\ Along(c, first) \in Nat /\ Along(c, pruned) \in Nat
               /\ Along(c, rest) \in Nat /\ Along(c, kept) \in Nat
               /\ Along(c, stack) \in Nat /\ Along(c, left) \in Nat
    BY <1>4, <1>5, <1>7, AlongConcat
  <2> QED
    BY <2>2, <2>3, <2>4, <2>5, <2>6
<1> HIDE DEF lost
<1>9. ASSUME NEW c \in [Hashes -> Nat]
      PROVE  Along(c, kept) + Along(c, lost) = c[previous] + Along(c, held)
  <2>1. c[previous] \in Nat
    BY <1>2
  <2>2. /\ Along(c, held) = Along(c, first) + Along(c, left)
        /\ Along(c, stack) + Along(c, rest) = Along(c, left) + c[previous]
        /\ Along(c, stack) = Along(c, pruned) + Along(c, kept)
        /\ Along(c, lost) = Along(c, first) + Along(c, pruned) + Along(c, rest)
    BY <1>4, <1>5, <1>7, <1>8
  <2>3. /\ Along(c, first) \in Nat /\ Along(c, pruned) \in Nat
        /\ Along(c, rest) \in Nat /\ Along(c, kept) \in Nat
        /\ Along(c, stack) \in Nat /\ Along(c, left) \in Nat
    BY <1>8
  <2> DEFINE f == Along(c, first)
             l == Along(c, left)
             p == Along(c, pruned)
             r == Along(c, rest)
             k == Along(c, kept)
             was == c[previous]
  <2>4. /\ Along(c, held) = f + l /\ (p + k) + r = l + was /\ Along(c, lost) = f + p + r
        /\ f \in Nat /\ l \in Nat /\ p \in Nat /\ r \in Nat /\ k \in Nat /\ was \in Nat
    BY <2>1, <2>2, <2>3
  <2> HIDE DEF f, l, p, r, k, was
  <2>5. k + Along(c, lost) = was + Along(c, held)
    BY <2>4
  <2> QED
    BY <2>5 DEF k, was
<1>10. Bytes(pruned) = Along(Size, pruned) /\ Along(Size, pruned) \in Nat
  BY <1>2, <1>7, <1>8, AlongIs, SizeAssumption
<1>11. bytes_used' = used + Size[h] - Along(Size, lost)
  <2>1. /\ Along(Size, lost) = Along(Size, first) + Along(Size, pruned) + Along(Size, rest)
        /\ Along(Size, first) \in Nat /\ Along(Size, pruned) \in Nat
        /\ Along(Size, rest) = IF room.versioned THEN 0 ELSE Size[previous]
        /\ Size[h] \in Nat /\ Size[previous] \in Nat
    BY <1>2, <1>5, <1>8, SizeAssumption
  <2> QED
    BY <1>1, <1>3, <1>10, <2>1
<1>12. bytes_used' \in Nat
  <2> DEFINE p == Bytes(pruned)
  <2>1. p \in Nat /\ Charge(room.used, -p) /\ bytes_used' = room.used - p /\ room.used \in Nat
    BY <1>1, <1>3, <1>10
  <2> HIDE DEF p
  <2> QED
    BY <2>1 DEF Charge
<1>13. Overwritten(n, h, history, used, counts, kept, lost)
  BY <1>1, <1>7, <1>8, <1>9, <1>11, <1>12 DEF previous, held, Overwritten
<1> QED
  BY <1>7, <1>8, <1>13

-----------------------------------------------------------------------------
(* What the rows of the tree add up to *)

Total(f, S) == SumFunction(Restrict(f, S))

(* What a row is worth with its versions, when a blob h is worth c[h].     *)
Value(c, b, v) ==
    [n \in Ids |-> (IF b[n] = None THEN 0 ELSE c[b[n]]) + Along(c, v[n])]

(* The columns the sums are made of.                                       *)
SumTypes ==
    /\ versions \in [Ids -> Seq(Hashes)]
    /\ \A n \in Ids : Len(versions[n]) <= VERSIONS_KEPT
    /\ ref_count \in [Hashes -> Nat]
    /\ bytes_used \in Nat
    /\ bytes_max \in Quotas
    /\ aged \subseteq Ids
    /\ due \subseteq Ids

(* Sums over parts of the table are those of finitely many naturals.       *)
LEMMA TotalIs ==
    ASSUME NEW f \in [Ids -> Nat], NEW S \in SUBSET Ids
    PROVE  /\ IsFiniteSet(S) /\ Total(f, S) \in Nat
           /\ (\A n \in S : f[n] = 0) => Total(f, S) = 0
           /\ \A A \in SUBSET S : Total(f, S) = Total(f, A) + Total(f, S \ A)
           /\ \A n \in S : Total(f, S) = f[n] + Total(f, S \ {n})
<1>1. IsFiniteSet(S) /\ \A n \in S : f[n] \in Nat /\ f[n] \in Int
  BY IdsAssumption, FS_Subset
<1> QED
  BY <1>1, SumOfNaturals, SumSplits, SumOfPart DEF Total

(* Rows that are worth the same add up to the same.                        *)
LEMMA TotalSame ==
    ASSUME NEW f, NEW g, NEW S, \A n \in S : f[n] = g[n]
    PROVE  Total(f, S) = Total(g, S)
<1>1. Restrict(f, S) = Restrict(g, S)
  BY DEF Restrict
<1> QED
  BY <1>1 DEF Total

(* One row changes.                                                        *)
LEMMA TotalChanges ==
    ASSUME NEW f \in [Ids -> Nat], NEW g \in [Ids -> Nat], NEW S \in SUBSET Ids,
           NEW n \in S, \A m \in S \ {n} : f[m] = g[m]
    PROVE  Total(g, S) + f[n] = Total(f, S) + g[n] /\ Total(f, S) >= f[n]
<1>1. Total(f, S \ {n}) = Total(g, S \ {n})
  BY TotalSame
<1>2. Total(f, S) = f[n] + Total(f, S \ {n}) /\ Total(g, S) = g[n] + Total(g, S \ {n})
  BY TotalIs
<1>3. Total(f, S \ {n}) \in Nat /\ f[n] \in Nat /\ g[n] \in Nat
  <2>1. S \ {n} \in SUBSET Ids /\ n \in Ids
    OBVIOUS
  <2> QED
    BY <2>1, TotalIs
<1> QED
  BY <1>1, <1>2, <1>3

(* Rows of any worth, and their versions.                                  *)
LEMMA ValueIs ==
    ASSUME NEW c \in [Hashes -> Nat], NEW b \in [Ids -> Hashes \cup {None}],
           NEW v \in [Ids -> Seq(Hashes)]
    PROVE  Value(c, b, v) \in [Ids -> Nat]
<1>1. ASSUME NEW n \in Ids PROVE (IF b[n] = None THEN 0 ELSE c[b[n]]) + Along(c, v[n]) \in Nat
  <2>1. v[n] \in Seq(Hashes) /\ b[n] \in Hashes \cup {None}
    OBVIOUS
  <2>2. Along(c, v[n]) \in Nat
    BY <2>1, AlongConcat
  <2> QED
    BY <2>1, <2>2
<1> QED
  BY <1>1 DEF Value

(* The sums the code charges for and releases.                             *)
LEMMA SumsAre ==
    ASSUME TreeInv, SumTypes, NEW S \in SUBSET Ids
    PROVE  /\ WeightOf(S) = Total(Value(Size, blob, versions), S)
           /\ WeightOf(S) \in Nat
           /\ SizesOf(S) \in Nat
           /\ (\A n \in S : versions[n] = <<>>) => SizesOf(S) = WeightOf(S)
           /\ SizesOf(S) + SumFunction([n \in S |-> Bytes(versions[n])]) = WeightOf(S)
           /\ \A h \in Hashes : /\ HeldBy(S)[h] = Total(Value(One(h), blob, versions), S)
                                /\ HeldBy(S)[h] \in Nat
<1> DEFINE W == Value(Size, blob, versions)
           Z == [n \in Ids |-> SizeOf(n)]
           B == [n \in Ids |-> Bytes(versions[n])]
<1>0. blob \in [Ids -> Hashes \cup {None}] /\ versions \in [Ids -> Seq(Hashes)]
  BY DEF TreeInv, Columns, SumTypes
<1>1. W \in [Ids -> Nat]
  BY <1>0, ValueIs, SizeAssumption
<1>2. ASSUME NEW n \in Ids
      PROVE  /\ W[n] = Weight(n) /\ Z[n] \in Nat /\ B[n] \in Nat /\ W[n] = Z[n] + B[n]
             /\ versions[n] = <<>> => B[n] = 0
  <2>1. versions[n] \in Seq(Hashes) /\ blob[n] \in Hashes \cup {None}
    BY <1>0
  <2>2. Along(Size, versions[n]) \in Nat /\ Along(Size, <<>>) = 0
    BY <2>1, AlongConcat, SizeAssumption
  <2>3. Bytes(versions[n]) = Along(Size, versions[n])
    <3>1. \A s \in Seq(Hashes) : Bytes(s) = Along(Size, s)
      BY DEF Bytes, Along
    <3> QED
      BY <2>1, <3>1
  <2>4. SizeOf(n) = (IF blob[n] = None THEN 0 ELSE Size[blob[n]]) /\ SizeOf(n) \in Nat
    BY <2>1, SizeAssumption DEF SizeOf, IsDirectory
  <2>5. W[n] = (IF blob[n] = None THEN 0 ELSE Size[blob[n]]) + Along(Size, versions[n])
    BY DEF Value
  <2>6. Z[n] = SizeOf(n) /\ B[n] = Along(Size, versions[n])
    BY <2>3
  <2> HIDE DEF W, Z, B
  <2>7. Weight(n) = SizeOf(n) + Bytes(versions[n])
    BY DEF Weight
  <2> QED
    BY <2>2, <2>3, <2>4, <2>5, <2>6, <2>7
<1>3. IsFiniteSet(S)
  BY IdsAssumption, FS_Subset
<1>4. Total(W, S) = WeightOf(S)
  <2>1. Restrict(W, S) = [n \in S |-> Weight(n)]
    BY <1>2 DEF Restrict
  <2> QED
    BY <2>1 DEF Total, WeightOf
<1>5. Total(Z, S) = SizesOf(S)
  <2>1. Restrict(Z, S) = [n \in S |-> SizeOf(n)]
    BY DEF Restrict
  <2> QED
    BY <2>1 DEF Total, SizesOf
<1>6. Total(B, S) = SumFunction([n \in S |-> Bytes(versions[n])])
  <2>1. Restrict(B, S) = [n \in S |-> Bytes(versions[n])]
    BY DEF Restrict
  <2> QED
    BY <2>1 DEF Total
<1>7. Z \in [Ids -> Nat] /\ B \in [Ids -> Nat]
  BY <1>2
<1> HIDE DEF W, Z, B
<1>8. Total(W, S) = Total(Z, S) + Total(B, S)
  <2>1. \A n \in S : Z[n] \in Int /\ B[n] \in Int /\ W[n] = Z[n] + B[n]
    BY <1>2
  <2> QED
    BY <1>3, <2>1, SumOfSums DEF Total
<1>9. Total(W, S) \in Nat /\ Total(Z, S) \in Nat /\ Total(B, S) \in Nat
  BY <1>1, <1>7, TotalIs
<1>10. (\A n \in S : versions[n] = <<>>) => Total(B, S) = 0
  BY <1>2, <1>7, TotalIs
<1>11. ASSUME NEW h \in Hashes
       PROVE  HeldBy(S)[h] = Total(Value(One(h), blob, versions), S) /\ HeldBy(S)[h] \in Nat
  <2> DEFINE V == Value(One(h), blob, versions)
             I == [n \in Ids |-> IF blob[n] = h THEN 1 ELSE 0]
             O == [n \in Ids |-> Occurrences(h, versions[n])]
             A == {n \in S : blob[n] = h}
  <2>1. One(h) \in [Hashes -> Nat] /\ h # None
    BY NamesAssumption DEF One
  <2>2. V \in [Ids -> Nat]
    BY <1>0, <2>1, ValueIs
  <2>3. ASSUME NEW n \in Ids PROVE I[n] \in Nat /\ O[n] \in Nat /\ V[n] = I[n] + O[n]
    <3>1. versions[n] \in Seq(Hashes) /\ blob[n] \in Hashes \cup {None}
      BY <1>0
    <3>2. O[n] = Along(One(h), versions[n]) /\ Along(One(h), versions[n]) \in Nat
      BY <2>1, <3>1, AlongIs, AlongConcat
    <3>3. I[n] = IF blob[n] = None THEN 0 ELSE One(h)[blob[n]]
      BY <2>1, <3>1 DEF One
    <3> QED
      BY <3>2, <3>3 DEF Value
  <2>4. Total(I, S) = Cardinality(A)
    <3>1. A \in SUBSET S /\ \A n \in S : I[n] = IF n \in A THEN 1 ELSE 0
      OBVIOUS
    <3> HIDE DEF I, A
    <3> QED
      BY <1>3, <3>1, SumOfOnes DEF Total
  <2>5. Total(O, S) = SumFunction([n \in S |-> Occurrences(h, versions[n])])
    <3>1. Restrict(O, S) = [n \in S |-> Occurrences(h, versions[n])]
      BY DEF Restrict
    <3> QED
      BY <3>1 DEF Total
  <2>6. HeldBy(S)[h] = Cardinality(A) + SumFunction([n \in S |-> Occurrences(h, versions[n])])
    BY DEF HeldBy
  <2> HIDE DEF V, I, O, A
  <2>7. Total(V, S) = Total(I, S) + Total(O, S)
    <3>1. \A n \in S : I[n] \in Int /\ O[n] \in Int /\ V[n] = I[n] + O[n]
      BY <2>3
    <3> QED
      BY <1>3, <3>1, SumOfSums DEF Total
  <2>8. Total(V, S) \in Nat
    BY <2>2, TotalIs
  <2> QED
    BY <2>4, <2>5, <2>6, <2>7, <2>8 DEF V
<1> QED
  BY <1>4, <1>5, <1>6, <1>8, <1>9, <1>10, <1>11 DEF W

(* acquire_blob and release_blob never leave a count below zero, and are   *)
(* exact where there is enough to release.                                 *)
LEMMA AdjustedIs ==
    ASSUME NEW counts \in [Hashes -> Nat], NEW gained, NEW lost \in [Hashes -> Nat]
    PROVE  /\ Adjusted(counts, gained, lost) \in [Hashes -> Nat]
           /\ \A h \in Hashes : \A left \in Nat :
                 left + lost[h] = counts[h] + (IF h = gained THEN 1 ELSE 0)
                    => Adjusted(counts, gained, lost)[h] = left
<1>1. ASSUME NEW h \in Hashes PROVE counts[h] \in Nat /\ lost[h] \in Nat
  OBVIOUS
<1> QED
  BY <1>1 DEF Adjusted

(* What charge_quota lets through.                                         *)
LEMMA ChargeIs ==
    ASSUME NEW used \in Nat, NEW delta \in Int, SumTypes, Charge(used, delta)
    PROVE  used + delta \in Nat
  BY LimitsAssumption DEF Charge, SumTypes

(* put_file over a file keeps the columns of the sums what they are.       *)
LEMMA OverwriteTypes ==
    ASSUME TreeInv, SumTypes, NEW n \in Live, ~IsDirectory(n), NEW h \in Hashes,
           NEW history \in [Ids -> Seq(Hashes)],
           \A m \in Ids : Len(history[m]) <= VERSIONS_KEPT,
           NEW used \in Nat, NEW counts \in [Hashes -> Nat],
           Overwrite(n, h, history, used, counts), UNCHANGED <<bytes_max, aged, due>>
    PROVE  SumTypes'
<1>1. n \in Ids /\ blob[n] \in Hashes /\ bytes_max \in Nat
  BY LimitsAssumption DEF TreeInv, Columns, Live, IsDirectory, SumTypes
<1>2. PICK kept \in Seq(Hashes), lost \in Seq(Hashes) :
              Overwritten(n, h, history, used, counts, kept, lost)
  BY <1>1, OverwriteIs
<1>3. [g \in Hashes |-> Occurrences(g, lost)] \in [Hashes -> Nat]
  <2>1. ASSUME NEW g \in Hashes PROVE Occurrences(g, lost) \in Nat
    BY AlongIs, AlongConcat
  <2> QED
    BY <2>1
<1>4. ref_count' \in [Hashes -> Nat]
  BY <1>2, <1>3, AdjustedIs DEF Overwritten
<1>5. versions' \in [Ids -> Seq(Hashes)] /\ \A m \in Ids : Len(versions'[m]) <= VERSIONS_KEPT
  BY <1>1, <1>2 DEF Overwritten
<1> QED
  BY <1>2, <1>4, <1>5 DEF SumTypes, Overwritten

(* ... and so does one where nothing was.                                  *)
LEMMA CreateTypes ==
    ASSUME TreeInv, SumTypes, NEW p, NEW x, NEW h \in Hashes,
           NEW used \in Nat, NEW counts \in [Hashes -> Nat],
           Create(p, x, h, used, counts), UNCHANGED <<bytes_max, aged, due>>,
           versions' \in [Ids -> Seq(Hashes)],
           \A m \in Ids : Len(versions'[m]) <= VERSIONS_KEPT
    PROVE  SumTypes'
<1>1. /\ Charge(used, Size[h]) /\ bytes_used' = used + Size[h]
      /\ ref_count' = Adjusted(counts, h, NothingLost)
  BY DEF Create
<1>2. bytes_used' \in Nat
  BY <1>1, SizeAssumption
<1>3. NothingLost \in [Hashes -> Nat]
  BY DEF NothingLost
<1>4. ref_count' \in [Hashes -> Nat]
  BY <1>1, <1>3, AdjustedIs
<1> QED
  BY <1>2, <1>4 DEF SumTypes

(* put_file at a path.                                                     *)
LEMMA TypesPut ==
    ASSUME TreeInv, SumTypes, NEW r \in Requests, Put(r)
    PROVE  SumTypes'
<1> DEFINE p == ops[r].dir
           x == ops[r].as
           h == ops[r].blob
<1>1. /\ h \in Hashes
      /\ \/ Create(p, x, h, bytes_used, ref_count) /\ UNCHANGED versions
         \/ \E n \in Child(p, x, Live) :
               ~IsDirectory(n) /\ Overwrite(n, h, versions, bytes_used, ref_count)
      /\ UNCHANGED <<bytes_max, aged, due>>
  BY DEF Put, TreeInv, Remembered
<1>2. Child(p, x, Live) \subseteq Live
  BY DEF Child
<1>3. /\ versions \in [Ids -> Seq(Hashes)] /\ \A m \in Ids : Len(versions[m]) <= VERSIONS_KEPT
      /\ bytes_used \in Nat /\ ref_count \in [Hashes -> Nat]
  BY DEF SumTypes
<1> HIDE DEF p, x, h
<1>4. CASE Create(p, x, h, bytes_used, ref_count) /\ UNCHANGED versions
  BY <1>1, <1>3, <1>4, CreateTypes
<1>5. CASE \E n \in Child(p, x, Live) :
             ~IsDirectory(n) /\ Overwrite(n, h, versions, bytes_used, ref_count)
  BY <1>1, <1>2, <1>3, <1>5, OverwriteTypes
<1> QED
  BY <1>1, <1>4, <1>5

(* What take leaves of the versions, the bytes and the counts.             *)
LEMMA TakeIs ==
    ASSUME TreeInv, SumTypes, NEW r \in Requests, Revert(r)
    PROVE  LET n == ops[r].node
               h == ops[r].blob
               p == ops[r].dir
               x == ops[r].as
               used == bytes_used - Size[h]
               counts == Adjusted(ref_count, None, [NothingLost EXCEPT ![h] = 1])
           IN  /\ h \in Hashes /\ n \in nodes /\ p \in nodes /\ used \in Nat
               /\ counts \in [Hashes -> Nat]
               /\ UNCHANGED <<bytes_max, aged, due>>
               /\ \E i \in 1 .. Len(versions[n]) :
                     LET held == [versions EXCEPT ![n] = RemoveAt(versions[n], i)]
                     IN  /\ versions[n][i] = h
                         /\ held \in [Ids -> Seq(Hashes)]
                         /\ \A m \in Ids : Len(held[m]) <= VERSIONS_KEPT
                         /\ \/ \E m \in Child(p, x, Live) :
                                  ~IsDirectory(m) /\ Overwrite(m, h, held, used, counts)
                            \/ Create(p, x, h, used, counts) /\ versions' = held
<1> DEFINE n == ops[r].node
           h == ops[r].blob
           p == ops[r].dir
           x == ops[r].as
           used == bytes_used - Size[h]
           counts == Adjusted(ref_count, None, [NothingLost EXCEPT ![h] = 1])
           held(i) == [versions EXCEPT ![n] = RemoveAt(versions[n], i)]
<1>1. /\ ops[r].op = "revert" /\ n \in nodes /\ p \in nodes
      /\ UNCHANGED <<bytes_max, aged, due>>
  BY DEF Revert
<1>2. PICK i \in DOMAIN versions[n] :
         /\ versions[n][i] = h
         /\ Charge(bytes_used, -Size[h])
         /\ \/ \E m \in Child(p, x, Live) :
                  ~IsDirectory(m) /\ Overwrite(m, h, held(i), used, counts)
            \/ Create(p, x, h, used, counts) /\ versions' = held(i)
  BY DEF Revert
<1>3. h \in Hashes /\ n \in Ids
  BY <1>1 DEF TreeInv, Remembered, Columns
<1>4. /\ versions \in [Ids -> Seq(Hashes)] /\ \A m \in Ids : Len(versions[m]) <= VERSIONS_KEPT
      /\ bytes_used \in Nat /\ ref_count \in [Hashes -> Nat] /\ VERSIONS_KEPT \in Nat
  BY LimitsAssumption DEF SumTypes
<1>5. i \in 1 .. Len(versions[n]) /\ Len(versions[n]) \in Nat
  BY <1>2, <1>3, <1>4
<1>6. RemoveAt(versions[n], i) \in Seq(Hashes)
      /\ Len(RemoveAt(versions[n], i)) = Len(versions[n]) - 1
  BY <1>3, <1>4, <1>5, AlongRemove, SizeAssumption
<1>7. held(i) \in [Ids -> Seq(Hashes)] /\ \A m \in Ids : Len(held(i)[m]) <= VERSIONS_KEPT
  <2>1. held(i) \in [Ids -> Seq(Hashes)]
    BY <1>3, <1>4, <1>6
  <2>2. ASSUME NEW m \in Ids PROVE Len(held(i)[m]) <= VERSIONS_KEPT
    <3>1. CASE m = n
      <4>1. held(i)[m] = RemoveAt(versions[n], i) /\ Len(versions[n]) <= VERSIONS_KEPT
        BY <1>3, <1>4, <3>1
      <4> HIDE DEF held
      <4> QED
        BY <1>4, <1>5, <1>6, <4>1
    <3>2. CASE m # n
      <4>1. held(i)[m] = versions[m]
        BY <1>4, <3>2
      <4> HIDE DEF held
      <4> QED
        BY <1>4, <4>1
    <3> QED
      BY <3>1, <3>2
  <2> QED
    BY <2>1, <2>2
<1>8. used \in Nat
  <2> DEFINE d == -Size[h]
  <2>1. d \in Int /\ Charge(bytes_used, d) /\ used = bytes_used + d
    BY <1>2, <1>3, <1>4, SizeAssumption
  <2> HIDE DEF d, used
  <2> QED
    BY <1>4, <2>1, ChargeIs
<1>9. counts \in [Hashes -> Nat]
  <2>1. [NothingLost EXCEPT ![h] = 1] \in [Hashes -> Nat]
    BY DEF NothingLost
  <2> QED
    BY <1>4, <2>1, AdjustedIs
<1> HIDE DEF held, used, counts
<1> QED
  BY <1>1, <1>2, <1>3, <1>5, <1>7, <1>8, <1>9 DEF held, used, counts

(* restore of a version.                                                   *)
LEMMA TypesRevert ==
    ASSUME TreeInv, SumTypes, NEW r \in Requests, Revert(r)
    PROVE  SumTypes'
<1> DEFINE n == ops[r].node
           h == ops[r].blob
           p == ops[r].dir
           x == ops[r].as
           used == bytes_used - Size[h]
           counts == Adjusted(ref_count, None, [NothingLost EXCEPT ![h] = 1])
           held(i) == [versions EXCEPT ![n] = RemoveAt(versions[n], i)]
<1>1. /\ h \in Hashes /\ used \in Nat /\ counts \in [Hashes -> Nat]
      /\ UNCHANGED <<bytes_max, aged, due>>
      /\ \E i \in 1 .. Len(versions[n]) :
            /\ held(i) \in [Ids -> Seq(Hashes)]
            /\ \A m \in Ids : Len(held(i)[m]) <= VERSIONS_KEPT
            /\ \/ \E m \in Child(p, x, Live) :
                     ~IsDirectory(m) /\ Overwrite(m, h, held(i), used, counts)
               \/ Create(p, x, h, used, counts) /\ versions' = held(i)
  BY TakeIs
<1>2. Child(p, x, Live) \subseteq Live
  BY DEF Child
<1> HIDE DEF n, h, p, x, used, counts, held
<1> QED
  BY <1>1, <1>2, CreateTypes, OverwriteTypes

(* What moves bytes into the trash or back.                                *)
LEMMA TypesCharged ==
    ASSUME TreeInv, SumTypes, NEW delta \in Int, Charge(bytes_used, delta),
           bytes_used' = bytes_used + delta,
           UNCHANGED <<versions, ref_count, bytes_max, due>>, aged' \subseteq aged
    PROVE  SumTypes'
<1>1. bytes_used' \in Nat
  BY ChargeIs DEF SumTypes
<1> QED
  BY <1>1 DEF SumTypes

(* What send marks, and the node in the way of a transfer.                 *)
LEMMA MarkedAre ==
    ASSUME TreeInv, SumTypes, NEW S, S \subseteq Live
    PROVE  S \in SUBSET Ids /\ WeightOf(S) \in Nat /\ -WeightOf(S) \in Int
           /\ bytes_used - WeightOf(S) = bytes_used + (-WeightOf(S))
<1>1. S \in SUBSET Ids
  BY DEF Live, TreeInv, Columns
<1>2. WeightOf(S) \in Nat /\ bytes_used \in Nat
  BY <1>1, SumsAre DEF SumTypes
<1> QED
  BY <1>1, <1>2

(* send of a node.                                                         *)
LEMMA TypesSend ==
    ASSUME TreeInv, SumTypes, NEW r \in Requests, Send(r)
    PROVE  SumTypes'
<1> DEFINE S == Subtree(ops[r].node)
<1>1. S \subseteq Live
  BY DEF Subtree
<1>2. /\ Charge(bytes_used, -WeightOf(S)) /\ bytes_used' = bytes_used - WeightOf(S)
      /\ aged' \subseteq aged /\ UNCHANGED <<versions, ref_count, bytes_max, due>>
  BY DEF Send
<1> HIDE DEF S
<1>3. -WeightOf(S) \in Int /\ bytes_used' = bytes_used + (-WeightOf(S))
  BY <1>1, <1>2, MarkedAre
<1> QED
  BY <1>2, <1>3, TypesCharged

(* db::rename, with what it overwrites.                                    *)
LEMMA TypesMove ==
    ASSUME TreeInv, SumTypes, NEW r \in Requests, Move(r)
    PROVE  SumTypes'
<1> DEFINE S == Cleared(ops[r].over)
<1>1. S \subseteq Live
  BY DEF Cleared, Subtree
<1>2. /\ Charge(bytes_used, -WeightOf(S)) /\ bytes_used' = bytes_used - WeightOf(S)
      /\ aged' \subseteq aged /\ UNCHANGED <<versions, ref_count, bytes_max, due>>
  BY DEF Move
<1> HIDE DEF S
<1>3. -WeightOf(S) \in Int /\ bytes_used' = bytes_used + (-WeightOf(S))
  BY <1>1, <1>2, MarkedAre
<1> QED
  BY <1>2, <1>3, TypesCharged

(* copy_tree, with what it overwrites.                                     *)
LEMMA TypesCopy ==
    ASSUME TreeInv, SumTypes, NEW r \in Requests, Copy(r)
    PROVE  SumTypes'
<1> DEFINE n == ops[r].node
           h == ops[r].blob
           gone == Cleared(ops[r].over)
           live == Live \ gone
           below == {m \in live \ {n} : n \in Climb(m, live)}
           charged == (IF h = None THEN 0 ELSE Size[h]) + SizesOf(below)
           used == bytes_used - WeightOf(gone)
           shown(m) == IF m = n THEN h ELSE blob[m]
           copied(g) == {m \in below \cup {n} : shown(m) = g}
<1>1. /\ ops[r].op = "copy"
      /\ Charge(bytes_used, -WeightOf(gone)) /\ Charge(used, charged)
      /\ bytes_used' = used + charged
      /\ ref_count' = [g \in Hashes |-> ref_count[g] + Cardinality(copied(g))]
      /\ aged' \subseteq aged /\ UNCHANGED <<versions, bytes_max, due>>
  BY DEF Copy
<1>2. gone \subseteq Live
  BY DEF Cleared, Subtree
<1>3. n \in Ids /\ h \in Hashes \cup {None}
  BY <1>1 DEF TreeInv, Remembered, Op
<1>4. below \in SUBSET Ids /\ below \cup {n} \in SUBSET Ids
  BY <1>3 DEF Live, TreeInv, Columns
<1>5. \A g \in Hashes : copied(g) \in SUBSET Ids
  BY <1>4
<1> HIDE DEF gone, below, shown, copied
<1>6. used \in Nat
  <2> DEFINE d == -WeightOf(gone)
  <2>1. d \in Int /\ used = bytes_used + d /\ Charge(bytes_used, d)
    BY <1>1, <1>2, MarkedAre
  <2> HIDE DEF d, used
  <2> QED
    BY <2>1, ChargeIs DEF SumTypes
<1> HIDE DEF used
<1>7. charged \in Nat
  <2>1. SizesOf(below) \in Nat
    BY <1>4, SumsAre
  <2> QED
    BY <1>3, <2>1, SizeAssumption
<1> HIDE DEF charged
<1>8. bytes_used' \in Nat
  BY <1>1, <1>6, <1>7
<1>9. ref_count' \in [Hashes -> Nat]
  <2>1. ASSUME NEW g \in Hashes PROVE ref_count[g] + Cardinality(copied(g)) \in Nat
    <3>1. Cardinality(copied(g)) \in Nat
      BY <1>5, IdsAssumption, FS_Subset, FS_CardinalityType
    <3> QED
      BY <3>1 DEF SumTypes
  <2> QED
    BY <1>1, <2>1
<1> QED
  BY <1>1, <1>8, <1>9 DEF SumTypes

(* restore: the bytes that come back are charged for.                      *)
LEMMA TypesRestore ==
    ASSUME TreeInv, SumTypes, NEW id \in Ids, Restore(id)
    PROVE  SumTypes'
<1> DEFINE above == Climb(parent[id], Trashed) \cap Trashed
           batch == {m \in Trashed \ above : trash_root[m] = id}
           charged == SizesOf(above) + WeightOf(batch)
<1>1. /\ Charge(bytes_used, charged) /\ bytes_used' = bytes_used + charged
      /\ aged' \subseteq aged /\ UNCHANGED <<versions, ref_count, bytes_max, due>>
  BY DEF Restore
<1>2. above \in SUBSET Ids /\ batch \in SUBSET Ids
  BY DEF Trashed, TreeInv, Columns
<1> HIDE DEF above, batch
<1>3. charged \in Int
  <2>1. SizesOf(above) \in Nat
    BY <1>2, SumsAre
  <2>2. WeightOf(batch) \in Nat
    BY <1>2, SumsAre
  <2> QED
    BY <2>1, <2>2
<1> HIDE DEF charged
<1> QED
  BY <1>1, <1>3, TypesCharged

(* purge: no count goes below zero, whatever it releases.                  *)
LEMMA TypesPurge ==
    ASSUME TreeInv, SumTypes, NEW id \in Ids, PurgeRoot(id), due' \subseteq due
    PROVE  SumTypes'
<1> DEFINE buried == {m \in nodes : id \in Climb(m, nodes)}
<1>1. /\ ref_count' = Adjusted(ref_count, None, HeldBy(buried))
      /\ versions' = [m \in Ids |-> IF m \in Cascade(id) THEN <<>> ELSE versions[m]]
      /\ aged' \subseteq aged /\ UNCHANGED <<bytes_used, bytes_max>>
  BY DEF PurgeRoot
<1>2. buried \in SUBSET Ids
  BY DEF TreeInv, Columns
<1> HIDE DEF buried
<1>3. HeldBy(buried) \in [Hashes -> Nat]
  <2>1. \A h \in Hashes : HeldBy(buried)[h] \in Nat
    BY <1>2, SumsAre
  <2>2. HeldBy(buried) = [h \in Hashes |-> HeldBy(buried)[h]]
    BY DEF HeldBy
  <2> QED
    BY <2>1, <2>2
<1>4. ref_count' \in [Hashes -> Nat]
  BY <1>1, <1>3, AdjustedIs DEF SumTypes
<1>5. <<>> \in Seq(Hashes) /\ Len(<<>>) = 0 /\ VERSIONS_KEPT \in Nat
  BY LimitsAssumption
<1>6. versions' \in [Ids -> Seq(Hashes)] /\ \A m \in Ids : Len(versions'[m]) <= VERSIONS_KEPT
  BY <1>1, <1>5 DEF SumTypes
<1> QED
  BY <1>1, <1>4, <1>6 DEF SumTypes

(* Every step keeps the columns of the sums what they are.                 *)
LEMMA SumTypesStep == TreeInv /\ SumTypes /\ [Next]_vars => SumTypes'
<1> SUFFICES ASSUME TreeInv, SumTypes, [Next]_vars PROVE SumTypes'
  OBVIOUS
<1>0. ASSUME UNCHANGED <<versions, ref_count, bytes_used>>, bytes_max' \in Quotas,
             aged' \subseteq Ids, due' \subseteq Ids
      PROVE  SumTypes'
  BY <1>0 DEF SumTypes
<1>1. ASSUME NEW r \in Requests, LookStep(r) PROVE SumTypes'
  <2>1. ASSUME NEW op, Look(r, op)
        PROVE  UNCHANGED <<versions, ref_count, bytes_used, bytes_max, aged, due>>
    BY <2>1 DEF Look, rowVars, sumVars
  <2>2. \E op : Look(r, op)
    BY <1>1 DEF LookStep, LookMkdir, LookPut, LookTransfer, LookSend, LookRevert
  <2> QED
    BY <1>0, <2>1, <2>2 DEF SumTypes
<1>2. ASSUME NEW r \in Requests, WriteStep(r) PROVE SumTypes'
  <2>1. CASE Refuse(r)
    BY <1>0, <2>1 DEF Refuse, rowVars, sumVars, SumTypes
  <2>2. CASE Mkdir(r)
    BY <1>0, <2>2 DEF Mkdir, sumVars, SumTypes
  <2> QED
    BY <1>2, <2>1, <2>2, TypesPut, TypesRevert, TypesSend, TypesMove, TypesCopy DEF WriteStep
<1>3. ASSUME TrashStep PROVE SumTypes'
  <2>1. ASSUME NEW id \in Ids, ExpireOne(id) PROVE SumTypes'
    <3>1. CASE id \in nodes /\ trash_root[id] = id
      <4>1. PurgeRoot(id) /\ due' \subseteq due
        BY <2>1, <3>1 DEF ExpireOne
      <4> QED
        BY <4>1, TypesPurge
    <3>2. CASE ~(id \in nodes /\ trash_root[id] = id)
      BY <1>0, <2>1, <3>2 DEF ExpireOne, rowVars, sumVars, SumTypes
    <3> QED
      BY <3>1, <3>2
  <2>2. ASSUME NEW id \in Ids, Purge(id) PROVE SumTypes'
    <3>1. PurgeRoot(id) /\ due' \subseteq due
      BY <2>2 DEF Purge
    <3> QED
      BY <3>1, TypesPurge
  <2>3. ASSUME NEW id \in Ids, Age(id) PROVE SumTypes'
    BY <1>0, <2>3 DEF Age, rowVars, sumVars, SumTypes, TreeInv, Columns
  <2>4. ASSUME ListDue PROVE SumTypes'
    BY <1>0, <2>4 DEF ListDue, rowVars, sumVars, SumTypes
  <2> QED
    BY <1>3, <2>1, <2>2, <2>3, <2>4, TypesRestore DEF TrashStep
<1>4. ASSUME NEW q \in Quotas, SetQuota(q) PROVE SumTypes'
  BY <1>0, <1>4 DEF SetQuota, rowVars, SumTypes
<1>5. ASSUME UNCHANGED vars PROVE SumTypes'
  BY <1>0, <1>5 DEF vars, SumTypes
<1> QED
  BY <1>1, <1>2, <1>3, <1>4, <1>5 DEF Next

(* At first there is nothing to add up.                                    *)
LEMMA SumTypesInit == Init => SumTypes
BY LimitsAssumption DEF Init, SumTypes

(* ... and so they always are.                                             *)
LEMMA SumTypesInvariant == Spec => []SumTypes
BY SumTypesInit, SumTypesStep, TreeInvariant, PTL DEF Spec

(* Whatever overtakes what: no file has more versions than it may, the     *)
(* quota's CHECK never fails on the way, and no reference count goes below *)
(* zero.                                                                   *)
THEOREM TreeTypes == Spec => []TypeOK
<1>1. TreeInv /\ SumTypes => TypeOK
  BY DEF TreeInv, SumTypes, Columns, Remembered, TypeOK
<1> QED
  BY <1>1, TreeInvariant, SumTypesInvariant, PTL

-----------------------------------------------------------------------------
(* The reference counts and the quota balance *)

(* What is worth nothing has no versions; the counts are those of the rows *)
(* N, and the bytes in use those of the live ones.                         *)
Balanced(b, N, L, v, used, counts) ==
    /\ \A n \in Ids : b[n] = None => v[n] = <<>>
    /\ \A h \in Hashes : counts[h] = Total(Value(One(h), b, v), N)
    /\ used = Total(Value(Size, b, v), L)

SumsInv == Balanced(blob, nodes, Live, versions, bytes_used, ref_count)

Worth(c, h) == IF h = None THEN 0 ELSE c[h]

(* What is known of the columns whenever a step is taken.                  *)
LEMMA SumColumns ==
    ASSUME TreeInv, SumTypes
    PROVE  /\ nodes \in SUBSET Ids /\ Live \in SUBSET Ids /\ Live \subseteq nodes
           /\ blob \in [Ids -> Hashes \cup {None}] /\ versions \in [Ids -> Seq(Hashes)]
           /\ ref_count \in [Hashes -> Nat] /\ bytes_used \in Nat /\ bytes_max \in Nat
           /\ \A m \in Ids : Len(versions[m]) <= VERSIONS_KEPT
           /\ \A m \in Ids \ nodes : blob[m] = None
           /\ Size \in [Hashes -> Nat] /\ None \notin Hashes /\ None \notin Ids
  BY LimitsAssumption, SizeAssumption, NamesAssumption
     DEF TreeInv, Columns, Shape, SumTypes, Live

(* A blob counts for itself.                                               *)
LEMMA OneIs ==
    ASSUME NEW g \in Hashes
    PROVE  /\ One(g) \in [Hashes -> Nat]
           /\ \A h \in Hashes : One(g)[h] = IF h = g THEN 1 ELSE 0
  BY DEF One

(* What one row is worth.                                                  *)
LEMMA ValueOf ==
    ASSUME NEW c \in [Hashes -> Nat], NEW b, NEW v, NEW n \in Ids
    PROVE  /\ Value(c, b, v)[n] = Worth(c, b[n]) + Along(c, v[n])
           /\ b[n] \in Hashes \cup {None} => Worth(c, b[n]) \in Nat
           /\ v[n] = <<>> /\ b[n] \in Hashes \cup {None} =>
                 Value(c, b, v)[n] = Worth(c, b[n])
<1>1. Value(c, b, v)[n] = Worth(c, b[n]) + Along(c, v[n])
  BY DEF Value, Worth
<1>2. b[n] \in Hashes \cup {None} => Worth(c, b[n]) \in Nat
  BY DEF Worth
<1>3. Along(c, <<>>) = 0
  <2>1. <<>> \in Seq(Hashes)
    OBVIOUS
  <2> QED
    BY <2>1, AlongConcat
<1> QED
  BY <1>1, <1>2, <1>3

(* put_file over a file: what it was worth, plus the new content, less     *)
(* what was let go of; and so the sums balance as they did before.         *)
LEMMA OverwriteBalances ==
    ASSUME TreeInv, SumTypes, NEW n \in Live, ~IsDirectory(n), NEW h \in Hashes,
           NEW history \in [Ids -> Seq(Hashes)], NEW used \in Nat,
           NEW counts \in [Hashes -> Nat],
           Balanced(blob, nodes, Live, history, used, counts),
           Overwrite(n, h, history, used, counts)
    PROVE  SumsInv'
<1>0. n \in Ids /\ n \in nodes /\ blob[n] \in Hashes
  BY SumColumns DEF IsDirectory
<1>1. PICK kept \in Seq(Hashes), lost \in Seq(Hashes) :
         Overwritten(n, h, history, used, counts, kept, lost)
  BY <1>0, SumColumns, OverwriteIs
<1>2. /\ blob' = [blob EXCEPT ![n] = h] /\ nodes' = nodes /\ Live' = Live
      /\ versions' = [history EXCEPT ![n] = kept]
  BY <1>1 DEF Overwrite, Overwritten, Live
<1>3. ASSUME NEW c \in [Hashes -> Nat], NEW S \in SUBSET Ids, n \in S
      PROVE  Total(Value(c, blob', versions'), S) + Along(c, lost)
                = Total(Value(c, blob, history), S) + c[h]
  <2>1. Along(c, kept) + Along(c, lost) = c[blob[n]] + Along(c, history[n])
    BY <1>1 DEF Overwritten
  <2>2. blob'[n] = h /\ versions'[n] = kept
        /\ \A m \in Ids \ {n} : blob'[m] = blob[m] /\ versions'[m] = history[m]
    BY <1>0, <1>2, SumColumns
  <2>3. blob' \in [Ids -> Hashes \cup {None}] /\ versions' \in [Ids -> Seq(Hashes)]
    BY <1>0, <1>2, SumColumns
  <2>4. Along(c, versions'[n]) + Along(c, lost) = c[blob[n]] + Along(c, history[n])
    BY <2>1, <2>2
  <2> DEFINE f == Value(c, blob, history)
             g == Value(c, blob', versions')
             F == Total(f, S)
             G == Total(g, S)
             k == Along(c, versions'[n])
             l == Along(c, lost)
             a == c[blob[n]] + Along(c, history[n])
             u == c[h]
  <2>5. f \in [Ids -> Nat] /\ g \in [Ids -> Nat]
    BY <2>3, SumColumns, ValueIs
  <2>6. f[n] = a /\ g[n] = u + k
    BY <1>0, <2>2, SumColumns DEF Value
  <2>7. \A m \in S \ {n} : f[m] = g[m]
    BY <2>2 DEF Value
  <2>8. versions'[n] \in Seq(Hashes)
    BY <2>2
  <2>9. k \in Nat /\ l \in Nat /\ u \in Nat /\ k + l = a
    BY <2>4, <2>8, AlongConcat
  <2> HIDE DEF f, g, k, l, a, u
  <2>10. F \in Nat /\ G \in Nat
    BY <2>5, TotalIs
  <2>11. G + f[n] = F + g[n]
    BY <1>3, <2>5, <2>7, TotalChanges
  <2> HIDE DEF F, G
  <2>12. G + l = F + u
    BY <2>6, <2>9, <2>10, <2>11
  <2> QED
    BY <2>12 DEF F, G, l, u, f, g
<1>4. blob' \in [Ids -> Hashes \cup {None}] /\ versions' \in [Ids -> Seq(Hashes)]
  BY <1>0, <1>2, SumColumns
<1>5. ASSUME NEW m \in Ids, blob'[m] = None PROVE versions'[m] = <<>>
  BY <1>0, <1>2, <1>5, SumColumns DEF Balanced
<1>6. ASSUME NEW g \in Hashes PROVE ref_count'[g] = Total(Value(One(g), blob', versions'), nodes)
  <2> DEFINE w == Total(Value(One(g), blob', versions'), nodes)
             l == [f \in Hashes |-> Occurrences(f, lost)]
  <2>1. w \in Nat
    BY <1>4, OneIs, ValueIs, TotalIs, SumColumns
  <2>2. w + Along(One(g), lost) = counts[g] + One(g)[h]
    BY <1>0, <1>3, OneIs, SumColumns DEF Balanced
  <2>3. l[g] = Along(One(g), lost) /\ l \in [Hashes -> Nat]
    <3>1. ASSUME NEW f \in Hashes
          PROVE  Occurrences(f, lost) = Along(One(f), lost) /\ Occurrences(f, lost) \in Nat
      BY AlongIs, AlongConcat
    <3> QED
      BY <3>1
  <2>4. One(g)[h] = IF g = h THEN 1 ELSE 0
    BY OneIs
  <2>5. ref_count' = Adjusted(counts, h, l)
    BY <1>1 DEF Overwritten
  <2> HIDE DEF w, l
  <2>6. w + l[g] = counts[g] + (IF g = h THEN 1 ELSE 0)
    BY <2>2, <2>3, <2>4
  <2>7. Adjusted(counts, h, l)[g] = w
    <3> DEFINE a == counts[g]
               k == IF g = h THEN 1 ELSE 0
               z == l[g]
    <3>1. a \in Nat /\ k \in Nat /\ z \in Nat /\ w + z = a + k
      BY <2>3, <2>6
    <3>2. Adjusted(counts, h, l)[g] = IF a + k - z < 0 THEN 0 ELSE a + k - z
      BY DEF Adjusted
    <3> HIDE DEF a, k, z
    <3> QED
      BY <2>1, <3>1, <3>2
  <2> QED
    BY <2>5, <2>7 DEF w
<1>7. bytes_used' = Total(Value(Size, blob', versions'), Live)
  <2> DEFINE w == Total(Value(Size, blob', versions'), Live)
             l == Along(Size, lost)
  <2>1. w \in Nat /\ l \in Nat
    BY <1>4, ValueIs, TotalIs, AlongConcat, SumColumns
  <2>2. w + l = used + Size[h]
    BY <1>3, SumColumns DEF Balanced
  <2>3. bytes_used' = used + Size[h] - l /\ Size[h] \in Nat
    BY <1>1, SumColumns DEF Overwritten
  <2> HIDE DEF w, l
  <2>4. bytes_used' = w
    BY <2>1, <2>2, <2>3
  <2> QED
    BY <2>4 DEF w
<1> QED
  BY <1>2, <1>5, <1>6, <1>7 DEF SumsInv, Balanced

(* A new row adds what it is worth to every set of rows it is added to.    *)
LEMMA InsertTotals ==
    ASSUME TreeInv, SumTypes, NEW n \in Fresh, NEW p, NEW x,
           NEW h \in Hashes \cup {None}, NEW e, Insert(n, p, x, h, e),
           NEW history \in [Ids -> Seq(Hashes)], history[n] = <<>>,
           NEW c \in [Hashes -> Nat], NEW S \in SUBSET nodes
    PROVE  Total(Value(c, blob', history), S \cup {n})
              = Total(Value(c, blob, history), S) + Worth(c, h)
<1> DEFINE f == Value(c, blob, history)
           g == Value(c, blob', history)
<1>1. n \in Ids /\ n \notin S /\ S \in SUBSET Ids /\ S \cup {n} \in SUBSET Ids
  BY SumColumns DEF Fresh
<1>2. blob' = [blob EXCEPT ![n] = h]
  BY DEF Insert
<1>3. /\ blob' \in [Ids -> Hashes \cup {None}] /\ blob'[n] = h
      /\ \A m \in S : blob'[m] = blob[m]
  BY <1>1, <1>2, SumColumns
<1>4. f \in [Ids -> Nat] /\ g \in [Ids -> Nat]
  BY <1>3, SumColumns, ValueIs
<1>5. g[n] = Worth(c, h)
  BY <1>1, <1>3, ValueOf
<1>6. \A m \in S : f[m] = g[m]
  BY <1>1, <1>3 DEF Value
<1> HIDE DEF f, g
<1> DEFINE T == S \cup {n}
<1>7. Total(f, S) = Total(g, S)
  BY <1>6, TotalSame
<1>8. T \in SUBSET Ids /\ n \in T /\ T \ {n} = S
  BY <1>1
<1> HIDE DEF T
<1>9. Total(g, T) = g[n] + Total(g, S)
  <2>1. Total(g, T) = g[n] + Total(g, T \ {n})
    BY <1>4, <1>8, TotalIs
  <2> QED
    BY <1>8, <2>1
<1>10. Total(g, S) \in Nat /\ g[n] \in Nat
  BY <1>1, <1>4, TotalIs
<1>11. Total(g, T) = Total(f, S) + Worth(c, h)
  BY <1>5, <1>7, <1>9, <1>10
<1> QED
  BY <1>11 DEF f, g, T

(* A new row that is charged for and counted.                              *)
LEMMA InsertBalances ==
    ASSUME TreeInv, SumTypes, NEW n \in Fresh, NEW p, NEW x,
           NEW h \in Hashes \cup {None}, NEW e, Insert(n, p, x, h, e),
           NEW history \in [Ids -> Seq(Hashes)], NEW used, NEW counts,
           Balanced(blob, nodes, Live, history, used, counts), versions' = history,
           bytes_used' = used + Worth(Size, h),
           \A g \in Hashes : ref_count'[g] = counts[g] + Worth(One(g), h)
    PROVE  SumsInv'
<1>1. n \in Ids \ nodes /\ blob[n] = None /\ history[n] = <<>>
  BY SumColumns DEF Fresh, Balanced
<1>2. /\ nodes' = nodes \cup {n} /\ blob' = [blob EXCEPT ![n] = h]
      /\ trash_root' = trash_root
  BY DEF Insert
<1>3. Live' = Live \cup {n}
  BY <1>1, <1>2 DEF Live, TreeInv, Shape
<1>4. ASSUME NEW m \in Ids, blob'[m] = None PROVE versions'[m] = <<>>
  BY <1>1, <1>2, <1>4, SumColumns DEF Balanced
<1>5. ASSUME NEW c \in [Hashes -> Nat], NEW S \in SUBSET nodes
      PROVE  Total(Value(c, blob', versions'), S \cup {n})
                = Total(Value(c, blob, history), S) + Worth(c, h)
  BY <1>1, InsertTotals
<1>6. ASSUME NEW g \in Hashes
      PROVE  ref_count'[g] = Total(Value(One(g), blob', versions'), nodes')
  <2>1. One(g) \in [Hashes -> Nat] /\ nodes \in SUBSET nodes
    BY OneIs
  <2>2. Total(Value(One(g), blob', versions'), nodes \cup {n})
           = Total(Value(One(g), blob, history), nodes) + Worth(One(g), h)
    BY <1>5, <2>1
  <2>3. counts[g] = Total(Value(One(g), blob, history), nodes)
    BY DEF Balanced
  <2> QED
    BY <1>2, <2>2, <2>3
<1>7. bytes_used' = Total(Value(Size, blob', versions'), Live')
  BY <1>3, <1>5, SumColumns DEF Balanced
<1> QED
  BY <1>4, <1>6, <1>7 DEF SumsInv, Balanced

(* put_file where nothing was.                                             *)
LEMMA CreateBalances ==
    ASSUME TreeInv, SumTypes, NEW p, NEW x, NEW h \in Hashes,
           NEW history \in [Ids -> Seq(Hashes)], NEW used \in Nat,
           NEW counts \in [Hashes -> Nat],
           Balanced(blob, nodes, Live, history, used, counts), versions' = history,
           Create(p, x, h, used, counts)
    PROVE  SumsInv'
<1>1. PICK n \in Fresh : Insert(n, p, x, h, h)
  BY DEF Create
<1>2. bytes_used' = used + Worth(Size, h)
  BY SumColumns DEF Create, Worth
<1>3. ASSUME NEW g \in Hashes PROVE ref_count'[g] = counts[g] + Worth(One(g), h)
  <2>1. Worth(One(g), h) = IF g = h THEN 1 ELSE 0
    BY OneIs, SumColumns DEF Worth
  <2>2. ref_count' = Adjusted(counts, h, NothingLost) /\ counts[g] \in Nat
    BY DEF Create
  <2>3. NothingLost \in [Hashes -> Nat] /\ NothingLost[g] = 0
    BY DEF NothingLost
  <2> DEFINE left == counts[g] + (IF g = h THEN 1 ELSE 0)
  <2>4. left \in Nat /\ left + NothingLost[g] = counts[g] + (IF g = h THEN 1 ELSE 0)
    BY <2>2, <2>3
  <2>5. ref_count'[g] = left
    BY <2>2, <2>3, <2>4, AdjustedIs
  <2> QED
    BY <2>1, <2>5
<1>4. h \in Hashes \cup {None}
  OBVIOUS
<1> QED
  BY <1>1, <1>2, <1>3, <1>4, InsertBalances

(* take: the version that is given up leaves the sums.                     *)
LEMMA TakeBalances ==
    ASSUME TreeInv, SumTypes, SumsInv, NEW n \in Live, NEW i \in 1 .. Len(versions[n]),
           NEW h \in Hashes, versions[n][i] = h
    PROVE  Balanced(blob, nodes, Live, [versions EXCEPT ![n] = RemoveAt(versions[n], i)],
                    bytes_used - Size[h],
                    Adjusted(ref_count, None, [NothingLost EXCEPT ![h] = 1]))
<1> DEFINE rest == RemoveAt(versions[n], i)
           held == [versions EXCEPT ![n] = rest]
           lost == [NothingLost EXCEPT ![h] = 1]
<1>0. n \in Ids /\ n \in nodes /\ versions[n] \in Seq(Hashes)
  BY SumColumns
<1>1. /\ rest \in Seq(Hashes) /\ Size \in [Hashes -> Nat]
      /\ \A c \in [Hashes -> Nat] : Along(c, versions[n]) = Along(c, rest) + c[h]
  BY <1>0, AlongRemove, SizeAssumption
<1>2. versions[n] # <<>>
  BY <1>0
<1> HIDE DEF rest
<1>3. /\ held \in [Ids -> Seq(Hashes)] /\ held[n] = rest
      /\ \A m \in Ids \ {n} : held[m] = versions[m]
  BY <1>0, <1>1, SumColumns
<1> HIDE DEF held
<1>4. ASSUME NEW m \in Ids, blob[m] = None PROVE held[m] = <<>>
  BY <1>2, <1>3, <1>4 DEF SumsInv, Balanced
<1>5. ASSUME NEW c \in [Hashes -> Nat], NEW S \in SUBSET Ids, n \in S
      PROVE  /\ Total(Value(c, blob, held), S) + c[h] = Total(Value(c, blob, versions), S)
             /\ Total(Value(c, blob, held), S) \in Nat
  <2> DEFINE f == Value(c, blob, versions)
             g == Value(c, blob, held)
             F == Total(f, S)
             G == Total(g, S)
             k == Along(c, rest)
             b == Worth(c, blob[n])
             u == c[h]
  <2>1. f \in [Ids -> Nat] /\ g \in [Ids -> Nat]
    BY <1>3, SumColumns, ValueIs
  <2>2. f[n] = b + (k + u) /\ g[n] = b + k
    <3>1. Along(c, versions[n]) = k + u
      BY <1>1, <1>5
    <3>2. f[n] = b + Along(c, versions[n])
      BY <1>0 DEF Value, Worth
    <3>3. g[n] = b + Along(c, held[n])
      BY <1>0 DEF Value, Worth
    <3> QED
      BY <1>3, <3>1, <3>2, <3>3
  <2>3. \A m \in S \ {n} : f[m] = g[m]
    BY <1>3 DEF Value
  <2>4. k \in Nat /\ u \in Nat /\ b \in Nat
    BY <1>0, <1>1, AlongConcat, SumColumns DEF Worth
  <2> HIDE DEF f, g, k, b, u
  <2>5. F \in Nat /\ G \in Nat
    BY <2>1, TotalIs
  <2>6. G + f[n] = F + g[n]
    BY <1>5, <2>1, <2>3, TotalChanges
  <2> HIDE DEF F, G
  <2>7. G + u = F
    BY <2>2, <2>4, <2>5, <2>6
  <2> QED
    BY <2>5, <2>7 DEF F, G, u, f, g
<1>6. ASSUME NEW g \in Hashes
      PROVE  Adjusted(ref_count, None, lost)[g] = Total(Value(One(g), blob, held), nodes)
  <2> DEFINE w == Total(Value(One(g), blob, held), nodes)
             z == IF h = g THEN 1 ELSE 0
             a == ref_count[g]
  <2>1. One(g) \in [Hashes -> Nat] /\ One(g)[h] = z
    BY OneIs
  <2>2. w + One(g)[h] = a /\ w \in Nat
    BY <1>0, <1>5, <2>1, SumColumns DEF SumsInv, Balanced
  <2>3. g # None /\ lost[g] = z
    BY SumColumns DEF NothingLost
  <2>4. Adjusted(ref_count, None, lost)[g] = IF a + 0 - lost[g] < 0 THEN 0 ELSE a + 0 - lost[g]
    BY <2>3 DEF Adjusted
  <2>5. z \in Nat /\ w + z = a
    BY <2>1, <2>2
  <2> HIDE DEF w, z, a, lost
  <2>6. Adjusted(ref_count, None, lost)[g] = w
    BY <2>2, <2>3, <2>4, <2>5
  <2> QED
    BY <2>6 DEF w
<1>7. bytes_used - Size[h] = Total(Value(Size, blob, held), Live)
  <2> DEFINE w == Total(Value(Size, blob, held), Live)
             z == Size[h]
  <2>1. w + z = bytes_used /\ w \in Nat /\ z \in Nat
    BY <1>0, <1>5, SumColumns DEF SumsInv, Balanced
  <2> HIDE DEF w, z
  <2>2. bytes_used - z = w
    BY <2>1
  <2> QED
    BY <2>2 DEF w, z
<1> QED
  BY <1>4, <1>6, <1>7 DEF Balanced, held, rest

(* put_file at a path, for an upload.                                      *)
LEMMA BalancePut ==
    ASSUME TreeInv, SumTypes, SumsInv, NEW r \in Requests, Put(r)
    PROVE  SumsInv'
<1> DEFINE p == ops[r].dir
           x == ops[r].as
           h == ops[r].blob
<1>1. /\ h \in Hashes
      /\ \/ Create(p, x, h, bytes_used, ref_count) /\ UNCHANGED versions
         \/ \E n \in Child(p, x, Live) :
               ~IsDirectory(n) /\ Overwrite(n, h, versions, bytes_used, ref_count)
  BY DEF Put, TreeInv, Remembered
<1>2. Child(p, x, Live) \subseteq Live
  BY DEF Child
<1>3. /\ versions \in [Ids -> Seq(Hashes)] /\ bytes_used \in Nat
      /\ ref_count \in [Hashes -> Nat]
      /\ Balanced(blob, nodes, Live, versions, bytes_used, ref_count)
  BY SumColumns DEF SumsInv
<1> HIDE DEF p, x, h
<1>4. CASE Create(p, x, h, bytes_used, ref_count) /\ UNCHANGED versions
  BY <1>1, <1>3, <1>4, CreateBalances
<1>5. CASE \E n \in Child(p, x, Live) :
             ~IsDirectory(n) /\ Overwrite(n, h, versions, bytes_used, ref_count)
  BY <1>1, <1>2, <1>3, <1>5, OverwriteBalances
<1> QED
  BY <1>1, <1>4, <1>5

(* restore of a version: take, then put_file, of the same file or not.     *)
LEMMA BalanceRevert ==
    ASSUME TreeInv, TrashInv, SumTypes, SumsInv, NEW r \in Requests, Revert(r)
    PROVE  SumsInv'
<1> DEFINE n == ops[r].node
           h == ops[r].blob
           p == ops[r].dir
           x == ops[r].as
           used == bytes_used - Size[h]
           counts == Adjusted(ref_count, None, [NothingLost EXCEPT ![h] = 1])
           held(i) == [versions EXCEPT ![n] = RemoveAt(versions[n], i)]
<1>1. /\ h \in Hashes /\ n \in nodes /\ used \in Nat /\ counts \in [Hashes -> Nat]
      /\ \E i \in 1 .. Len(versions[n]) :
            /\ versions[n][i] = h
            /\ held(i) \in [Ids -> Seq(Hashes)]
            /\ \/ \E m \in Child(p, x, Live) :
                     ~IsDirectory(m) /\ Overwrite(m, h, held(i), used, counts)
               \/ Create(p, x, h, used, counts) /\ versions' = held(i)
  BY TakeIs
<1>2. n \in Live
  BY <1>1, SumColumns DEF TrashInv, StillThere
<1>3. Child(p, x, Live) \subseteq Live
  BY DEF Child
<1>4. ASSUME NEW i \in 1 .. Len(versions[n]), versions[n][i] = h
      PROVE  Balanced(blob, nodes, Live, held(i), used, counts)
  BY <1>1, <1>2, <1>4, TakeBalances
<1> HIDE DEF n, h, p, x, used, counts, held
<1>5. PICK i \in 1 .. Len(versions[n]) :
            /\ versions[n][i] = h
            /\ held(i) \in [Ids -> Seq(Hashes)]
            /\ \/ \E m \in Child(p, x, Live) :
                     ~IsDirectory(m) /\ Overwrite(m, h, held(i), used, counts)
               \/ Create(p, x, h, used, counts) /\ versions' = held(i)
  BY <1>1
<1>6. Balanced(blob, nodes, Live, held(i), used, counts)
  BY <1>4, <1>5
<1>7. CASE Create(p, x, h, used, counts) /\ versions' = held(i)
  BY <1>1, <1>5, <1>6, <1>7, CreateBalances
<1>8. CASE \E m \in Child(p, x, Live) :
             ~IsDirectory(m) /\ Overwrite(m, h, held(i), used, counts)
  BY <1>1, <1>3, <1>5, <1>6, <1>8, OverwriteBalances
<1> QED
  BY <1>5, <1>7, <1>8

(* insert_directory: nothing to charge for.                                *)
LEMMA BalanceMkdir ==
    ASSUME TreeInv, SumTypes, SumsInv, NEW r \in Requests, Mkdir(r)
    PROVE  SumsInv'
<1> DEFINE p == ops[r].dir
           x == ops[r].as
<1>1. UNCHANGED <<versions, ref_count, bytes_used>>
  BY DEF Mkdir, sumVars
<1>2. CASE \E n \in Fresh : Insert(n, p, x, None, None)
  <2>1. PICK n \in Fresh : Insert(n, p, x, None, None)
    BY <1>2
  <2>2. /\ \A g \in Hashes : ref_count'[g] = ref_count[g] + Worth(One(g), None)
        /\ bytes_used' = bytes_used + Worth(Size, None)
    BY <1>1, SumColumns DEF Worth
  <2>3. Balanced(blob, nodes, Live, versions, bytes_used, ref_count)
        /\ None \in Hashes \cup {None} /\ versions \in [Ids -> Seq(Hashes)]
    BY SumColumns DEF SumsInv
  <2> HIDE DEF p, x
  <2> QED
    BY <1>1, <2>1, <2>2, <2>3, InsertBalances
<1>3. CASE UNCHANGED <<nodes, parent, name, blob, etag, trash_root>>
  BY <1>1, <1>3 DEF SumsInv, Live
<1> QED
  BY <1>2, <1>3 DEF Mkdir

(* What goes to the trash leaves the quota with all it is worth, and the   *)
(* counts as they are.                                                     *)
LEMMA GoneBalances ==
    ASSUME TreeInv, SumTypes, SumsInv, NEW gone \in SUBSET Live,
           UNCHANGED <<nodes, blob, versions, ref_count>>, Live' = Live \ gone,
           bytes_used' = bytes_used - WeightOf(gone)
    PROVE  SumsInv'
<1> DEFINE V == Value(Size, blob, versions)
<1>1. V \in [Ids -> Nat] /\ Live \in SUBSET Ids /\ gone \in SUBSET Ids /\ Live \ gone \in SUBSET Ids
  BY SumColumns, ValueIs
<1>2. WeightOf(gone) = Total(V, gone)
  BY <1>1, SumsAre
<1>3. bytes_used = Total(V, Live)
  BY DEF SumsInv, Balanced
<1> HIDE DEF V
<1>4. Total(V, Live) = Total(V, gone) + Total(V, Live \ gone)
  BY <1>1, TotalIs
<1>5. Total(V, gone) \in Nat /\ Total(V, Live \ gone) \in Nat
  BY <1>1, TotalIs
<1>6. bytes_used' = Total(V, Live \ gone)
  BY <1>2, <1>3, <1>4, <1>5
<1> QED
  BY <1>6 DEF SumsInv, Balanced, V

(* What is marked is what was live and is not any more.                    *)
LEMMA MarkedLeaves ==
    ASSUME TreeInv, NEW over \in Ids \cup {None}, NEW gone,
           gone = Cleared(over) \/ (over # None /\ gone = Subtree(over)),
           trash_root' = TrashedWith(gone, over), nodes' = nodes
    PROVE  gone \in SUBSET Live /\ Live' = Live \ gone
<1>1. gone \in SUBSET Live /\ (over = None => gone = {})
  BY DEF Cleared, Subtree
<1>2. Live \subseteq Ids
  BY DEF Live, TreeInv, Columns
<1> QED
  BY <1>1, <1>2 DEF TrashedWith, Live, TreeInv, Columns

(* send.                                                                   *)
LEMMA BalanceSend ==
    ASSUME TreeInv, SumTypes, SumsInv, NEW r \in Requests, Send(r)
    PROVE  SumsInv'
<1> DEFINE n == ops[r].node
           gone == Subtree(n)
<1>1. /\ UNCHANGED <<nodes, blob, versions, ref_count>> /\ trash_root' = TrashedWith(gone, n)
      /\ bytes_used' = bytes_used - WeightOf(gone) /\ n \in Ids /\ n # None
  BY NamesAssumption DEF Send, TreeInv, Remembered
<1> HIDE DEF n
<1>2. gone \in SUBSET Live /\ Live' = Live \ gone
  BY <1>1, MarkedLeaves
<1> HIDE DEF gone
<1> QED
  BY <1>1, <1>2, GoneBalances

(* db::rename: where a row is does not matter to the sums.                 *)
LEMMA BalanceMove ==
    ASSUME TreeInv, SumTypes, SumsInv, NEW r \in Requests, Move(r)
    PROVE  SumsInv'
<1> DEFINE over == ops[r].over
           gone == Cleared(over)
<1>1. /\ UNCHANGED <<nodes, blob, versions, ref_count>> /\ trash_root' = TrashedWith(gone, over)
      /\ bytes_used' = bytes_used - WeightOf(gone) /\ over \in Ids \cup {None}
  BY DEF Move, TreeInv, Remembered, Op
<1> HIDE DEF over
<1>2. gone \in SUBSET Live /\ Live' = Live \ gone
  BY <1>1, MarkedLeaves
<1> HIDE DEF gone
<1> QED
  BY <1>1, <1>2, GoneBalances

(* restore: the directories on the way up have no bytes to charge for, the *)
(* batch comes back with what it took.                                     *)
LEMMA BalanceRestore ==
    ASSUME TreeInv, SumTypes, SumsInv, NEW id \in Ids, Restore(id)
    PROVE  SumsInv'
<1> DEFINE above == Climb(parent[id], Trashed) \cap Trashed
           batch == {m \in Trashed \ above : trash_root[m] = id}
           back == above \cup batch
           opened == {trash_root[m] : m \in above}
           left == Trashed \ back
           V == Value(Size, blob, versions)
<1>0. /\ UNCHANGED <<nodes, blob, versions, ref_count>>
      /\ id \in nodes /\ trash_root[id] = id
      /\ bytes_used' = bytes_used + (SizesOf(above) + WeightOf(batch))
      /\ trash_root' =
            [m \in Ids |->
                IF m \in back THEN None
                ELSE IF m \in left /\ trash_root[m] \in opened
                     THEN Rerooted(m, left, Live \cup back) ELSE trash_root[m]]
  BY DEF Restore
<1>1. \A m \in above : blob[m] = None
  <2> DEFINE C == {m \in Ids : blob[m] = None}
             W == Walk(parent, parent[id], Trashed)
  <2>1. parent[id] \in nodes /\ blob[parent[id]] = None /\ parent[id] \in Ids
    BY <1>0, TreeColumns DEF TreeInv, Shape
  <2>2. parent[id] \in C /\ \A m \in C \cap Trashed : parent[m] \in C \cup {None}
    BY <2>1, TreeColumns DEF TreeInv, Shape
  <2> HIDE DEF C
  <2>3. W \subseteq C
    BY <2>1, <2>2, TreeColumns, WalkIs
  <2>4. above \subseteq W
    BY ClimbIsWalk
  <2> HIDE DEF W, above
  <2> QED
    BY <2>3, <2>4 DEF C
<1>2. /\ above \in SUBSET Ids /\ batch \in SUBSET Ids /\ back \in SUBSET Trashed
      /\ above \cap batch = {} /\ Live \cap back = {} /\ back \in SUBSET Ids
  BY TreeColumns
<1> HIDE DEF above
<1>3. \A m \in above : versions[m] = <<>>
  BY <1>1, <1>2 DEF SumsInv, Balanced
<1>4. ASSUME NEW m \in left PROVE Rerooted(m, left, Live \cup back) # None
  <2>1. trash_root[m] # None /\ left \subseteq Ids /\ None \notin Ids
    BY TreeColumns
  <2> QED
    BY <2>1 DEF Rerooted
<1>5. Live' = Live \cup back
  BY <1>0, <1>2, <1>4, TreeColumns DEF Live
<1>6. SizesOf(above) = WeightOf(above)
  BY <1>2, <1>3, SumsAre
<1>7. WeightOf(above) = Total(V, above) /\ WeightOf(batch) = Total(V, batch)
  <2> HIDE DEF batch
  <2>1. WeightOf(above) = Total(V, above)
    BY <1>2, SumsAre
  <2>2. WeightOf(batch) = Total(V, batch)
    BY <1>2, SumsAre
  <2> QED
    BY <2>1, <2>2
<1>8. V \in [Ids -> Nat] /\ Live \in SUBSET Ids
  BY SumColumns, ValueIs
<1> HIDE DEF V
<1>9. Total(V, back) = Total(V, above) + Total(V, batch)
  <2>1. back \ above = batch /\ above \in SUBSET back
    BY <1>2
  <2>2. Total(V, back) = Total(V, above) + Total(V, back \ above)
    BY <1>2, <1>8, <2>1, TotalIs
  <2> QED
    BY <2>1, <2>2
<1> DEFINE all == Live \cup back
<1>10. Total(V, all) = Total(V, Live) + Total(V, back)
  <2>1. all \ Live = back /\ Live \in SUBSET all /\ all \in SUBSET Ids
    BY <1>2, <1>8
  <2>2. Total(V, all) = Total(V, Live) + Total(V, all \ Live)
    BY <1>8, <2>1, TotalIs
  <2> QED
    BY <2>1, <2>2
<1>11. bytes_used = Total(V, Live)
  BY DEF SumsInv, Balanced, V
<1>12. bytes_used' = Total(V, Live')
  BY <1>0, <1>5, <1>6, <1>7, <1>9, <1>10, <1>11
<1> QED
  BY <1>0, <1>12 DEF SumsInv, Balanced, V

(* What ON DELETE CASCADE takes is what is below the root of the batch.    *)
LEMMA CascadeIsBuried ==
    ASSUME TreeInv, TrashShape(parent, nodes, trash_root), NEW id \in nodes, trash_root[id] = id
    PROVE  Cascade(id) = {m \in nodes : id \in Climb(m, nodes)}
<1> USE TreeColumns
<1> DEFINE B == {m \in nodes : id \in Walk(parent, m, nodes)}
           gone == Cascade(id)
<1>1. id \in Ids /\ id # Root
  OBVIOUS
<1>2. gone \subseteq B
  <2>1. id \in B
    BY <1>1, WalkIs
  <2>2. ASSUME NEW m \in nodes, parent[m] \in B PROVE m \in B
    <3>1. m \in Ids /\ parent[m] # None
      BY <2>2
    <3>2. Walk(parent, m, nodes) = {m} \cup Walk(parent, parent[m], nodes)
      BY <3>1, WalkSteps
    <3> QED
      BY <2>2, <3>2
  <2>3. ASSUME NEW m \in nodes, trash_root[m] \in B PROVE m \in B
    <3> DEFINE t == trash_root[m]
    <3>1. m \in Trashed /\ m \in Ids /\ t \in Ids
      BY <2>3
    <3>2. t \in Walk(parent, m, Trashed)
      BY <3>1, BatchReaches
    <3>3. t \in Walk(parent, m, nodes)
      <4>1. Trashed \in SUBSET nodes
        BY DEF Trashed
      <4> QED
        BY <3>1, <3>2, <4>1, WalkThroughFewer
    <3>4. Walk(parent, t, nodes) \subseteq Walk(parent, m, nodes)
      BY <3>1, <3>3, WalkOn
    <3> QED
      BY <2>3, <3>4
  <2> HIDE DEF B
  <2> QED
    BY <1>1, <2>1, <2>2, <2>3, CascadeIs
<1>3. B \subseteq gone
  <2> SUFFICES ASSUME NEW m \in nodes, m \notin gone PROVE id \notin Walk(parent, m, nodes)
    OBVIOUS
  <2> DEFINE C == nodes \ gone
  <2>1. m \in C /\ m \in Ids
    OBVIOUS
  <2>2. \A x \in C \cap nodes : parent[x] \in C \cup {None}
    BY <1>1, CascadeIs
  <2>3. id \notin C
    BY <1>1, CascadeIs
  <2> HIDE DEF C, gone
  <2>4. Walk(parent, m, nodes) \subseteq C
    <3>1. parent \in [Ids -> Ids \cup {None}] /\ nodes \in SUBSET Ids
      OBVIOUS
    <3> QED
      BY <2>1, <2>2, <3>1, WalkIs
  <2> QED
    BY <2>3, <2>4
<1>4. B = {m \in nodes : id \in Climb(m, nodes)}
  BY ClimbIsWalk
<1> HIDE DEF B, gone
<1>5. gone = {m \in nodes : id \in Climb(m, nodes)}
  BY <1>2, <1>3, <1>4
<1> QED
  BY <1>5 DEF gone

(* purge: the counts lose what the rows that go were worth; live rows keep *)
(* what they are.                                                          *)
LEMMA BalancePurge ==
    ASSUME TreeInv, TrashInv, SumTypes, SumsInv, NEW id \in nodes, trash_root[id] = id,
           PurgeRoot(id)
    PROVE  SumsInv'
<1> DEFINE gone == Cascade(id)
           B == {m \in nodes : id \in Climb(m, nodes)}
<1>1. /\ ref_count' = Adjusted(ref_count, None, HeldBy(B))
      /\ nodes' = nodes \ gone
      /\ blob' = [m \in Ids |-> IF m \in gone THEN None ELSE blob[m]]
      /\ versions' = [m \in Ids |-> IF m \in gone THEN <<>> ELSE versions[m]]
      /\ UNCHANGED bytes_used
  BY DEF PurgeRoot
<1>2. gone = B
  BY CascadeIsBuried DEF TrashInv
<1>3. B \in SUBSET nodes
  OBVIOUS
<1>4. Live' = Live
  BY PurgeKeepsShape DEF TrashInv
<1>5. Live \subseteq nodes'
  BY <1>4 DEF Live
<1> HIDE DEF gone, B
<1> DEFINE rest == nodes \ B
<1>6. /\ rest \in SUBSET Ids /\ Live \subseteq rest /\ nodes' = rest
      /\ \A m \in rest : blob'[m] = blob[m] /\ versions'[m] = versions[m]
  BY <1>1, <1>2, <1>5, SumColumns
<1>7. ASSUME NEW m \in Ids, blob'[m] = None PROVE versions'[m] = <<>>
  BY <1>1, <1>7 DEF SumsInv, Balanced
<1>8. ASSUME NEW c, NEW S \in SUBSET rest
      PROVE  Total(Value(c, blob', versions'), S) = Total(Value(c, blob, versions), S)
  <2> DEFINE f == Value(c, blob', versions')
             g == Value(c, blob, versions)
  <2>1. \A m \in S : f[m] = g[m]
    BY <1>6 DEF Value
  <2> HIDE DEF f, g
  <2>2. Total(f, S) = Total(g, S)
    BY <2>1, TotalSame
  <2> QED
    BY <2>2 DEF f, g
<1>9. bytes_used' = Total(Value(Size, blob', versions'), Live')
  BY <1>1, <1>4, <1>6, <1>8 DEF SumsInv, Balanced
<1>10. ASSUME NEW h \in Hashes PROVE ref_count'[h] = Total(Value(One(h), blob', versions'), nodes')
  <2> DEFINE V == Value(One(h), blob, versions)
             lost == HeldBy(B)
             a == ref_count[h]
             w == Total(V, rest)
             z == lost[h]
  <2>1. V \in [Ids -> Nat]
    BY OneIs, SumColumns, ValueIs
  <2>2. a = Total(V, nodes)
    BY DEF SumsInv, Balanced
  <2>3. z = Total(V, B)
    BY <1>3, SumColumns, SumsAre
  <2> HIDE DEF V
  <2>4. Total(V, nodes) = Total(V, B) + Total(V, rest)
    <3>1. nodes \in SUBSET Ids
      BY SumColumns
    <3>2. \A A \in SUBSET nodes : Total(V, nodes) = Total(V, A) + Total(V, nodes \ A)
      BY <2>1, <3>1, TotalIs
    <3> QED
      BY <1>3, <3>2
  <2>5. w \in Nat /\ Total(V, B) \in Nat
    BY <1>3, <1>6, <2>1, SumColumns, TotalIs
  <2>6. h # None
    BY SumColumns
  <2>7. Adjusted(ref_count, None, lost)[h] = IF a + 0 - z < 0 THEN 0 ELSE a + 0 - z
    BY <2>6 DEF Adjusted
  <2>8. a = z + w /\ z \in Nat
    BY <2>2, <2>3, <2>4, <2>5
  <2> HIDE DEF a, z, w
  <2>9. ref_count'[h] = w
    BY <1>1, <2>5, <2>7, <2>8
  <2>10. Total(Value(One(h), blob', versions'), rest) = w
    BY <1>8 DEF w, V
  <2> QED
    BY <1>6, <2>9, <2>10
<1> QED
  BY <1>7, <1>9, <1>10 DEF SumsInv, Balanced

(* The rows copy_tree adds are worth what it read, and have no versions.   *)
LEMMA CopiedRows ==
    ASSUME TreeInv, SumTypes, SumsInv, NEW r \in Requests, Copy(r)
    PROVE  LET n == ops[r].node
               h == ops[r].blob
               live == Live \ Cleared(ops[r].over)
               below == {m \in live \ {n} : n \in Climb(m, live)}
               shown == [m \in Ids |-> IF m = n THEN h ELSE blob[m]]
           IN  \E ids \in SUBSET (Ids \ nodes) :
                 /\ nodes' = nodes \cup ids
                 /\ blob' \in [Ids -> Hashes \cup {None}]
                 /\ \A m \in Ids \ ids : blob'[m] = blob[m]
                 /\ \A c \in [Hashes -> Nat] :
                       Total(Value(c, blob', versions), ids)
                          = Total([m \in Ids |-> Worth(c, shown[m])], below \cup {n})
<1> DEFINE n == ops[r].node
           h == ops[r].blob
           live == Live \ Cleared(ops[r].over)
           below == {m \in live \ {n} : n \in Climb(m, live)}
           shown == [m \in Ids |-> IF m = n THEN h ELSE blob[m]]
           all == below \cup {n}
           seen(m) == IF m = n THEN h ELSE blob[m]
<1>1. PICK new \in [all -> Fresh] :
        /\ \A a, b \in all : new[a] = new[b] => a = b
        /\ LET old == [c \in {new[m] : m \in all} |-> CHOOSE m \in all : new[m] = c]
               ids == DOMAIN old
           IN  /\ nodes' = nodes \cup ids
               /\ blob' = [c \in Ids |-> IF c \in ids THEN seen(old[c]) ELSE blob[c]]
  BY DEF Copy
<1>2. n \in Ids /\ h \in Hashes \cup {None} /\ live \in SUBSET Ids
  BY TreeColumns DEF Copy, TreeInv, Remembered, Op
<1>3. all \in SUBSET Ids
  BY <1>2
<1> HIDE DEF n, h, below, all
<1> DEFINE ids == {new[m] : m \in all}
           old == [c \in ids |-> CHOOSE m \in all : new[m] = c]
<1>4. ids \in SUBSET (Ids \ nodes) /\ \A m \in all : new[m] \in ids
  BY <1>1 DEF Fresh
<1>5. \A c \in ids : old[c] \in all /\ new[old[c]] = c
  BY <1>1
<1>6. \A m \in all : old[new[m]] = m
  BY <1>1, <1>4, <1>5
<1>7. /\ nodes' = nodes \cup ids
      /\ blob' = [c \in Ids |-> IF c \in ids THEN seen(old[c]) ELSE blob[c]]
  BY <1>1
<1> HIDE DEF old
<1>8. \A m \in Ids : shown[m] = seen(m) /\ seen(m) \in Hashes \cup {None}
  BY <1>2, SumColumns
<1>9. \A m \in all : blob'[new[m]] = shown[m] /\ shown[m] \in Hashes \cup {None}
  BY <1>3, <1>4, <1>6, <1>7, <1>8
<1>10. blob' \in [Ids -> Hashes \cup {None}] /\ \A m \in Ids \ ids : blob'[m] = blob[m]
  <2>1. ASSUME NEW c \in Ids PROVE blob'[c] \in Hashes \cup {None}
    <3>1. CASE c \in ids
      BY <1>3, <1>5, <1>7, <1>8, <3>1
    <3>2. CASE c \notin ids
      BY <1>7, <3>2, SumColumns
    <3> QED
      BY <3>1, <3>2
  <2>2. DOMAIN blob' = Ids /\ blob' = [c \in Ids |-> blob'[c]]
    BY <1>7
  <2> QED
    BY <1>7, <2>1, <2>2
<1>11. \A m \in ids : versions[m] = <<>>
  BY <1>4, SumColumns DEF SumsInv, Balanced
<1> HIDE DEF shown
<1>12. ASSUME NEW c \in [Hashes -> Nat]
       PROVE  Total(Value(c, blob', versions), ids) = Total([m \in Ids |-> Worth(c, shown[m])], all)
  <2> DEFINE f == Value(c, blob', versions)
             g == [m \in Ids |-> Worth(c, shown[m])]
  <2>1. ASSUME NEW m \in all PROVE g[m] \in Int /\ f[new[m]] = g[m]
    <3> DEFINE k == new[m]
    <3>1. k \in ids /\ k \in Ids /\ versions[k] = <<>> /\ m \in Ids
      BY <1>3, <1>4, <1>11
    <3>2. blob'[k] = shown[m] /\ shown[m] \in Hashes \cup {None}
      BY <1>9
    <3> HIDE DEF k
    <3>3. f[k] = Worth(c, shown[m])
      BY <3>1, <3>2, ValueOf
    <3>4. Worth(c, shown[m]) \in Nat
      BY <3>2 DEF Worth
    <3>5. g[m] = Worth(c, shown[m])
      BY <3>1
    <3> QED
      BY <3>3, <3>4, <3>5 DEF k
  <2>2. IsFiniteSet(all)
    BY <1>3, IdsAssumption, FS_Subset
  <2>3. \A a, b \in all : new[a] = new[b] => a = b
    BY <1>1
  <2> HIDE DEF f, g
  <2>4. Total(f, ids) = Total(g, all)
    BY <2>1, <2>2, <2>3, SumOfCopies DEF Total
  <2> QED
    BY <2>4 DEF f, g
<1> HIDE DEF ids
<1> QED
  BY <1>4, <1>7, <1>10, <1>12 DEF n, h, below, all, shown

(* copy_tree: what is copied is charged for and counted, once per row.     *)
LEMMA BalanceCopy ==
    ASSUME TreeInv, SumTypes, SumsInv, NEW r \in Requests, Copy(r)
    PROVE  SumsInv'
<1> DEFINE n == ops[r].node
           h == ops[r].blob
           over == ops[r].over
           gone == Cleared(over)
           live == Live \ gone
           below == {m \in live \ {n} : n \in Climb(m, live)}
           shown == [m \in Ids |-> IF m = n THEN h ELSE blob[m]]
           all == below \cup {n}
           read(c) == [m \in Ids |-> Worth(c, shown[m])]
<1>1. PICK ids \in SUBSET (Ids \ nodes) :
         /\ nodes' = nodes \cup ids
         /\ blob' \in [Ids -> Hashes \cup {None}]
         /\ \A m \in Ids \ ids : blob'[m] = blob[m]
         /\ \A c \in [Hashes -> Nat] :
               Total(Value(c, blob', versions), ids) = Total(read(c), all)
  BY CopiedRows
<1>2. /\ n \in Ids /\ h \in Hashes \cup {None} /\ over \in Ids \cup {None}
      /\ versions' = versions /\ trash_root' = TrashedWith(gone, over)
      /\ bytes_used' = (bytes_used - WeightOf(gone)) + (Worth(Size, h) + SizesOf(below))
      /\ ref_count' = [g \in Hashes |-> ref_count[g] + Cardinality({m \in all :
                          (IF m = n THEN h ELSE blob[m]) = g})]
  BY DEF Copy, Worth, TreeInv, Remembered, Op
<1>3. gone \in SUBSET Live /\ (over = None => gone = {})
  BY DEF Cleared, Subtree
<1>4. all \in SUBSET Ids /\ below \in SUBSET Ids /\ n \notin below /\ live \in SUBSET nodes
  BY <1>2, SumColumns
<1>5. Live' = live \cup ids
  BY <1>1, <1>2, <1>3, TreeColumns DEF TrashedWith, Live
<1>6. \A m \in Ids : /\ shown[m] = (IF m = n THEN h ELSE blob[m])
                     /\ shown[m] \in Hashes \cup {None}
  BY <1>2, SumColumns
<1> HIDE DEF shown, live, below
<1>7. ASSUME NEW c \in [Hashes -> Nat]
      PROVE  read(c) \in [Ids -> Nat]
  BY <1>6 DEF Worth
<1>8. ASSUME NEW c \in [Hashes -> Nat], NEW S \in SUBSET nodes
      PROVE  /\ Total(Value(c, blob', versions'), S \cup ids)
                   = Total(Value(c, blob, versions), S) + Total(read(c), all)
             /\ Total(Value(c, blob, versions), S) \in Nat /\ Total(read(c), all) \in Nat
  <2> DEFINE f == Value(c, blob, versions)
             g == Value(c, blob', versions)
             T == S \cup ids
  <2>1. f \in [Ids -> Nat] /\ g \in [Ids -> Nat]
    BY <1>1, SumColumns, ValueIs
  <2>2. T \in SUBSET Ids /\ ids \in SUBSET T /\ T \ ids = S /\ S \in SUBSET Ids
    BY <1>1, SumColumns
  <2>3. \A m \in S : f[m] = g[m]
    BY <1>1, <2>2 DEF Value
  <2>4. Total(g, ids) = Total(read(c), all)
    BY <1>1
  <2> HIDE DEF f, g, T
  <2>5. Total(g, T) = Total(g, ids) + Total(g, T \ ids)
    BY <2>1, <2>2, TotalIs
  <2>6. Total(f, S) = Total(g, S)
    BY <2>3, TotalSame
  <2>7. Total(f, S) \in Nat
    BY <2>1, <2>2, TotalIs
  <2>8. Total(read(c), all) \in Nat
    BY <1>4, <1>7, TotalIs
  <2>9. Total(g, T) = Total(f, S) + Total(read(c), all)
    BY <2>2, <2>4, <2>5, <2>6, <2>7, <2>8
  <2> QED
    BY <1>2, <2>7, <2>8, <2>9 DEF f, g, T
<1>9. ASSUME NEW m \in Ids, blob'[m] = None PROVE versions'[m] = <<>>
  <2>1. blob[m] = None
    BY <1>1, <1>9, SumColumns
  <2> QED
    BY <1>2, <2>1 DEF SumsInv, Balanced
<1>10. ASSUME NEW g \in Hashes
       PROVE  ref_count'[g] = Total(Value(One(g), blob', versions'), nodes')
  <2> DEFINE A == {m \in all : (IF m = n THEN h ELSE blob[m]) = g}
             f == read(One(g))
  <2>1. ref_count'[g] = ref_count[g] + Cardinality(A)
    BY <1>2
  <2>2. A \in SUBSET all /\ \A m \in all : f[m] = IF m \in A THEN 1 ELSE 0
    BY <1>4, <1>6, OneIs, SumColumns DEF Worth
  <2>3. IsFiniteSet(all)
    BY <1>4, IdsAssumption, FS_Subset
  <2> HIDE DEF A, f, all
  <2>4. Total(f, all) = Cardinality(A)
    BY <2>2, <2>3, SumOfOnes DEF Total
  <2>5. One(g) \in [Hashes -> Nat] /\ nodes \in SUBSET nodes
    BY OneIs
  <2>6. Total(Value(One(g), blob', versions'), nodes \cup ids)
          = Total(Value(One(g), blob, versions), nodes) + Total(f, all)
    BY <1>8, <2>5 DEF f
  <2>7. ref_count[g] = Total(Value(One(g), blob, versions), nodes)
    BY DEF SumsInv, Balanced
  <2> QED
    BY <1>1, <2>1, <2>4, <2>6, <2>7
<1>11. Total(read(Size), all) = Worth(Size, h) + SizesOf(below)
  <2> DEFINE f == read(Size)
  <2>1. f[n] = Worth(Size, h) /\ \A m \in below : f[m] = SizeOf(m)
    BY <1>2, <1>4, <1>6 DEF Worth, SizeOf, IsDirectory
  <2>2. f \in [Ids -> Nat] /\ n \in all /\ all \ {n} = below
    BY <1>4, <1>7, SumColumns
  <2> HIDE DEF f, all
  <2>3. Total(f, all) = f[n] + Total(f, all \ {n})
    BY <1>4, <2>2, TotalIs
  <2>4. Restrict(f, below) = [m \in below |-> SizeOf(m)]
    BY <2>1 DEF Restrict
  <2>5. Total(f, below) = SizesOf(below)
    BY <2>4 DEF Total, SizesOf
  <2>6. Total(f, all) = Worth(Size, h) + SizesOf(below)
    BY <2>1, <2>2, <2>3, <2>5
  <2> QED
    BY <2>6 DEF f
<1>12. bytes_used' = Total(Value(Size, blob', versions'), Live')
  <2> DEFINE V == Value(Size, blob, versions)
             R == Total(read(Size), all)
             G == Total(V, gone)
             L == Total(V, live)
  <2>1. V \in [Ids -> Nat] /\ gone \in SUBSET Ids /\ Live \in SUBSET Ids
    BY <1>3, SumColumns, ValueIs
  <2>2. WeightOf(gone) = G
    BY <2>1, SumsAre
  <2>3. bytes_used = Total(V, Live)
    BY DEF SumsInv, Balanced
  <2>4. Total(Value(Size, blob', versions'), live \cup ids) = L + R /\ L \in Nat /\ R \in Nat
    BY <1>4, <1>8, SumColumns
  <2> HIDE DEF V, R
  <2>5. Total(V, Live) = G + L
    BY <1>3, <2>1, TotalIs DEF live
  <2>6. G \in Nat
    BY <2>1, TotalIs
  <2>7. bytes_used' = (bytes_used - G) + R
    BY <1>2, <1>11, <2>2 DEF R
  <2> HIDE DEF G, L
  <2>8. bytes_used' = L + R
    BY <2>3, <2>4, <2>5, <2>6, <2>7
  <2> QED
    BY <1>5, <2>4, <2>8
<1> QED
  BY <1>9, <1>10, <1>12 DEF SumsInv, Balanced

(* At first there is nothing but the root.                                 *)
LEMMA SumsInit == Init => SumsInv
<1> SUFFICES ASSUME Init PROVE SumsInv
  OBVIOUS
<1>1. /\ blob = [n \in Ids |-> None] /\ versions = [n \in Ids |-> <<>>]
      /\ ref_count = [h \in Hashes |-> 0] /\ bytes_used = 0
  BY DEF Init
<1>2. nodes \in SUBSET Ids /\ Live \in SUBSET Ids
  BY IdsAssumption DEF Init, Live
<1>3. ASSUME NEW c \in [Hashes -> Nat], NEW S \in SUBSET Ids
      PROVE  Total(Value(c, blob, versions), S) = 0
  <2> DEFINE f == Value(c, blob, versions)
  <2>1. blob \in [Ids -> Hashes \cup {None}] /\ versions \in [Ids -> Seq(Hashes)]
    BY <1>1
  <2>2. f \in [Ids -> Nat]
    BY <2>1, ValueIs
  <2>3. ASSUME NEW n \in Ids PROVE f[n] = 0
    <3>1. blob[n] = None /\ versions[n] = <<>>
      BY <1>1
    <3>2. f[n] = Worth(c, blob[n])
      BY <3>1, ValueOf
    <3> QED
      BY <3>1, <3>2 DEF Worth
  <2> HIDE DEF f
  <2>4. Total(f, S) = 0
    BY <2>2, <2>3, TotalIs
  <2> QED
    BY <2>4 DEF f
<1>4. \A h \in Hashes : ref_count[h] = Total(Value(One(h), blob, versions), nodes)
  BY <1>1, <1>2, <1>3, OneIs
<1>5. bytes_used = Total(Value(Size, blob, versions), Live)
  BY <1>1, <1>2, <1>3, SizeAssumption
<1> QED
  BY <1>1, <1>4, <1>5 DEF SumsInv, Balanced

(* Every step leaves the sums balanced.                                    *)
LEMMA SumsStep == TreeInv /\ TrashInv /\ SumTypes /\ SumsInv /\ [Next]_vars => SumsInv'
<1> SUFFICES ASSUME TreeInv, TrashInv, SumTypes, SumsInv, [Next]_vars PROVE SumsInv'
  OBVIOUS
<1>0. ASSUME UNCHANGED <<nodes, blob, trash_root, versions, ref_count, bytes_used>>
      PROVE  SumsInv'
  BY <1>0 DEF SumsInv, Live
<1>1. ASSUME NEW r \in Requests, LookStep(r) PROVE SumsInv'
  <2>1. ASSUME NEW op, Look(r, op)
        PROVE  UNCHANGED <<nodes, blob, trash_root, versions, ref_count, bytes_used>>
    BY <2>1 DEF Look, rowVars, sumVars
  <2>2. \E op : Look(r, op)
    BY <1>1 DEF LookStep, LookMkdir, LookPut, LookTransfer, LookSend, LookRevert
  <2> QED
    BY <1>0, <2>1, <2>2
<1>2. ASSUME NEW r \in Requests, WriteStep(r) PROVE SumsInv'
  <2>1. CASE Refuse(r)
    BY <1>0, <2>1 DEF Refuse, rowVars, sumVars
  <2> QED
    BY <1>2, <2>1, BalanceMkdir, BalancePut, BalanceRevert, BalanceSend, BalanceMove, BalanceCopy
    DEF WriteStep
<1>3. ASSUME TrashStep PROVE SumsInv'
  <2>1. ASSUME NEW id \in Ids, ExpireOne(id) PROVE SumsInv'
    <3>1. CASE id \in nodes /\ trash_root[id] = id
      BY <2>1, <3>1, BalancePurge DEF ExpireOne
    <3>2. CASE ~(id \in nodes /\ trash_root[id] = id)
      BY <1>0, <2>1, <3>2 DEF ExpireOne, rowVars, sumVars
    <3> QED
      BY <3>1, <3>2
  <2>2. ASSUME NEW id \in Ids, Purge(id) PROVE SumsInv'
    BY <2>2, BalancePurge DEF Purge
  <2>3. ASSUME NEW id \in Ids, Age(id) PROVE SumsInv'
    BY <1>0, <2>3 DEF Age, rowVars, sumVars
  <2>4. ASSUME ListDue PROVE SumsInv'
    BY <1>0, <2>4 DEF ListDue, rowVars, sumVars
  <2> QED
    BY <1>3, <2>1, <2>2, <2>3, <2>4, BalanceRestore DEF TrashStep
<1>4. ASSUME NEW q \in Quotas, SetQuota(q) PROVE SumsInv'
  BY <1>0, <1>4 DEF SetQuota, rowVars
<1>5. ASSUME UNCHANGED vars PROVE SumsInv'
  BY <1>0, <1>5 DEF vars
<1> QED
  BY <1>1, <1>2, <1>3, <1>4, <1>5 DEF Next

(* ... so that they are balanced in every reachable state.                 *)
LEMMA SumsInvariant ==
    ASSUME Overtaking = FALSE
    PROVE  Spec => [](TreeInv /\ SumTypes /\ SumsInv)
  BY SumsInit, SumsStep, SumTypesInvariant, TrashInvariant, PTL DEF Spec

(* RefCountExact: whatever is written, copied, overwritten, trashed,       *)
(* restored, purged or expired, a blob is counted once for each node and   *)
(* each version that holds it.                                             *)
THEOREM ReferencesAreCounted ==
    ASSUME Overtaking = FALSE
    PROVE  Spec => []RefCountExact
<1>1. TreeInv /\ SumTypes /\ SumsInv => RefCountExact
  <2> SUFFICES ASSUME TreeInv, SumTypes, SumsInv, NEW h \in Hashes
               PROVE  ref_count[h] = Cardinality({n \in nodes : blob[n] = h})
                         + SumFunction([n \in nodes |-> Occurrences(h, versions[n])])
    BY DEF RefCountExact
  <2>1. nodes \in SUBSET Ids
    BY SumColumns
  <2>2. HeldBy(nodes)[h] = Total(Value(One(h), blob, versions), nodes)
    BY <2>1, SumsAre
  <2>3. ref_count[h] = HeldBy(nodes)[h]
    BY <2>2 DEF SumsInv, Balanced
  <2> QED
    BY <2>3 DEF HeldBy
<1> QED
  BY <1>1, SumsInvariant, PTL

(* QuotaExact: what an account is charged is what its live files and their *)
(* versions take up; nothing is charged twice, given back twice or lost    *)
(* on the way through the trash.                                           *)
THEOREM QuotaIsWhatIsStored ==
    ASSUME Overtaking = FALSE
    PROVE  Spec => []QuotaExact
<1>1. TreeInv /\ SumTypes /\ SumsInv => QuotaExact
  <2> SUFFICES ASSUME TreeInv, SumTypes, SumsInv PROVE QuotaExact
    OBVIOUS
  <2>1. Live \in SUBSET Ids
    BY SumColumns
  <2>2. WeightOf(Live) = Total(Value(Size, blob, versions), Live)
    BY <2>1, SumsAre
  <2>3. SizesOf(Live) + SumFunction([n \in Live |-> Bytes(versions[n])]) = WeightOf(Live)
    BY <2>1, SumsAre
  <2>4. bytes_used = WeightOf(Live)
    BY <2>2 DEF SumsInv, Balanced
  <2> QED
    BY <2>3, <2>4 DEF QuotaExact
<1> QED
  BY <1>1, SumsInvariant, PTL

(* make_room finds a way whenever there is one: dropping a version never   *)
(* fails, and what is left when all are gone is what a file without a      *)
(* history would have.                                                     *)
LEMMA RoomIsFound ==
    ASSUME NEW held \in Seq(Hashes), NEW used \in Nat, NEW previous \in Hashes,
           NEW h \in Hashes, bytes_max \in Nat, used <= bytes_max, Bytes(held) <= used,
           Charge(used - Bytes(held), Size[h] - Size[previous])
    PROVE  MakeRoom(held, used, previous, h).allowed
<1> DEFINE first(k) == SubSeq(held, 1, k)
           fits == {k \in 0 .. Len(held) : Charge(used - Bytes(first(k)), Size[h])}
           dropped == IF fits = {} THEN Len(held) ELSE Min(fits)
           left == used - Bytes(first(dropped))
           delta == IF fits = {} THEN Size[h] - Size[previous] ELSE Size[h]
<1>1. MakeRoom(held, used, previous, h).allowed
         = (/\ \A k \in 1 .. dropped : Charge(used - Bytes(first(k - 1)), -Size[held[k]])
            /\ Charge(left, delta))
  BY DEF MakeRoom
<1>2. Len(held) \in Nat /\ fits \subseteq 0 .. Len(held) /\ first(Len(held)) = held
  OBVIOUS
<1>3. ASSUME NEW k \in 0 .. Len(held)
      PROVE  Bytes(first(k)) \in Nat /\ Bytes(first(k)) <= Bytes(held)
  <2> DEFINE rest == SubSeq(held, k + 1, Len(held))
  <2>1. /\ first(k) \in Seq(Hashes) /\ rest \in Seq(Hashes)
        /\ Along(Size, held) = Along(Size, first(k)) + Along(Size, rest)
    BY AlongCut, SizeAssumption
  <2> HIDE DEF first, rest
  <2>2. Along(Size, first(k)) \in Nat /\ Along(Size, rest) \in Nat
    BY <2>1, AlongConcat, SizeAssumption
  <2>3. Bytes(first(k)) = Along(Size, first(k)) /\ Bytes(held) = Along(Size, held)
    BY <2>1, AlongIs
  <2> QED
    BY <2>1, <2>2, <2>3
<1>4. ASSUME NEW k \in 1 .. Len(held)
      PROVE  Bytes(first(k)) = Bytes(first(k - 1)) + Size[held[k]] /\ Size[held[k]] \in Nat
  <2>1. Along(Size, first(k)) = Along(Size, first(k - 1)) + Size[held[k]] /\ held[k] \in Hashes
    <3>1. held[k] \in Hashes
      OBVIOUS
    <3>2. Along(Size, SubSeq(held, 1, k)) = Along(Size, SubSeq(held, 1, k - 1)) + Size[held[k]]
      BY AlongStep, SizeAssumption
    <3> QED
      BY <3>1, <3>2
  <2>2. k \in 0 .. Len(held) /\ k - 1 \in 0 .. Len(held)
    BY <1>2
  <2>3. first(k) \in Seq(Hashes) /\ first(k - 1) \in Seq(Hashes)
    BY <2>2, AlongCut, SizeAssumption
  <2> HIDE DEF first
  <2>4. Bytes(first(k)) = Along(Size, first(k)) /\ Bytes(first(k - 1)) = Along(Size, first(k - 1))
    BY <2>1, <2>3, AlongIs
  <2> QED
    BY <2>1, <2>4, SizeAssumption
<1> HIDE DEF first
<1>5. fits # {} => Min(fits) \in fits
  <2> SUFFICES ASSUME fits # {} PROVE Min(fits) \in fits
    OBVIOUS
  <2>1. fits \subseteq Nat
    BY <1>2
  <2> HIDE DEF fits
  <2>2. \E x \in fits : \A y \in fits : x <= y
    BY <2>1, LeastNatural
  <2> QED
    BY <2>2 DEF Min
<1>6. dropped \in 0 .. Len(held)
  BY <1>2, <1>5
<1>7. Charge(left, delta)
  <2>1. CASE fits = {}
    BY <1>2, <2>1
  <2>2. CASE fits # {}
    BY <1>5, <2>2
  <2> QED
    BY <2>1, <2>2
<1> HIDE DEF dropped, left, delta, fits
<1>8. ASSUME NEW k \in 1 .. dropped PROVE Charge(used - Bytes(first(k - 1)), -Size[held[k]])
  <2> DEFINE a == Bytes(first(k - 1))
             b == Size[held[k]]
             all == Bytes(held)
  <2>1. k \in 1 .. Len(held) /\ k \in 0 .. Len(held) /\ k - 1 \in 0 .. Len(held)
    BY <1>2, <1>6
  <2>2. a \in Nat /\ b \in Nat /\ a + b <= all /\ all <= used
    BY <1>3, <1>4, <2>1
  <2>3. all \in Nat
    BY AlongIs, AlongConcat, SizeAssumption
  <2> HIDE DEF a, b, all
  <2>4. (used - a) + (-b) \in 0 .. bytes_max
    BY <2>2, <2>3
  <2>5. Charge(used - a, -b)
    BY <2>4 DEF Charge
  <2> QED
    BY <2>5 DEF a, b
<1> QED
  BY <1>1, <1>7, <1>8

(* SaveNeverFailsForHistory: since the quota is exact, all the versions of *)
(* a file can be given up without it going below zero.                     *)
THEOREM HistoryIsNeverInTheWay ==
    ASSUME Overtaking = FALSE
    PROVE  Spec => []SaveNeverFailsForHistory
<1>1. TreeInv /\ SumTypes /\ SumsInv => SaveNeverFailsForHistory
  <2> SUFFICES ASSUME TreeInv, SumTypes, SumsInv, NEW n \in Live, NEW h \in Hashes,
                      SizeOf(n) > 0, bytes_used <= bytes_max,
                      Charge(bytes_used - Bytes(versions[n]), Size[h] - Size[blob[n]])
               PROVE  Room(versions[n], bytes_used, blob[n], h).allowed
    BY DEF SaveNeverFailsForHistory
  <2> DEFINE held == versions[n]
             previous == blob[n]
  <2>1. /\ n \in Ids /\ previous \in Hashes /\ held \in Seq(Hashes)
        /\ Len(held) <= VERSIONS_KEPT /\ bytes_used \in Nat /\ bytes_max \in Nat
        /\ Size[previous] \in Nat /\ Size[h] \in Nat
    BY SumColumns DEF SizeOf, IsDirectory
  <2>2. CASE VERSIONS_KEPT > 0 /\ Size[previous] > 0 /\ previous # h
    <3> DEFINE V == Value(Size, blob, versions)
               b == Bytes(held)
    <3>1. bytes_used = Total(V, Live) /\ V \in [Ids -> Nat] /\ Live \in SUBSET Ids
      BY SumColumns, ValueIs DEF SumsInv, Balanced
    <3>2. Total(V, Live) >= V[n]
      BY <3>1, TotalChanges
    <3>3. V[n] = Size[previous] + b
      <4>1. V[n] = Worth(Size, previous) + Along(Size, held)
        BY <2>1, ValueOf, SizeAssumption
      <4>2. Worth(Size, previous) = Size[previous]
        BY <2>1, SumColumns DEF Worth
      <4>3. b = Along(Size, held)
        BY <2>1, AlongIs
      <4> QED
        BY <4>1, <4>2, <4>3
    <3>4. b \in Nat
      BY <2>1, AlongIs, AlongConcat, SizeAssumption
    <3> HIDE DEF V, b
    <3>5. b <= bytes_used
      BY <2>1, <3>1, <3>2, <3>3, <3>4
    <3> HIDE DEF held, previous
    <3>6. MakeRoom(held, bytes_used, previous, h).allowed
      BY <2>1, <3>5, RoomIsFound DEF b, held, previous
    <3> QED
      BY <2>2, <3>6 DEF Room, held, previous
  <2>3. CASE ~(VERSIONS_KEPT > 0 /\ Size[previous] > 0 /\ previous # h)
    <3>1. Room(held, bytes_used, previous, h).allowed
             = Charge(bytes_used, Size[h] - Size[previous])
      BY <2>3 DEF Room, JustCharge
    <3>2. CASE previous = h
      <4>1. Size[h] - Size[previous] = 0
        BY <2>1, <3>2
      <4> QED
        BY <3>1, <4>1 DEF Charge
    <3>3. CASE previous # h
      <4>1. Size[previous] > 0
        BY <2>1 DEF SizeOf, IsDirectory
      <4>2. Len(held) = 0
        BY <2>1, <2>3, <3>3, <4>1, LimitsAssumption
      <4>3. held = <<>>
        BY <2>1, <4>2
      <4>4. Bytes(held) = 0
        BY <2>1, <4>3, AlongIs, AlongConcat, SizeAssumption
      <4>5. bytes_used - Bytes(held) = bytes_used
        BY <2>1, <4>4
      <4> QED
        BY <3>1, <4>5
    <3> QED
      BY <3>2, <3>3
  <2> QED
    BY <2>2, <2>3
<1> QED
  BY <1>1, SumsInvariant, PTL

=============================================================================
