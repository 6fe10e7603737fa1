---------------------------- MODULE DavLocksProofs ----------------------------
(* The lock table, for every tree, and what the locks keep others from     *)
(* when nobody acts between the checks of a method and its writes.         *)
EXTENDS DavLocks, TablesProofs, SequenceTheorems

-----------------------------------------------------------------------------
(* Going down a path *)

(* Resolve as a function of the rows it reads, so that what is known of it *)
(* can be said of the tree before and after a step.                        *)
ChildOf(N, up, nm, p, x) == {n \in N : up[n] = p /\ nm[n] = x}
Below(N, up, nm, p, x) ==
    IF ChildOf(N, up, nm, p, x) = {} THEN None ELSE CHOOSE n \in ChildOf(N, up, nm, p, x) : TRUE

GoesDown(f, N, up, nm, path, len) ==
    f = [k \in 0 .. len |-> IF k = 0 THEN Root ELSE Below(N, up, nm, f[k - 1], path[k])]

(* A walk down a path is well defined ...                                  *)
LEMMA WalkDownExists ==
    ASSUME NEW N, NEW up, NEW nm, NEW path, NEW len \in Nat
    PROVE  \E f : GoesDown(f, N, up, nm, path, len)
<1> DEFINE Good == {k \in 0 .. len : \E f : GoesDown(f, N, up, nm, path, k)}
<1>1. 0 \in Good
  <2> DEFINE f == [k \in 0 .. 0 |-> Root]
  <2>1. GoesDown(f, N, up, nm, path, 0)
    BY DEF GoesDown
  <2> QED
    BY <2>1
<1>2. ASSUME NEW k \in 0 .. len - 1, k \in Good PROVE k + 1 \in Good
  <2>1. PICK f : GoesDown(f, N, up, nm, path, k)
    BY <1>2
  <2> DEFINE g == [j \in 0 .. k + 1 |->
                      IF j <= k THEN f[j] ELSE Below(N, up, nm, f[k], path[k + 1])]
  <2>2. ASSUME NEW j \in 0 .. k + 1
        PROVE  g[j] = IF j = 0 THEN Root ELSE Below(N, up, nm, g[j - 1], path[j])
    <3>1. CASE j <= k
      <4>1. g[j] = f[j] /\ (j # 0 => g[j - 1] = f[j - 1])
        BY <3>1
      <4>2. f[j] = IF j = 0 THEN Root ELSE Below(N, up, nm, f[j - 1], path[j])
        BY <2>1, <3>1 DEF GoesDown
      <4> QED
        BY <4>1, <4>2
    <3>2. CASE j = k + 1
      <4>1. g[j] = Below(N, up, nm, f[k], path[k + 1]) /\ g[j - 1] = f[k] /\ j # 0
        BY <3>2
      <4> QED
        BY <3>2, <4>1
    <3> QED
      BY <3>1, <3>2
  <2>3. GoesDown(g, N, up, nm, path, k + 1)
    <3> HIDE DEF g
    <3>1. g = [j \in 0 .. k + 1 |-> g[j]]
      BY DEF g
    <3> QED
      BY <2>2, <3>1 DEF GoesDown
  <2> QED
    BY <2>3
<1> HIDE DEF Good
<1>3. \A k \in 0 .. len : k \in Good
  BY <1>1, <1>2, UpTo
<1> QED
  BY <1>3 DEF Good

(* ... leads to rows that are there, or nowhere ...                        *)
LEMMA WalkDownIs ==
    ASSUME NEW N, N \subseteq Ids, NEW up, NEW nm, NEW path, NEW len \in Nat,
           NEW f, GoesDown(f, N, up, nm, path, len)
    PROVE  /\ f[0] = Root
           /\ \A k \in 1 .. len : /\ f[k] = Below(N, up, nm, f[k - 1], path[k])
                                  /\ f[k] \in ChildOf(N, up, nm, f[k - 1], path[k]) \cup {None}
<1>1. \A k \in 0 .. len :
          f[k] = IF k = 0 THEN Root ELSE Below(N, up, nm, f[k - 1], path[k])
  BY DEF GoesDown
<1>2. ASSUME NEW k \in 1 .. len
      PROVE  /\ f[k] = Below(N, up, nm, f[k - 1], path[k])
             /\ f[k] \in ChildOf(N, up, nm, f[k - 1], path[k]) \cup {None}
  <2>1. k \in 0 .. len /\ k # 0
    OBVIOUS
  <2>2. f[k] = Below(N, up, nm, f[k - 1], path[k])
    BY <1>1, <2>1
  <2> DEFINE found == ChildOf(N, up, nm, f[k - 1], path[k])
  <2>3. f[k] = IF found = {} THEN None ELSE CHOOSE n \in found : TRUE
    BY <2>2 DEF Below
  <2> HIDE DEF found
  <2>4. f[k] \in found \cup {None}
    BY <2>3
  <2> QED
    BY <2>2, <2>4 DEF found
<1> QED
  BY <1>1, <1>2

(* ... and is the same along a longer path.                                *)
LEMMA WalkDownAgrees ==
    ASSUME NEW N, N \subseteq Ids, NEW up, NEW nm, NEW path, NEW len \in Nat,
           NEW f, GoesDown(f, N, up, nm, path, len),
           NEW short, NEW n \in 0 .. len, \A k \in 1 .. n : short[k] = path[k],
           NEW g, GoesDown(g, N, up, nm, short, n)
    PROVE  \A k \in 0 .. n : g[k] = f[k]
<1> DEFINE Good == {k \in 0 .. n : g[k] = f[k]}
<1>0. n \in Nat
  OBVIOUS
<1>1. f[0] = Root /\ \A j \in 1 .. len : f[j] = Below(N, up, nm, f[j - 1], path[j])
  BY WalkDownIs
<1>2. g[0] = Root /\ \A j \in 1 .. n : g[j] = Below(N, up, nm, g[j - 1], short[j])
  BY <1>0 DEF GoesDown
<1>3. 0 \in Good
  BY <1>1, <1>2
<1>4. ASSUME NEW k \in 0 .. n - 1, k \in Good PROVE k + 1 \in Good
  <2>1. k + 1 \in 1 .. n /\ k + 1 \in 1 .. len /\ (k + 1) - 1 = k /\ k + 1 \in 0 .. n
    OBVIOUS
  <2>2. g[k + 1] = Below(N, up, nm, g[k], short[k + 1])
    BY <1>2, <2>1
  <2>3. f[k + 1] = Below(N, up, nm, f[k], path[k + 1])
    BY <1>1, <2>1
  <2> QED
    BY <1>4, <2>1, <2>2, <2>3
<1> HIDE DEF Good
<1>5. \A k \in 0 .. n : k \in Good
  BY <1>0, <1>3, <1>4, UpTo
<1> QED
  BY <1>5 DEF Good

(* Where Resolve ends is where such a walk ends.                           *)
LEMMA ResolveIs ==
    ASSUME NEW path \in Seq(Names)
    PROVE  /\ \E f : /\ GoesDown(f, nodes, parent, name, path, Len(path))
                     /\ Resolve(path) = f[Len(path)]
           /\ \E f : /\ GoesDown(f, nodes', parent', name', path, Len(path))
                     /\ Resolve(path)' = f[Len(path)]
<1>0. Len(path) \in Nat
  OBVIOUS
<1>1. \E f : GoesDown(f, nodes, parent, name, path, Len(path))
  BY <1>0, WalkDownExists
<1>2. \E f : GoesDown(f, nodes', parent', name', path, Len(path))
  BY <1>0, WalkDownExists
<1>3. \E f : GoesDown(f, nodes, parent, name, path, Len(path)) /\ Resolve(path) = f[Len(path)]
  BY <1>1 DEF Resolve, GoesDown, Below, ChildOf, Child
<1>4. \E f : GoesDown(f, nodes', parent', name', path, Len(path))
             /\ Resolve(path)' = f[Len(path)]
  BY <1>2 DEF Resolve, GoesDown, Below, ChildOf, Child
<1> QED
  BY <1>3, <1>4

(* A path leads to a member of what the path without its last name leads   *)
(* to.                                                                     *)
LEMMA ResolveStep ==
    ASSUME nodes \subseteq Ids, NEW path \in Seq(Names)
    PROVE  /\ Resolve(path) \in nodes \cup {Root, None}
           /\ path # <<>> => /\ Above(path) \in Seq(Names) /\ Last(path) \in Names
                             /\ Resolve(path) # None =>
                                    Resolve(path) \in Child(Resolve(Above(path)), Last(path))
<1> DEFINE len == Len(path)
<1>0. len \in Nat
  OBVIOUS
<1>1. PICK f : GoesDown(f, nodes, parent, name, path, len) /\ Resolve(path) = f[len]
  BY ResolveIs
<1>2. f[0] = Root /\ \A k \in 1 .. len :
          f[k] \in ChildOf(nodes, parent, name, f[k - 1], path[k]) \cup {None}
  <2> HIDE DEF len
  <2> QED
    BY <1>0, <1>1, WalkDownIs
<1>3. Resolve(path) \in nodes \cup {Root, None}
  BY <1>0, <1>1, <1>2 DEF ChildOf
<1>4. ASSUME path # <<>>
      PROVE  /\ Above(path) \in Seq(Names) /\ Last(path) \in Names
             /\ Resolve(path) # None =>
                    Resolve(path) \in Child(Resolve(Above(path)), Last(path))
  <2> DEFINE front == Above(path)
  <2>1. /\ front \in Seq(Names) /\ Len(front) = len - 1 /\ len > 0
        /\ \A k \in 1 .. len - 1 : front[k] = path[k]
        /\ Last(path) = path[len] /\ path[len] \in Names
    <3>1. len > 0
      BY <1>4
    <3>2. front = SubSeq(path, 1, len - 1)
      BY DEF Above, Front
    <3>3. Last(path) = path[len] /\ path[len] \in Names
      BY <3>1 DEF Last
    <3> HIDE DEF front
    <3>4. front \in Seq(Names) /\ Len(front) = len - 1
          /\ \A k \in 1 .. len - 1 : front[k] = path[k]
      <4>1. \A i \in 1 .. len - 1 : path[i] \in Names
        BY <1>0
      <4>2. len - 1 \in Int /\ 1 \in Int
        BY <1>0
      <4> HIDE DEF len
      <4>3. /\ front \in Seq(Names)
            /\ Len(front) = IF 1 <= len - 1 THEN len - 1 - 1 + 1 ELSE 0
            /\ \A i \in 1 .. len - 1 - 1 + 1 : front[i] = path[1 + i - 1]
        BY <3>2, <4>1, <4>2, SubSeqProperties
      <4> QED
        BY <1>0, <3>1, <4>3
    <3> QED
      BY <3>1, <3>3, <3>4
  <2>2. PICK g : /\ GoesDown(g, nodes, parent, name, front, len - 1)
                 /\ Resolve(front) = g[len - 1]
    BY <2>1, ResolveIs
  <2> HIDE DEF len, front
  <2>3. \A k \in 0 .. len - 1 : g[k] = f[k]
    <3>1. len - 1 \in 0 .. len
      BY <1>0, <2>1
    <3> QED
      BY <1>0, <1>1, <2>1, <2>2, <3>1, WalkDownAgrees
  <2>4. Resolve(front) = f[len - 1]
    BY <1>0, <2>1, <2>2, <2>3
  <2>5. f[len] \in ChildOf(nodes, parent, name, f[len - 1], path[len]) \cup {None}
    BY <1>0, <1>2, <2>1
  <2> QED
    BY <1>1, <2>1, <2>4, <2>5 DEF ChildOf, Child, front, len
<1> QED
  BY <1>3, <1>4

-----------------------------------------------------------------------------
(* The state is well formed *)

(* What a request is about to do is one thing: a LOCK that makes its file  *)
(* names no other node.                                                    *)
OneAim == \A r \in Requests : ops[r].op = "lock" /\ ops[r].dir # None => ops[r].node = None

RowsOK ==
    /\ nodes \subseteq Ids
    /\ parent \in [Ids -> Ids \cup {None}]
    /\ name \in [Ids -> Names \cup {None}]
LocksOK ==
    /\ locks \subseteq Lock
    /\ \A l \in locks : l.node \in nodes
    /\ \A l, k \in locks : l # k => l.node # k.node /\ l.token # k.token
OpsOK == ops \in [Requests -> Op] /\ OneAim

TypeInv == RowsOK /\ LocksOK /\ OpsOK

(* The requests stay as they are described, but for the one that steps.    *)
LEMMA OpsStep ==
    ASSUME OpsOK, NEW r \in Requests, NEW op \in Op, ops' = [ops EXCEPT ![r] = op],
           op.op = "lock" /\ op.dir # None => op.node = None
    PROVE  /\ OpsOK' /\ ops'[r] = op
           /\ \A q \in Requests \ {r} : ops'[q] = ops[q]
BY DEF OpsOK, OneAim

(* A request that is done is described as one that never began.            *)
LEMMA IdleIsOp == Idle \in Op /\ Idle.op = "idle"
BY DEF Idle, Op

(* An id that is new names no row, nor anything a request has read.        *)
LEMMA FreshIs ==
    ASSUME NEW isDir, NEW n \in Fresh(isDir)
    PROVE  n \in Ids \ nodes /\ \A r \in Requests : n \notin {ops[r].node, ops[r].dir, ops[r].over}
BY DEF Fresh

(* A step that only checks changes no row.                                 *)
LEMMA TypeCheck ==
    ASSUME TypeInv, NEW r \in Requests, NEW op \in Op, Check(r, op),
           op.op = "lock" /\ op.dir # None => op.node = None
    PROVE  TypeInv'
<1>1. ops' = [ops EXCEPT ![r] = op] /\ UNCHANGED <<nodes, parent, name, locks>>
  BY DEF Check, treeVars
<1>2. OpsOK'
  BY <1>1, OpsStep DEF TypeInv
<1> QED
  BY <1>1, <1>2 DEF TypeInv, RowsOK, LocksOK

(* Where a path leads, what its last name is, and which tokens come along. *)
LEMMA InputsOK ==
    ASSUME TypeInv, NEW path \in Paths \cup {<<>>}
    PROVE  /\ path \in Seq(Names)
           /\ Resolve(path) \in Ids \cup {None}
           /\ path # <<>> => Last(path) \in Names /\ Above(path) \in Seq(Names)
           /\ Submitted \subseteq SUBSET Tokens
<1>1. path \in Seq(Names)
  BY PathsAssumption, EmptySeq
<1>2. nodes \subseteq Ids /\ Root \in Ids
  BY IdsAssumption DEF TypeInv, RowsOK
<1>3. Submitted \subseteq SUBSET Tokens
  BY DEF TypeInv, LocksOK, Lock, Submitted
<1> QED
  BY <1>1, <1>2, <1>3, ResolveStep

(* ... and so every check of a method leaves the state well formed.        *)
LEMMA TypeCheckStep ==
    ASSUME TypeInv, NEW r \in Requests, CheckStep(r)
    PROVE  TypeInv'
<1> USE DEF Idle
<1>0. nodes \subseteq Ids /\ Dirs \subseteq Ids
  BY IdsAssumption DEF TypeInv, RowsOK
<1>1. ASSUME NEW path \in Paths \cup {<<>>}, NEW tokens \in Submitted, PutOpen(r, path, tokens)
      PROVE  TypeInv'
  <2> DEFINE op == [Idle EXCEPT !.op = "body", !.path = path, !.tokens = tokens]
  <2>1. op \in Op /\ op.op = "body"
    BY InputsOK DEF Op
  <2>2. Check(r, op)
    BY <1>1 DEF PutOpen
  <2> HIDE DEF op
  <2> QED
    BY <2>1, <2>2, TypeCheck
<1>2. ASSUME NEW path \in Paths \cup {<<>>}, NEW tokens \in Submitted,
             MkcolCheck(r, path, tokens)
      PROVE  TypeInv'
  <2> DEFINE p == Resolve(Above(path))
             op == [Idle EXCEPT !.op = "mkcol", !.dir = p, !.as = Last(path), !.tokens = tokens]
  <2>1. p \in Dirs /\ path # <<>> /\ Check(r, op)
    BY <1>2 DEF MkcolCheck
  <2>2. op \in Op /\ op.op = "mkcol"
    BY <1>0, <2>1, InputsOK DEF Op
  <2> HIDE DEF op
  <2> QED
    BY <2>1, <2>2, TypeCheck
<1>3. ASSUME NEW path \in Paths \cup {<<>>}, NEW tokens \in Submitted,
             DeleteCheck(r, path, tokens)
      PROVE  TypeInv'
  <2> DEFINE op == [Idle EXCEPT !.op = "delete", !.node = Resolve(path), !.tokens = tokens]
  <2>1. op \in Op /\ op.op = "delete"
    BY InputsOK DEF Op
  <2>2. Check(r, op)
    BY <1>3 DEF DeleteCheck
  <2> HIDE DEF op
  <2> QED
    BY <2>1, <2>2, TypeCheck
<1>4. ASSUME NEW from \in Paths \cup {<<>>}, NEW tokens \in Submitted, NEW to \in Paths,
             NEW kind \in {"move", "copy"}, TransferCheck(r, kind, from, to, tokens)
      PROVE  TypeInv'
  <2> DEFINE p == Resolve(Above(to))
             there == Child(p, Last(to))
             over == IF there = {} THEN None ELSE CHOOSE o \in there : TRUE
             op == [Idle EXCEPT !.op = kind, !.node = Resolve(from), !.dir = p, !.as = Last(to),
                                !.over = over, !.tokens = tokens]
  <2>1. p \in Dirs /\ to # <<>> /\ Check(r, op)
    BY <1>4 DEF TransferCheck
  <2>2. over \in Ids \cup {None}
    BY <1>0 DEF Child
  <2>3. Resolve(from) \in Ids \cup {None} /\ Last(to) \in Names /\ tokens \in SUBSET Tokens
    BY <2>1, InputsOK
  <2> HIDE DEF over
  <2>4. op \in Op /\ op.op # "lock"
    BY <1>0, <2>1, <2>2, <2>3 DEF Op
  <2> HIDE DEF op
  <2> QED
    BY <2>1, <2>4, TypeCheck
<1>5. ASSUME NEW path \in Paths \cup {<<>>}, NEW tokens \in Submitted, NEW deep \in BOOLEAN,
             LockCheck(r, path, deep, tokens)
      PROVE  TypeInv'
  <2> DEFINE p == Resolve(Above(path))
             old == [Idle EXCEPT !.op = "lock", !.node = Resolve(path), !.deep = deep,
                                 !.tokens = tokens]
             new == [Idle EXCEPT !.op = "lock", !.dir = p, !.as = Last(path), !.deep = deep,
                                 !.tokens = tokens]
  <2>1. Resolve(path) \in Ids \cup {None} /\ tokens \in SUBSET Tokens
    BY InputsOK
  <2>2. CASE Check(r, old)
    <3>1. old \in Op /\ old.dir = None
      BY <2>1 DEF Op
    <3> HIDE DEF old
    <3> QED
      BY <2>2, <3>1, TypeCheck
  <2>3. CASE Check(r, new) /\ path # <<>> /\ p \in Dirs
    <3>1. new \in Op /\ new.node = None
      BY <1>0, <2>1, <2>3, InputsOK DEF Op
    <3> HIDE DEF new
    <3> QED
      BY <2>3, <3>1, TypeCheck
  <2> QED
    BY <1>5, <2>2, <2>3 DEF LockCheck
<1>6. ASSUME PutCheck(r) PROVE TypeInv'
  <2> DEFINE path == ops[r].path
             p == Resolve(Above(path))
             op == [Idle EXCEPT !.op = "put", !.dir = p, !.as = Last(path),
                                !.tokens = ops[r].tokens]
  <2>1. path # <<>> /\ p \in Dirs /\ Check(r, op)
    BY <1>6 DEF PutCheck, Destination
  <2>2. path \in Paths \cup {<<>>} /\ ops[r].tokens \in SUBSET Tokens
    BY DEF TypeInv, OpsOK, Op
  <2>3. Last(path) \in Names
    BY <2>1, <2>2, InputsOK
  <2>4. op \in Op /\ op.op = "put"
    BY <1>0, <2>1, <2>2, <2>3 DEF Op
  <2> HIDE DEF op
  <2> QED
    BY <2>1, <2>4, TypeCheck
<1>7. ASSUME PutRefused(r) PROVE TypeInv'
  <2> HIDE DEF Idle
  <2> QED
    BY <1>7, IdleIsOp, TypeCheck DEF PutRefused
<1> QED
  BY <1>1, <1>2, <1>3, <1>4, <1>5, <1>6, <1>7 DEF CheckStep

(* What a write may do to the rows and locks and leave them well formed:   *)
(* take away nodes together with their locks, ...                          *)
LEMMA TypeGone ==
    ASSUME RowsOK, LocksOK, NEW gone, locks' = {l \in locks : l.node \notin gone},
           nodes \ gone \subseteq nodes'
    PROVE  LocksOK'
BY DEF RowsOK, LocksOK

(* ... add a lock to a node that has none, ...                             *)
LEMMA TypeTake ==
    ASSUME LocksOK, NEW t \in FreeTokens, NEW n \in nodes', n \in Ids, NEW deep \in BOOLEAN,
           NEW left \in SUBSET locks, \A l \in left : l.node # n, nodes \subseteq nodes',
           locks' = left \cup {[token |-> t, node |-> n, deep |-> deep, lapsed |-> FALSE]}
    PROVE  LocksOK'
<1> DEFINE k == [token |-> t, node |-> n, deep |-> deep, lapsed |-> FALSE]
<1>1. k \in Lock /\ k.node = n /\ k.token = t
  BY DEF Lock, FreeTokens
<1>2. \A l \in locks : l.token # t
  BY DEF FreeTokens
<1> HIDE DEF k
<1>3. locks' = left \cup {k}
  BY DEF k
<1> QED
  BY <1>1, <1>2, <1>3 DEF LocksOK

(* ... or put a node somewhere.                                            *)
LEMMA TypeRows ==
    ASSUME RowsOK, NEW gone, NEW n, NEW p \in Ids \cup {None}, NEW x \in Names \cup {None},
           parent' = [Without(parent, gone) EXCEPT ![n] = p],
           name' = [Without(name, gone) EXCEPT ![n] = x],
           nodes' \subseteq Ids
    PROVE  RowsOK'
BY DEF RowsOK, Without

(* ... or make one.                                                       *)
LEMMA TypeInsert ==
    ASSUME TypeInv, NEW isDir, NEW n \in Fresh(isDir), NEW p \in Ids \cup {None},
           NEW x \in Names \cup {None}, Insert(n, p, x)
    PROVE  RowsOK' /\ n \in Ids \ nodes /\ nodes' = nodes \cup {n}
<1>1. n \in Ids \ nodes
  BY FreshIs
<1> QED
  BY <1>1 DEF TypeInv, RowsOK, Insert

(* The writes of a method leave the state well formed.                     *)
LEMMA TypeWriteStep ==
    ASSUME TypeInv, NEW r \in Requests, WriteStep(r)
    PROVE  TypeInv' /\ Done(r)
<1> DEFINE o == ops[r]
<1>0. Done(r)
  BY DEF WriteStep, Put, Mkcol, Delete, Move, Copy, LockTake, LockNew, RolledBack
<1>1. OpsOK'
  BY <1>0, IdleIsOp, OpsStep DEF TypeInv, Done
<1>2. /\ o.node \in Ids \cup {None} /\ o.dir \in Ids \cup {None} /\ o.as \in Names \cup {None}
      /\ o.over \in Ids \cup {None} /\ o.deep \in BOOLEAN
  BY DEF TypeInv, OpsOK, Op
<1> HIDE DEF o
<1>3. RowsOK /\ LocksOK
  BY DEF TypeInv
<1> SUFFICES RowsOK' /\ LocksOK'
  BY <1>0, <1>1 DEF TypeInv
<1>4. CASE UNCHANGED <<treeVars, locks>>
  BY <1>3, <1>4 DEF RowsOK, LocksOK, treeVars
<1>5. CASE \E n \in Fresh(TRUE) \cup Fresh(FALSE) : Insert(n, o.dir, o.as) /\ UNCHANGED locks
  <2>1. PICK n \in Fresh(TRUE) \cup Fresh(FALSE) : Insert(n, o.dir, o.as) /\ UNCHANGED locks
    BY <1>5
  <2>2. RowsOK' /\ nodes' = nodes \cup {n}
    BY <1>2, <2>1, TypeInsert
  <2> QED
    BY <1>3, <2>1, <2>2 DEF LocksOK
<1>6. CASE Delete(r)
  <2> DEFINE gone == Subtree(o.node) \cap nodes
  <2>1. Send(gone)
    BY <1>6 DEF Delete, o
  <2> HIDE DEF gone
  <2>2. /\ nodes' = nodes \ gone /\ parent' = Without(parent, gone)
        /\ name' = Without(name, gone) /\ locks' = {l \in locks : l.node \notin gone}
    BY <2>1 DEF Send, Gone
  <2>3. LocksOK'
    BY <1>3, <2>2, TypeGone
  <2> QED
    BY <1>3, <2>2, <2>3 DEF RowsOK, Without
<1>7. CASE Move(r)
  <2>1. SUFFICES ASSUME NEW gone, nodes' = nodes \ gone,
                        parent' = [Without(parent, gone) EXCEPT ![o.node] = o.dir],
                        name' = [Without(name, gone) EXCEPT ![o.node] = o.as],
                        locks' = {l \in locks : l.node \notin gone}
                 PROVE  RowsOK' /\ LocksOK'
    BY <1>4, <1>7 DEF Move, RolledBack, Gone, o
  <2>2. LocksOK'
    BY <1>3, <2>1, TypeGone
  <2>3. nodes' \subseteq Ids
    BY <1>3, <2>1 DEF RowsOK
  <2> QED
    BY <1>2, <1>3, <2>1, <2>2, <2>3, TypeRows
<1>8. CASE Copy(r)
  <2>1. SUFFICES ASSUME NEW gone, NEW c \in Fresh(o.node \in Dirs),
                        nodes' = (nodes \ gone) \cup {c},
                        parent' = [Without(parent, gone) EXCEPT ![c] = o.dir],
                        name' = [Without(name, gone) EXCEPT ![c] = o.as],
                        locks' = {l \in locks : l.node \notin gone}
                 PROVE  RowsOK' /\ LocksOK'
    BY <1>4, <1>8 DEF Copy, RolledBack, Gone, o
  <2>2. LocksOK'
    BY <1>3, <2>1, TypeGone
  <2>3. c \in Ids
    BY FreshIs
  <2>4. nodes' \subseteq Ids
    BY <1>3, <2>1, <2>3 DEF RowsOK
  <2> QED
    BY <1>2, <1>3, <2>1, <2>2, <2>4, TypeRows
<1>9. CASE LockTake(r)
  <2>1. SUFFICES ASSUME NEW t \in FreeTokens, UNCHANGED treeVars,
                        \A l \in locks \ Lapsed(o.node) : l.node # o.node,
                        locks' = (locks \ Lapsed(o.node)) \cup
                            {[token |-> t, node |-> o.node, deep |-> o.deep, lapsed |-> FALSE]}
                 PROVE  RowsOK' /\ LocksOK'
    BY <1>4, <1>9 DEF LockTake, Take, o
  <2>2. UNCHANGED <<nodes, parent, name>> /\ o.node \in nodes
    BY <1>9, <2>1 DEF treeVars, LockTake, o
  <2>3. RowsOK' /\ o.node \in Ids /\ o.node \in nodes' /\ nodes \subseteq nodes'
    BY <1>3, <2>2 DEF RowsOK
  <2>4. LocksOK'
    BY <1>2, <1>3, <2>1, <2>3, TypeTake
  <2> QED
    BY <2>3, <2>4
<1>10. CASE LockNew(r)
  <2>1. SUFFICES ASSUME NEW n \in Fresh(FALSE), NEW t \in FreeTokens, Insert(n, o.dir, o.as),
                        locks' = locks \cup
                            {[token |-> t, node |-> n, deep |-> o.deep, lapsed |-> FALSE]}
                 PROVE  RowsOK' /\ LocksOK'
    BY <1>4, <1>10 DEF LockNew, o
  <2>2. RowsOK' /\ n \in Ids \ nodes /\ nodes' = nodes \cup {n}
    BY <1>2, <2>1, TypeInsert
  <2>3. \A l \in locks : l.node # n
    BY <1>3, <2>2 DEF LocksOK
  <2>4. LocksOK'
    BY <1>2, <1>3, <2>1, <2>2, <2>3, TypeTake
  <2> QED
    BY <2>2, <2>4
<1>11. CASE Put(r)
  BY <1>4, <1>5, <1>11 DEF Put, PutFile, RolledBack, o
<1>12. CASE Mkcol(r)
  BY <1>4, <1>5, <1>12 DEF Mkcol, RolledBack, o
<1> QED
  BY <1>6, <1>7, <1>8, <1>9, <1>10, <1>11, <1>12 DEF WriteStep

(* Refreshing a lock that holds leaves the table as it is: the time it has *)
(* left is not in the model.                                               *)
LEMMA RefreshKeeps ==
    ASSUME LocksOK, NEW path, NEW tokens, Refresh(path, tokens)
    PROVE  locks' = locks
<1>1. \A l \in locks : Holding(l) => [l EXCEPT !.lapsed = FALSE] = l
  BY DEF LocksOK, Lock, Holding
<1>2. {[l EXCEPT !.lapsed = FALSE] : l \in Refreshed(Resolve(path), tokens)}
          = Refreshed(Resolve(path), tokens)
  BY <1>1 DEF Refreshed
<1> QED
  BY <1>2 DEF Refresh, Refreshed

(* So do the table's own steps, ...                                        *)
LEMMA TypeTableStep ==
    ASSUME TypeInv, TableStep
    PROVE  TypeInv' /\ UNCHANGED <<nodes, parent, name, ops>>
<1>1. UNCHANGED <<nodes, parent, name, ops>>
  BY DEF TableStep, Refresh, Unlock, Lapse, PurgeExpired, treeVars
<1>2. RowsOK' /\ OpsOK'
  BY <1>1 DEF TypeInv, RowsOK, OpsOK, OneAim
<1>3. ASSUME NEW path, NEW tokens, Refresh(path, tokens) PROVE LocksOK'
  BY <1>1, <1>3, RefreshKeeps DEF TypeInv, LocksOK
<1>4. ASSUME NEW l \in locks, Lapse(l) PROVE LocksOK'
  <2> DEFINE k == [l EXCEPT !.lapsed = TRUE]
  <2>1. k \in Lock /\ k.node = l.node /\ k.token = l.token
    BY DEF TypeInv, LocksOK, Lock
  <2>2. locks' = (locks \ {l}) \cup {k}
    BY <1>4 DEF Lapse
  <2> HIDE DEF k
  <2> QED
    BY <1>1, <2>1, <2>2 DEF TypeInv, LocksOK
<1>5. ASSUME locks' \subseteq locks PROVE LocksOK'
  BY <1>1, <1>5 DEF TypeInv, LocksOK
<1>6. LocksOK'
  BY <1>3, <1>4, <1>5 DEF TableStep, Unlock, PurgeExpired
<1> QED
  BY <1>1, <1>2, <1>6 DEF TypeInv

(* ... and the REST routes.                                                *)
LEMMA TypeRestStep ==
    ASSUME TypeInv, RestStep
    PROVE  TypeInv' /\ UNCHANGED ops
<1>1. UNCHANGED ops
  BY DEF RestStep, RestMove, RestSend
<1>2. OpsOK'
  BY <1>1 DEF TypeInv, OpsOK, OneAim
<1>3. ASSUME NEW n \in Ids, NEW p \in Dirs, NEW x \in Names, RestMove(n, p, x)
      PROVE  RowsOK' /\ LocksOK'
  BY <1>3, IdsAssumption DEF RestMove, TypeInv, RowsOK, LocksOK
<1>4. ASSUME NEW n \in Ids, RestSend(n) PROVE RowsOK' /\ LocksOK'
  <2> DEFINE gone == Subtree(n)
  <2>1. Send(gone)
    BY <1>4 DEF RestSend
  <2> HIDE DEF gone
  <2>2. /\ nodes' = nodes \ gone /\ parent' = Without(parent, gone)
        /\ name' = Without(name, gone) /\ locks' = {l \in locks : l.node \notin gone}
    BY <2>1 DEF Send, Gone
  <2>3. RowsOK /\ LocksOK
    BY DEF TypeInv
  <2>4. LocksOK'
    BY <2>2, <2>3, TypeGone
  <2> QED
    BY <2>2, <2>3, <2>4 DEF RowsOK, Without
<1> QED
  BY <1>1, <1>2, <1>3, <1>4 DEF RestStep, TypeInv

(* It is well formed at the start, ...                                     *)
LEMMA TypeInit == Init => TypeInv
<1> SUFFICES ASSUME Init PROVE TypeInv
  OBVIOUS
<1>1. \A r \in Requests : ops[r] = Idle
  BY DEF Init
<1>2. OpsOK
  BY <1>1, IdleIsOp DEF Init, OpsOK, OneAim
<1> QED
  BY <1>2, IdsAssumption DEF Init, TypeInv, RowsOK, LocksOK

(* ... no step changes that, ...                                           *)
LEMMA TypeNext == TypeInv /\ [Next]_vars => TypeInv'
<1> SUFFICES ASSUME TypeInv, [Next]_vars PROVE TypeInv'
  OBVIOUS
<1>1. CASE UNCHANGED vars
  BY <1>1 DEF vars, TypeInv, RowsOK, LocksOK, OpsOK, OneAim
<1> QED
  BY <1>1, TypeCheckStep, TypeWriteStep, TypeTableStep, TypeRestStep DEF Next

(* ... and so it always is.                                                *)
LEMMA AlwaysTyped == Spec => []TypeInv
BY TypeInit, TypeNext, PTL DEF Spec

(* locks_one_per_node, for trees, paths and requests of any number, and    *)
(* whoever acts between the checks of a method and its writes: no node     *)
(* gets a second row in the lock table, no token names two, and no row     *)
(* outlives the node it locks.                                             *)
THEOREM OneLockPerNode == Spec => []TypeOK
<1>1. TypeInv => TypeOK
  BY DEF TypeInv, RowsOK, LocksOK, OpsOK, TypeOK
<1> QED
  BY <1>1, AlwaysTyped, PTL

-----------------------------------------------------------------------------
(* Who writes *)

(* A step of checks belongs to a request that is about to write nothing,   *)
(* and touches only what that request has read.                            *)
LEMMA CheckStepIs ==
    ASSUME TypeInv, NEW r \in Requests, CheckStep(r)
    PROVE  /\ Quiet /\ ops[r].op \in {"idle", "body"}
           /\ \A q \in Requests \ {r} : ops'[q] = ops[q]
           /\ UNCHANGED <<nodes, parent, name, locks>>
<1> DEFINE Only ==
        /\ Quiet /\ \A q \in Requests \ {r} : ops'[q] = ops[q]
        /\ UNCHANGED <<nodes, parent, name, locks>>
<1>1. ASSUME NEW op, Check(r, op) PROVE Only
  BY <1>1 DEF Check, treeVars, TypeInv, OpsOK
<1> HIDE DEF Only
<1>2. ASSUME NEW path, NEW tokens, PutOpen(r, path, tokens) PROVE Only /\ ops[r] = Idle
  BY <1>1, <1>2 DEF PutOpen
<1>3. ASSUME NEW path, NEW tokens, MkcolCheck(r, path, tokens) PROVE Only /\ ops[r] = Idle
  BY <1>1, <1>3 DEF MkcolCheck
<1>4. ASSUME NEW path, NEW tokens, DeleteCheck(r, path, tokens) PROVE Only /\ ops[r] = Idle
  BY <1>1, <1>4 DEF DeleteCheck
<1>5. ASSUME NEW op, NEW path, NEW to, NEW tokens, TransferCheck(r, op, path, to, tokens)
      PROVE  Only /\ ops[r] = Idle
  BY <1>1, <1>5 DEF TransferCheck
<1>6. ASSUME NEW path, NEW deep, NEW tokens, LockCheck(r, path, deep, tokens)
      PROVE  Only /\ ops[r] = Idle
  BY <1>1, <1>6 DEF LockCheck
<1>7. ASSUME PutCheck(r) \/ PutRefused(r) PROVE Only /\ ops[r].op = "body"
  BY <1>1, <1>7 DEF PutCheck, PutRefused
<1>8. Only /\ (ops[r] = Idle \/ ops[r].op = "body")
  BY <1>2, <1>3, <1>4, <1>5, <1>6, <1>7 DEF CheckStep
<1> QED
  BY <1>8, IdleIsOp DEF Only

(* A step of writes belongs to a request that is about to write, and ends  *)
(* it.                                                                     *)
LEMMA WriteStepIs ==
    ASSUME TypeInv, NEW r \in Requests, WriteStep(r)
    PROVE  /\ r \in Writing /\ ops'[r] = Idle
           /\ \A q \in Requests \ {r} : ops'[q] = ops[q]
<1>1. r \in Writing
  BY DEF WriteStep, Put, Mkcol, Delete, Move, Copy, LockTake, LockNew, Writing
<1>2. Done(r)
  BY TypeWriteStep
<1> QED
  BY <1>1, <1>2 DEF Done, TypeInv, OpsOK

(* The writes of a request are its own step.                               *)
LEMMA WritesIsOwn ==
    ASSUME TypeInv, [Next]_vars, NEW q \in Requests, Writes(q)
    PROVE  WriteStep(q)
<1>1. ops[q].op \notin {"idle", "body"} /\ ops'[q] # ops[q]
  BY IdleIsOp DEF Writes
<1>2. ASSUME NEW r \in Requests, CheckStep(r) PROVE FALSE
  BY <1>1, <1>2, CheckStepIs
<1>3. ASSUME NEW r \in Requests, WriteStep(r) PROVE r = q
  BY <1>1, <1>3, WriteStepIs
<1>4. ~TableStep /\ ~RestStep /\ ~UNCHANGED vars
  BY <1>1, TypeTableStep, TypeRestStep DEF vars
<1> QED
  BY <1>2, <1>3, <1>4 DEF Next

-----------------------------------------------------------------------------
(* Locks that lapsed *)

(* A row of the table after a step was there before it, or has lapsed, or  *)
(* has a token that was free.                                              *)
LEMMA NoneComesBack ==
    ASSUME TypeInv, [Next]_vars, NEW k \in locks'
    PROVE  k \in locks \/ ~Holding(k) \/ \A l \in locks : l.token # k.token
<1>1. ASSUME NEW r \in Requests, CheckStep(r) PROVE k \in locks
  BY <1>1, CheckStepIs
<1>2. ASSUME NEW r \in Requests, WriteStep(r), ~LockTake(r), ~LockNew(r) PROVE k \in locks
  BY <1>2 DEF WriteStep, Put, Mkcol, Delete, Move, Copy, RolledBack, Send, Gone
<1>3. ASSUME NEW r \in Requests, LockTake(r) \/ LockNew(r)
      PROVE  k \in locks \/ \A l \in locks : l.token # k.token
  <2>1. ASSUME LockTake(r) PROVE k \in locks \/ k.token \in FreeTokens
    BY <2>1 DEF LockTake, Take
  <2>2. ASSUME LockNew(r) PROVE k \in locks \/ k.token \in FreeTokens
    <3>1. CASE UNCHANGED locks
      BY <3>1
    <3>2. CASE \E n \in Fresh(FALSE), t \in FreeTokens :
                   locks' = locks \cup {[token |-> t, node |-> n, deep |-> ops[r].deep,
                                         lapsed |-> FALSE]}
      BY <3>2
    <3> QED
      BY <2>2, <3>1, <3>2 DEF LockNew
  <2>3. ASSUME k.token \in FreeTokens PROVE \A l \in locks : l.token # k.token
    BY <2>3 DEF FreeTokens
  <2> QED
    BY <1>3, <2>1, <2>2, <2>3
<1>4. CASE TableStep
  <2>1. ASSUME NEW path, NEW tokens, Refresh(path, tokens) PROVE k \in locks
    BY <2>1, RefreshKeeps DEF TypeInv
  <2>2. ASSUME NEW l \in locks, Lapse(l) PROVE k \in locks \/ ~Holding(k)
    BY <2>2 DEF Lapse, Holding, TypeInv, LocksOK, Lock
  <2> QED
    BY <1>4, <2>1, <2>2 DEF TableStep, Unlock, PurgeExpired
<1>5. CASE RestStep
  BY <1>5 DEF RestStep, RestMove, RestSend, Send, Gone
<1>6. CASE UNCHANGED vars
  BY <1>6 DEF vars
<1> QED
  BY <1>1, <1>2, <1>3, <1>4, <1>5, <1>6 DEF Next

(* A lock that lapsed is gone, whoever acts between the checks of a LOCK   *)
(* and its insert: the LOCK of a node whose locks have all lapsed leaves   *)
(* one that holds, and no refresh brings back one that lapsed.             *)
THEOREM LapsedLocksAreGone == Spec => LapsedIsGone
<1>1. TypeInv /\ [Next]_vars =>
        [/\ \A r \in Requests :
              Writes(r) /\ ops[r].op = "lock" /\ ops[r].node \in nodes
              /\ (\A l \in locks : l.node = ops[r].node => ~Holding(l))
              => \E l \in locks' : l.node = ops[r].node /\ Holding(l)
         /\ \A l \in locks : ~Holding(l) =>
              \A k \in locks' : k.token = l.token /\ k.node = l.node => ~Holding(k)]_vars
  <2> SUFFICES ASSUME TypeInv, [Next]_vars
               PROVE  /\ \A r \in Requests :
                           Writes(r) /\ ops[r].op = "lock" /\ ops[r].node \in nodes
                           /\ (\A l \in locks : l.node = ops[r].node => ~Holding(l))
                           => \E l \in locks' : l.node = ops[r].node /\ Holding(l)
                      /\ \A l \in locks : ~Holding(l) =>
                           \A k \in locks' : k.token = l.token /\ k.node = l.node => ~Holding(k)
    OBVIOUS
  <2>1. ASSUME NEW r \in Requests, Writes(r), ops[r].op = "lock", ops[r].node \in nodes,
               \A l \in locks : l.node = ops[r].node => ~Holding(l)
        PROVE  \E l \in locks' : l.node = ops[r].node /\ Holding(l)
    <3> DEFINE n == ops[r].node
    <3>1. WriteStep(r) /\ n # None
      BY <2>1, WritesIsOwn, IdsAssumption DEF TypeInv, RowsOK
    <3>2. ~LockNew(r)
      BY <3>1 DEF LockNew, TypeInv, OpsOK, OneAim
    <3>3. LockTake(r)
      BY <2>1, <3>1, <3>2 DEF WriteStep, Put, Mkcol, Delete, Move, Copy
    <3>4. ~\E l \in locks \ Lapsed(n) : l.node = n
      BY <2>1 DEF Lapsed
    <3>5. PICK t \in FreeTokens : [token |-> t, node |-> n, deep |-> ops[r].deep,
                                   lapsed |-> FALSE] \in locks'
      BY <3>3, <3>4 DEF LockTake, Take
    <3> QED
      BY <3>5 DEF Holding
  <2>2. ASSUME NEW l \in locks, ~Holding(l), NEW k \in locks', k.token = l.token,
               k.node = l.node
        PROVE  ~Holding(k)
    <3>1. k \in locks \/ ~Holding(k)
      BY <2>2, NoneComesBack
    <3> QED
      BY <2>2, <3>1 DEF TypeInv, LocksOK
  <2> QED
    BY <2>1, <2>2
<1> QED
  BY <1>1, AlwaysTyped, PTL DEF Spec, LapsedIsGone

-----------------------------------------------------------------------------
(* What a method has checked when it writes *)

(* A node may go to the trash or elsewhere: neither it nor anything below  *)
(* it is locked by others.                                                 *)
MayGo(n, tokens) == n \in nodes /\ Allows(n, tokens) /\ NoneBelow(n, tokens)

Ready(o) ==
    /\ o.op = "put" => /\ Child(o.dir, o.as) = {} => Allows(o.dir, o.tokens)
                       /\ \A n \in Child(o.dir, o.as) : Allows(n, o.tokens)
    /\ o.op \in {"put", "mkcol"} => o.dir \in Ids
    /\ o.op \in {"mkcol", "move", "copy"} => Allows(o.dir, o.tokens)
    /\ o.op \in {"delete", "move"} => MayGo(o.node, o.tokens) /\ Allows(parent[o.node], o.tokens)
    /\ o.op \in {"move", "copy"} /\ o.over # None =>
           o.over \in Child(o.dir, o.as) /\ MayGo(o.over, o.tokens)

(* With nobody acting in between, one request at a time is about to write, *)
(* and what it has checked still holds.                                    *)
LockInv ==
    /\ TypeInv
    /\ \A q, r \in Writing : q = r
    /\ \A r \in Writing : Ready(ops[r])

(* What was checked holds for as long as the rows are as they were.        *)
LEMMA ReadyKept ==
    ASSUME TypeInv, UNCHANGED <<nodes, parent, name, locks>>, NEW r \in Requests,
           NEW op \in Op, ops'[r] = op, Ready(op)
    PROVE  Ready(ops[r])'
<1>1. nodes' = nodes /\ parent' = parent /\ name' = name /\ locks' = locks
  OBVIOUS
<1> QED
  BY <1>1 DEF Ready, MayGo, Allows, NoneBelow, Covering, Subtree, Ancestry, Child, Holding

(* The check of a method makes it ready.                                   *)
LEMMA CheckReady ==
    ASSUME Overtaking = FALSE, LockInv, NEW r \in Requests, CheckStep(r)
    PROVE  \E op \in Op : ops'[r] = op /\ Ready(op)
<1>0. TypeInv
  BY DEF LockInv
<1>a. TypeInv'
  BY <1>0, TypeCheckStep
<1>b. ops'[r] \in Op
  BY <1>a DEF TypeInv, OpsOK
<1>c. ASSUME NEW op, Check(r, op) PROVE ops'[r] = op
  BY <1>0, <1>c DEF Check, TypeInv, OpsOK
<1> SUFFICES Ready(ops'[r])
  BY <1>b
<1>1. ASSUME NEW path, NEW tokens, PutOpen(r, path, tokens) PROVE Ready(ops'[r])
  <2>1. ops'[r] = [Idle EXCEPT !.op = "body", !.path = path, !.tokens = tokens]
    BY <1>1, <1>c DEF PutOpen
  <2>2. ops'[r].op = "body"
    BY <2>1 DEF Idle
  <2> QED
    BY <2>2 DEF Ready
<1>2. ASSUME NEW path, NEW tokens, MkcolCheck(r, path, tokens) PROVE Ready(ops'[r])
  <2> DEFINE p == Resolve(Above(path))
  <2>1. /\ Allows(p, tokens) /\ p \in Ids
        /\ Check(r, [Idle EXCEPT !.op = "mkcol", !.dir = p, !.as = Last(path), !.tokens = tokens])
    BY <1>2, IdsAssumption DEF MkcolCheck
  <2>2. ops'[r] = [Idle EXCEPT !.op = "mkcol", !.dir = p, !.as = Last(path), !.tokens = tokens]
    BY <1>c, <2>1
  <2> HIDE DEF p
  <2>3. ops'[r].op = "mkcol" /\ ops'[r].dir = p /\ ops'[r].tokens = tokens
    BY <2>2 DEF Idle
  <2> QED
    BY <2>1, <2>3 DEF Ready
<1>3. ASSUME NEW path \in Paths \cup {<<>>}, path # <<>>, NEW tokens, Resolve(path) # None,
             Allows(Resolve(path), tokens), NoneBelow(Resolve(path), tokens),
             Allows(Resolve(Above(path)), tokens)
      PROVE  MayGo(Resolve(path), tokens) /\ Allows(parent[Resolve(path)], tokens)
  <2>1. path \in Seq(Names) /\ nodes \subseteq Ids
    BY <1>0, InputsOK DEF TypeInv, RowsOK
  <2>2. Resolve(path) \in nodes /\ parent[Resolve(path)] = Resolve(Above(path))
    BY <1>3, <2>1, ResolveStep DEF Child
  <2> QED
    BY <1>3, <2>2 DEF MayGo
<1>4. ASSUME NEW path \in Paths \cup {<<>>}, NEW tokens, DeleteCheck(r, path, tokens)
      PROVE  Ready(ops'[r])
  <2> DEFINE n == Resolve(path)
  <2>1. /\ path # <<>> /\ n # None /\ Allows(n, tokens) /\ NoneBelow(n, tokens)
        /\ Allows(Resolve(Above(path)), tokens)
        /\ Check(r, [Idle EXCEPT !.op = "delete", !.node = n, !.tokens = tokens])
    BY <1>4 DEF DeleteCheck
  <2>2. MayGo(n, tokens) /\ Allows(parent[n], tokens)
    BY <1>3, <2>1
  <2>3. ops'[r] = [Idle EXCEPT !.op = "delete", !.node = n, !.tokens = tokens]
    BY <1>c, <2>1
  <2> HIDE DEF n
  <2>4. ops'[r].op = "delete" /\ ops'[r].node = n /\ ops'[r].tokens = tokens
    BY <2>3 DEF Idle
  <2> QED
    BY <2>2, <2>4 DEF Ready
<1>5. ASSUME NEW from \in Paths \cup {<<>>}, NEW tokens, NEW to \in Paths,
             NEW kind \in {"move", "copy"}, TransferCheck(r, kind, from, to, tokens)
      PROVE  Ready(ops'[r])
  <2> DEFINE n == Resolve(from)
             p == Resolve(Above(to))
             there == Child(p, Last(to))
             over == IF there = {} THEN None ELSE CHOOSE o \in there : TRUE
             op == [Idle EXCEPT !.op = kind, !.node = n, !.dir = p, !.as = Last(to),
                                !.over = over, !.tokens = tokens]
  <2>1. /\ from # <<>> /\ n # None /\ Check(r, op) /\ Allows(p, tokens)
        /\ kind = "move" => MayLeave(from, tokens)
        /\ \A o \in there : Allows(o, tokens) /\ NoneBelow(o, tokens)
    BY <1>5 DEF TransferCheck
  <2>2. kind = "move" => MayGo(n, tokens) /\ Allows(parent[n], tokens)
    BY <1>3, <2>1 DEF MayLeave
  <2>3. over # None => over \in there /\ MayGo(over, tokens)
    BY <2>1 DEF MayGo, Child
  <2>4. ops'[r] = op
    BY <1>c, <2>1
  <2> HIDE DEF n, p, over
  <2>5. /\ ops'[r].op = kind /\ ops'[r].node = n /\ ops'[r].dir = p /\ ops'[r].as = Last(to)
        /\ ops'[r].over = over /\ ops'[r].tokens = tokens
    BY <2>4 DEF Idle
  <2> QED
    BY <2>1, <2>2, <2>3, <2>5 DEF Ready
<1>6. ASSUME NEW path, NEW tokens, NEW deep, LockCheck(r, path, deep, tokens)
      PROVE  Ready(ops'[r])
  <2>1. \/ ops'[r] = [Idle EXCEPT !.op = "lock", !.node = Resolve(path), !.deep = deep,
                                  !.tokens = tokens]
        \/ ops'[r] = [Idle EXCEPT !.op = "lock", !.dir = Resolve(Above(path)),
                                  !.as = Last(path), !.deep = deep, !.tokens = tokens]
    BY <1>6, <1>c DEF LockCheck
  <2>2. ops'[r].op = "lock"
    BY <2>1 DEF Idle
  <2> QED
    BY <2>2 DEF Ready
<1>7. ASSUME PutCheck(r) PROVE Ready(ops'[r])
  <2> DEFINE path == ops[r].path
             tokens == ops[r].tokens
             p == Resolve(Above(path))
  <2>1. /\ Child(p, Last(path)) = {} => Allows(p, tokens)
        /\ \A n \in Child(p, Last(path)) : Allows(n, tokens)
        /\ p \in Ids
    BY <1>7, IdsAssumption DEF PutCheck, Destination
  <2>2. ops'[r] = [Idle EXCEPT !.op = "put", !.dir = p, !.as = Last(path), !.tokens = tokens]
    BY <1>7, <1>c DEF PutCheck
  <2> HIDE DEF p, path, tokens
  <2>3. /\ ops'[r].op = "put" /\ ops'[r].dir = p /\ ops'[r].as = Last(path)
        /\ ops'[r].tokens = tokens
    BY <2>2 DEF Idle
  <2> QED
    BY <2>1, <2>3 DEF Ready
<1>8. ASSUME PutRefused(r) PROVE Ready(ops'[r])
  <2>1. ops'[r].op = "idle"
    BY <1>8, <1>c, IdleIsOp DEF PutRefused
  <2> QED
    BY <2>1 DEF Ready
<1> QED
  BY <1>1, <1>2, <1>4, <1>5, <1>6, <1>7, <1>8 DEF CheckStep

(* At the start nobody writes.                                             *)
LEMMA LockInvInit == Init => LockInv
<1> SUFFICES ASSUME Init PROVE LockInv
  OBVIOUS
<1>1. Writing = {}
  BY IdleIsOp DEF Init, Writing
<1> QED
  BY <1>1, TypeInit DEF LockInv

(* A check needs that nobody is about to write, and so do all other steps: *)
(* nothing comes between what a request has checked and what it writes.    *)
LEMMA LockInvNext ==
    ASSUME Overtaking = FALSE
    PROVE  LockInv /\ [Next]_vars => LockInv'
<1> SUFFICES ASSUME LockInv, [Next]_vars PROVE LockInv'
  OBVIOUS
<1>0. TypeInv /\ TypeInv'
  BY TypeNext DEF LockInv
<1>1. ASSUME NEW r \in Requests, CheckStep(r) PROVE LockInv'
  <2>1. Writing = {} /\ \A q \in Requests \ {r} : ops'[q] = ops[q]
    BY <1>0, <1>1, CheckStepIs DEF Quiet
  <2>2. Writing' \subseteq {r}
    BY <2>1 DEF Writing
  <2>3. Ready(ops[r])'
    BY <1>0, <1>1, CheckStepIs, CheckReady, ReadyKept
  <2>4. \A q \in Writing' : q = r
    BY <2>2
  <2>5. \A q \in Writing' : Ready(ops[q])'
    BY <2>3, <2>4
  <2> QED
    BY <1>0, <2>4, <2>5 DEF LockInv
<1>2. ASSUME NEW r \in Requests, WriteStep(r) PROVE LockInv'
  <2>1. \A q \in Writing : q = r
    BY <1>0, <1>2, WriteStepIs DEF LockInv
  <2>2. Writing' = {}
    BY <1>0, <1>2, <2>1, WriteStepIs, IdleIsOp DEF Writing
  <2> QED
    BY <1>0, <2>2 DEF LockInv
<1>3. ASSUME TableStep \/ RestStep PROVE LockInv'
  <2>1. Writing = {} /\ UNCHANGED ops
    <3>1. Quiet
      BY <1>3 DEF TableStep, RestStep, Refresh, Unlock, Lapse, PurgeExpired, RestMove, RestSend
    <3> QED
      BY <1>0, <1>3, <3>1, TypeTableStep, TypeRestStep DEF Quiet
  <2>2. Writing' = {}
    BY <2>1 DEF Writing
  <2> QED
    BY <1>0, <2>2 DEF LockInv
<1>4. CASE UNCHANGED vars
  <2>1. UNCHANGED <<nodes, parent, name, locks>> /\ ops' = ops
    BY <1>4 DEF vars
  <2>2. Writing' = Writing
    BY <2>1 DEF Writing
  <2>3. ASSUME NEW r \in Writing PROVE Ready(ops[r])'
    <3>1. r \in Requests /\ ops[r] \in Op /\ ops'[r] = ops[r] /\ Ready(ops[r])
      BY <1>0, <2>1 DEF Writing, TypeInv, OpsOK, LockInv
    <3> QED
      BY <1>0, <2>1, <3>1, ReadyKept
  <2> QED
    BY <1>0, <2>2, <2>3 DEF LockInv
<1> QED
  BY <1>1, <1>2, <1>3, <1>4 DEF Next

-----------------------------------------------------------------------------
(* Writes go through a lock *)

(* The way up from a node that is there starts with it.                    *)
LEMMA OnItsAncestry ==
    ASSUME TypeInv, NEW n \in Ids
    PROVE  /\ n \in Ancestry(n) /\ Ancestry(n) \subseteq Ids
           /\ n \in nodes /\ parent[n] \in Ids => Ancestry(n) = {n} \cup Ancestry(parent[n])
           /\ n \notin nodes \/ parent[n] \notin Ids => Ancestry(n) = {n}
<1>1. nodes \in SUBSET Ids /\ IsFiniteSet(Ids)
  BY IdsAssumption DEF TypeInv, RowsOK
<1> QED
  BY <1>1, AncestorsAre, AncestorsStep DEF Ancestry

(* The token that lets a node go is that of a lock on what goes with it,   *)
(* or of one on the node itself.                                           *)
LEMMA GoneCovered ==
    ASSUME TypeInv, NEW n, NEW tokens, MayGo(n, tokens),
           NEW m \in Subtree(n) \cap nodes, Covering(m) # {}
    PROVE  /\ n \in Ancestry(m)
           /\ \E k \in {m, n} : \E l \in Covering(k) : l.token \in tokens
<1>1. nodes \in SUBSET Ids /\ IsFiniteSet(Ids) /\ n \in Ids /\ m \in Ids
  BY IdsAssumption DEF TypeInv, RowsOK, MayGo
<1>2. n \in Ancestry(m) /\ m \in Ancestry(m)
  BY <1>1, OnItsAncestry DEF Subtree
<1>3. PICK l \in Covering(m) : TRUE
  OBVIOUS
<1>4. l \in locks /\ Holding(l) /\ l.node \in nodes /\ l.node \in Ancestry(m)
      /\ (l.node = m \/ l.deep)
  BY <1>2, <1>3 DEF Covering, TypeInv, LocksOK
<1>5. CASE l.node \in Subtree(n)
  BY <1>2, <1>3, <1>4, <1>5 DEF MayGo, NoneBelow
<1>6. CASE l.node \notin Subtree(n)
  <2>1. n \notin Ancestry(l.node)
    BY <1>4, <1>6 DEF Subtree
  <2>2. l.node \in Ancestry(n)
    BY <1>1, <1>2, <1>4, <2>1, AncestorsInLine DEF Ancestry
  <2>3. l.deep
    BY <1>4, <1>6 DEF Subtree
  <2>4. l \in Covering(n)
    BY <1>4, <2>2, <2>3 DEF Covering
  <2> QED
    BY <1>2, <2>4 DEF MayGo, Allows
<1> QED
  BY <1>5, <1>6

(* What goes with a node leaves one collection, the one it was in.         *)
LEMMA OneCollectionLoses ==
    ASSUME TypeInv, NEW n, NEW m \in Subtree(n) \cap nodes, parent[m] \in nodes \ Subtree(n)
    PROVE  m = n
<1>1. m \in Ids /\ parent[m] \in Ids
  BY DEF TypeInv, RowsOK
<1>2. Ancestry(m) = {m} \cup Ancestry(parent[m])
  BY <1>1, OnItsAncestry
<1> QED
  BY <1>2 DEF Subtree

(* A write that puts `gone' in the trash and c where it belongs changes    *)
(* them, what c was in or is in now, and what lost a member to the trash.  *)
LEMMA ChangedOnly ==
    ASSUME NEW r, NEW gone, NEW c, nodes \ gone \subseteq nodes',
           nodes' \subseteq (nodes \ gone) \cup {c},
           \A m \in nodes \ (gone \cup {c}) : parent'[m] = parent[m] /\ name'[m] = name[m],
           NEW n \in Changed(r)
    PROVE  \/ n \in gone \/ n = c
           \/ \E m \in gone \cap nodes : parent[m] = n
           \/ c \in nodes /\ parent[c] = n
           \/ c \in nodes' /\ parent'[c] = n
           \/ ops[r].op = "put" /\ n \in Child(ops[r].dir, ops[r].as)
<1> SUFFICES ASSUME n \notin gone, n # c,
                    ~(ops[r].op = "put" /\ n \in Child(ops[r].dir, ops[r].as))
             PROVE  \/ \E m \in gone \cap nodes : parent[m] = n
                    \/ c \in nodes /\ parent[c] = n
                    \/ c \in nodes' /\ parent'[c] = n
  OBVIOUS
<1>1. n \in nodes /\ n \in nodes' /\ parent'[n] = parent[n] /\ name'[n] = name[n]
  BY DEF Changed
<1>2. Members(n)' # Members(n)
  BY <1>1 DEF Changed
<1>3. {m \in nodes' : parent'[m] = n} # {m \in nodes : parent[m] = n}
  BY <1>2 DEF Members
<1>4. PICK m : (m \in nodes /\ parent[m] = n) # (m \in nodes' /\ parent'[m] = n)
  BY <1>3
<1> QED
  BY <1>4

(* A request that writes what it has checked keeps to the locks.           *)
LEMMA ThroughALock ==
    ASSUME Overtaking = FALSE, LockInv, NEW r \in Requests, WriteStep(r), ops[r].op # "lock",
           NEW n \in Changed(r), Covering(n) # {}
    PROVE  \E m \in Ancestry(n) \cap Changed(r) :
               \E l \in Covering(m) : l.token \in ops[r].tokens
<1> DEFINE o == ops[r]
           tokens == ops[r].tokens
           Kept(x) == \E m \in Ancestry(x) \cap Changed(r) :
                          \E l \in Covering(m) : l.token \in tokens
<1> USE DEF o
<1>0. TypeInv /\ Ready(o) /\ n \in nodes /\ n \in Ids /\ nodes \subseteq Ids /\ None \notin Ids
  BY WriteStepIs, IdsAssumption DEF LockInv, TypeInv, RowsOK, Changed
<1>1. ASSUME Allows(n, tokens) PROVE Kept(n)
  BY <1>0, <1>1, OnItsAncestry DEF Allows
<1>2. ASSUME NEW g, MayGo(g, tokens), n \in Subtree(g) \cap nodes, g \notin nodes'
      PROVE  Kept(n)
  <2>1. g \in Changed(r)
    BY <1>2 DEF Changed, MayGo
  <2>2. /\ g \in Ancestry(n) /\ n \in Ancestry(n)
        /\ \E k \in {n, g} : \E l \in Covering(k) : l.token \in tokens
    BY <1>0, <1>2, GoneCovered, OnItsAncestry
  <2> QED
    BY <2>1, <2>2
<1>3. ASSUME NEW g, n \notin Subtree(g), NEW m \in Subtree(g) \cap nodes, parent[m] = n
      PROVE  n = parent[g]
  BY <1>0, <1>3, OneCollectionLoses
<1>4. CASE UNCHANGED <<treeVars, locks>>
  <2>1. nodes' = nodes /\ parent' = parent /\ name' = name
    BY <1>4 DEF treeVars
  <2>2. Members(n)' = Members(n)
    BY <2>1 DEF Members
  <2>3. o.op = "put" /\ n \in Child(o.dir, o.as)
    BY <1>0, <2>1, <2>2 DEF Changed
  <2> QED
    BY <1>0, <1>1, <2>3 DEF Ready
<1>5. ASSUME NEW isDir, NEW c \in Fresh(isDir), Insert(c, o.dir, o.as), Allows(o.dir, tokens),
             Child(o.dir, o.as) = {}
      PROVE  Kept(n)
  <2>1. c \in Ids \ nodes
    BY <1>5, FreshIs
  <2>2. /\ nodes \ {} \subseteq nodes' /\ nodes' \subseteq (nodes \ {}) \cup {c}
        /\ \A m \in nodes \ ({} \cup {c}) : parent'[m] = parent[m] /\ name'[m] = name[m]
        /\ parent'[c] = o.dir
    BY <1>0, <1>5, <2>1 DEF Insert, TypeInv, RowsOK
  <2>3. n = c \/ n = o.dir
    BY <1>5, <2>1, <2>2, ChangedOnly
  <2> QED
    BY <1>0, <1>1, <1>5, <2>1, <2>3
<1>6. CASE Put(r)
  <2>1. CASE UNCHANGED treeVars
    BY <1>4, <1>6, <2>1 DEF Put, RolledBack
  <2>2. ASSUME NEW c \in Fresh(FALSE), Insert(c, o.dir, o.as), Child(o.dir, o.as) = {}
        PROVE  Kept(n)
    BY <1>0, <1>5, <1>6, <2>2 DEF Put, Ready
  <2> QED
    BY <1>4, <1>6, <2>1, <2>2 DEF Put, PutFile, RolledBack
<1>7. CASE Mkcol(r)
  BY <1>0, <1>4, <1>5, <1>7 DEF Mkcol, RolledBack, Ready
<1>8. CASE Delete(r)
  <2> DEFINE gone == Subtree(o.node) \cap nodes
  <2>1. MayGo(o.node, tokens) /\ Allows(parent[o.node], tokens) /\ o.node \in nodes
    BY <1>0, <1>8 DEF Delete, Ready, MayGo
  <2>2. o.node \in gone
    BY <2>1 DEF Subtree
  <2>3. nodes' = nodes \ gone /\ parent' = Without(parent, gone) /\ name' = Without(name, gone)
    BY <1>8 DEF Delete, Send
  <2> HIDE DEF gone
  <2>4. /\ nodes \ gone \subseteq nodes' /\ nodes' \subseteq (nodes \ gone) \cup {None}
        /\ \A m \in nodes \ (gone \cup {None}) : parent'[m] = parent[m] /\ name'[m] = name[m]
    BY <1>0, <2>3 DEF Without
  <2>5. n \in gone \/ \E m \in gone \cap nodes : parent[m] = n
    BY <1>0, <1>8, <2>3, <2>4, ChangedOnly DEF Delete
  <2>6. CASE n \in gone
    BY <1>2, <2>1, <2>2, <2>3, <2>6 DEF gone
  <2>7. CASE n \notin gone
    <3>1. n = parent[o.node]
      BY <1>0, <1>3, <2>5, <2>7 DEF gone
    <3> QED
      BY <1>1, <2>1, <3>1
  <2> QED
    BY <2>6, <2>7
<1>9. ASSUME NEW c, NEW gone, gone = Cleared(o.over), o.op \in {"move", "copy"}, c \notin gone,
             nodes' = (nodes \ gone) \cup {c}, c \in Ids, Allows(o.dir, tokens),
             parent' = [Without(parent, gone) EXCEPT ![c] = o.dir],
             name' = [Without(name, gone) EXCEPT ![c] = o.as],
             c \in nodes => Allows(c, tokens) /\ Allows(parent[c], tokens)
      PROVE  Kept(n)
  <2>1. /\ nodes \ gone \subseteq nodes' /\ nodes' \subseteq (nodes \ gone) \cup {c}
        /\ \A m \in nodes \ (gone \cup {c}) : parent'[m] = parent[m] /\ name'[m] = name[m]
        /\ parent'[c] = o.dir
    BY <1>0, <1>9 DEF Without
  <2>2. \/ n \in gone \/ n = c \/ \E m \in gone \cap nodes : parent[m] = n
        \/ c \in nodes /\ parent[c] = n
        \/ n = o.dir
    BY <1>9, <2>1, ChangedOnly
  <2>3. CASE n \in gone \/ \E m \in gone \cap nodes : parent[m] = n
    <3>1. o.over # None /\ gone = Subtree(o.over) \cap nodes
      BY <1>9, <2>3 DEF Cleared
    <3>2. MayGo(o.over, tokens) /\ parent[o.over] = o.dir /\ o.over \in nodes
      BY <1>0, <1>9, <3>1 DEF Ready, Child
    <3>3. o.over \in gone
      BY <3>1, <3>2 DEF Subtree
    <3>4. o.over \notin nodes'
      BY <1>9, <3>3
    <3>5. CASE n \in gone
      BY <1>2, <3>1, <3>2, <3>4, <3>5
    <3>6. CASE n \notin gone
      <4>1. n = parent[o.over]
        BY <1>0, <1>3, <2>3, <3>1, <3>6
      <4> QED
        BY <1>1, <1>9, <3>2, <4>1
    <3> QED
      BY <3>5, <3>6
  <2> QED
    BY <1>0, <1>1, <1>9, <2>2, <2>3
<1>10. CASE Move(r)
  <2> DEFINE gone == Cleared(o.over)
  <2>1. CASE UNCHANGED <<treeVars, locks>>
    BY <1>4, <2>1
  <2>2. CASE /\ o.node \notin gone /\ o.node \in nodes /\ nodes' = nodes \ gone
             /\ parent' = [Without(parent, gone) EXCEPT ![o.node] = o.dir]
             /\ name' = [Without(name, gone) EXCEPT ![o.node] = o.as]
    <3>1. /\ o.op = "move" /\ Allows(o.dir, tokens) /\ Allows(o.node, tokens)
          /\ Allows(parent[o.node], tokens)
      BY <1>0, <1>10 DEF Move, Ready, MayGo
    <3>2. nodes' = (nodes \ gone) \cup {o.node} /\ o.node \in Ids
      BY <1>0, <2>2
    <3> HIDE DEF gone
    <3> QED
      BY <1>9, <2>2, <3>1, <3>2 DEF gone
  <2> QED
    BY <1>10, <2>1, <2>2 DEF Move, RolledBack
<1>11. CASE Copy(r)
  <2> DEFINE gone == Cleared(o.over)
  <2>1. CASE UNCHANGED <<treeVars, locks>>
    BY <1>4, <2>1
  <2>2. ASSUME NEW c \in Fresh(o.node \in Dirs), nodes' = (nodes \ gone) \cup {c},
               parent' = [Without(parent, gone) EXCEPT ![c] = o.dir],
               name' = [Without(name, gone) EXCEPT ![c] = o.as]
        PROVE  Kept(n)
    <3>1. c \in Ids \ nodes
      BY <2>2, FreshIs
    <3>2. c \notin gone
      BY <3>1 DEF Cleared
    <3>3. o.op = "copy" /\ Allows(o.dir, tokens)
      BY <1>0, <1>11 DEF Copy, Ready
    <3> HIDE DEF gone
    <3> QED
      BY <1>9, <2>2, <3>1, <3>2, <3>3 DEF gone
  <2> QED
    BY <1>11, <2>1, <2>2 DEF Copy, RolledBack
<1> QED
  BY <1>6, <1>7, <1>8, <1>10, <1>11 DEF WriteStep, LockTake, LockNew

(* A write without the token answers 423, for every tree and any number of *)
(* requests: a method that nobody overtakes between its checks and its     *)
(* writes changes a node that a lock covers only for a client that         *)
(* submitted the token of a lock on it, or on a directory that it goes     *)
(* along with.  A PUT is no exception, however long its body takes.        *)
THEOREM WritesGoThroughLocks ==
    ASSUME Overtaking = FALSE
    PROVE  Spec => OnlyThroughALock
<1>1. LockInv /\ [Next]_vars =>
        [\A r \in Requests : Writes(r) /\ ops[r].op # "lock" =>
          \A n \in Changed(r) : Covering(n) # {} =>
              \E m \in Ancestry(n) \cap Changed(r) :
                  \E l \in Covering(m) : l.token \in ops[r].tokens]_vars
  BY WritesIsOwn, ThroughALock DEF LockInv
<1>2. LockInv /\ [Next]_vars => LockInv'
  BY LockInvNext
<1> QED
  BY <1>1, <1>2, LockInvInit, PTL DEF Spec, OnlyThroughALock

-----------------------------------------------------------------------------
(* Paths to what is locked *)

(* The unique index on parent and name, and the root, which has neither.   *)
Siblings ==
    /\ \A n, m \in nodes : parent[n] = parent[m] /\ name[n] = name[m] => n = m
    /\ \A n \in nodes : parent[n] = None => name[n] = None

PathInv == LockInv /\ Siblings

(* A step takes the nodes `out' from where they are and puts c, one of     *)
(* them or a new one, at a place that is free without them.                *)
Placed(out, c) ==
    /\ nodes' \subseteq (nodes \ out) \cup {c}
    /\ \A m \in nodes \ out : m # c /\ m \in nodes' /\ parent'[m] = parent[m] /\ name'[m] = name[m]
    /\ c \in nodes' => Child(parent'[c], name'[c]) \subseteq out /\ parent'[c] \in Ids

(* Such a step leaves no two nodes of one name in a directory.             *)
LEMMA PlacedKeepsSiblings ==
    ASSUME TypeInv, Siblings, NEW out, NEW c, Placed(out, c)
    PROVE  Siblings'
<1>0. nodes \subseteq Ids /\ None \notin Ids
  BY IdsAssumption DEF TypeInv, RowsOK
<1>1. ASSUME NEW n \in nodes', NEW m \in nodes', parent'[n] = parent'[m], name'[n] = name'[m],
             n # m
      PROVE  FALSE
  <2>1. CASE n # c /\ m # c
    BY <1>1, <2>1 DEF Placed, Siblings
  <2>2. ASSUME NEW x \in nodes', x # c, c \in nodes', parent'[x] = parent'[c],
               name'[x] = name'[c]
        PROVE  FALSE
    <3>1. x \in nodes \ out /\ x \in Child(parent'[c], name'[c])
      BY <2>2 DEF Placed, Child
    <3> QED
      BY <2>2, <3>1 DEF Placed
  <2> QED
    BY <1>1, <2>1, <2>2
<1>2. ASSUME NEW n \in nodes', parent'[n] = None PROVE name'[n] = None
  BY <1>0, <1>2 DEF Placed, Siblings
<1> QED
  BY <1>1, <1>2 DEF Siblings

(* The nodes along a path that leads somewhere are there, each one on the  *)
(* way up from where it leads.                                             *)
LEMMA AlongThePath ==
    ASSUME TypeInv, Siblings, NEW path \in Seq(Names), NEW f,
           GoesDown(f, nodes, parent, name, path, Len(path)), f[Len(path)] # None
    PROVE  \A k \in 1 .. Len(path) :
               /\ f[k] \in nodes /\ parent[f[k]] = f[k - 1] /\ name[f[k]] = path[k]
               /\ f[k] \in Ancestry(f[Len(path)])
<1> DEFINE len == Len(path)
<1>0. len \in Nat /\ nodes \subseteq Ids /\ None \notin Ids \cup Names
      /\ (\A k \in 1 .. len : path[k] \in Names) /\ Root \in Ids
  BY IdsAssumption DEF TypeInv, RowsOK
<1>1. f[0] = Root /\ \A k \in 1 .. len :
          f[k] \in ChildOf(nodes, parent, name, f[k - 1], path[k]) \cup {None}
  <2>1. GoesDown(f, nodes, parent, name, path, len)
    OBVIOUS
  <2>2. len \in Nat /\ nodes \subseteq Ids
    BY <1>0
  <2> HIDE DEF len
  <2> QED
    BY <2>1, <2>2, WalkDownIs
<1>2. f[len] # None
  OBVIOUS
<1> HIDE DEF len
<1>3. ASSUME NEW k \in 1 .. len, f[k] = None PROVE FALSE
  <2> DEFINE Good == {j \in 0 .. len : k <= j => f[j] = None}
  <2>1. 0 \in Good
    BY <1>0
  <2>2. ASSUME NEW j \in 0 .. len - 1, j \in Good PROVE j + 1 \in Good
    <3>1. CASE k <= j
      <4>1. f[j] = None /\ j + 1 \in 1 .. len /\ (j + 1) - 1 = j
        BY <1>0, <2>2, <3>1
      <4>2. ChildOf(nodes, parent, name, None, path[j + 1]) = {}
        BY <1>0, <4>1 DEF ChildOf, Siblings
      <4>3. f[j + 1] = None
        BY <1>1, <4>1, <4>2
      <4> QED
        BY <1>0, <4>3
    <3>2. CASE k = j + 1
      BY <1>0, <1>3, <3>2
    <3>3. CASE k > j + 1
      BY <1>0, <3>3
    <3> QED
      BY <1>0, <3>1, <3>2, <3>3
  <2> HIDE DEF Good
  <2>3. \A j \in 0 .. len : j \in Good
    BY <1>0, <2>1, <2>2, UpTo
  <2>4. len \in Good
    BY <1>0, <2>3
  <2> QED
    BY <1>0, <1>2, <2>4 DEF Good
<1>4. ASSUME NEW k \in 1 .. len
      PROVE  f[k] \in nodes /\ parent[f[k]] = f[k - 1] /\ name[f[k]] = path[k]
  BY <1>1, <1>3 DEF ChildOf
<1>5. ASSUME NEW k \in 1 .. len PROVE f[k] \in Ancestry(f[len])
  <2> DEFINE Good == {j \in 0 .. len : k <= j => f[k] \in Ancestry(f[j])}
  <2>1. 0 \in Good
    BY <1>0
  <2>2. ASSUME NEW j \in 0 .. len - 1, j \in Good PROVE j + 1 \in Good
    <3>1. j + 1 \in 1 .. len /\ (j + 1) - 1 = j /\ j + 1 \in 0 .. len
      BY <1>0
    <3>2. f[j + 1] \in nodes /\ f[j + 1] \in Ids /\ parent[f[j + 1]] = f[j]
      BY <1>0, <1>4, <3>1
    <3>3. CASE k <= j
      <4>1. f[j] \in nodes /\ f[j] \in Ids /\ f[k] \in Ancestry(f[j])
        BY <1>0, <1>4, <2>2, <3>3
      <4>2. Ancestry(f[j + 1]) = {f[j + 1]} \cup Ancestry(f[j])
        BY <3>2, <4>1, OnItsAncestry
      <4> QED
        BY <3>1, <4>1, <4>2
    <3>4. CASE k = j + 1
      BY <3>1, <3>2, <3>4, OnItsAncestry
    <3>5. CASE k > j + 1
      BY <1>0, <3>1, <3>5
    <3> QED
      BY <1>0, <3>3, <3>4, <3>5
  <2> HIDE DEF Good
  <2>3. \A j \in 0 .. len : j \in Good
    BY <1>0, <2>1, <2>2, UpTo
  <2>4. len \in Good /\ k <= len
    BY <1>0, <2>3
  <2> QED
    BY <2>4 DEF Good
<1> QED
  BY <1>4, <1>5 DEF len

(* A path goes on leading where it led, unless something on the way there  *)
(* is taken away.                                                          *)
LEMMA PathKept ==
    ASSUME TypeInv, Siblings, TypeInv', NEW out, NEW c, Placed(out, c), NEW path \in Seq(Names),
           Resolve(path) # None, Resolve(path)' # Resolve(path)
    PROVE  \E m \in out \cap nodes : m \in Ancestry(Resolve(path))
<1> DEFINE len == Len(path)
<1>0. len \in Nat /\ nodes \subseteq Ids /\ nodes' \subseteq Ids
  BY DEF TypeInv, RowsOK
<1>1. PICK f : GoesDown(f, nodes, parent, name, path, len) /\ Resolve(path) = f[len]
  BY ResolveIs
<1>2. PICK g : GoesDown(g, nodes', parent', name', path, len) /\ Resolve(path)' = g[len]
  BY ResolveIs
<1>3. \A k \in 1 .. len : /\ f[k] \in nodes /\ parent[f[k]] = f[k - 1] /\ name[f[k]] = path[k]
                          /\ f[k] \in Ancestry(f[len])
  BY <1>1, AlongThePath
<1> HIDE DEF len
<1>4. f[0] = Root /\ \A k \in 1 .. len : f[k] = Below(nodes, parent, name, f[k - 1], path[k])
  BY <1>0, <1>1, WalkDownIs
<1>5. g[0] = Root /\ \A k \in 1 .. len : g[k] = Below(nodes', parent', name', g[k - 1], path[k])
  BY <1>0, <1>2 DEF GoesDown
<1> SUFFICES ASSUME \A k \in 1 .. len : f[k] \notin out PROVE FALSE
  BY <1>1, <1>3
<1> DEFINE Good == {k \in 0 .. len : g[k] = f[k]}
<1>6. 0 \in Good
  BY <1>0, <1>4, <1>5
<1>7. ASSUME NEW j \in 0 .. len - 1, j \in Good PROVE j + 1 \in Good
  <2>1. j + 1 \in 1 .. len /\ (j + 1) - 1 = j /\ j + 1 \in 0 .. len /\ g[j] = f[j]
    BY <1>0, <1>7
  <2> DEFINE n == f[j + 1]
             x == path[j + 1]
  <2>2. n \in nodes \ out /\ parent[n] = f[j] /\ name[n] = x
    BY <1>3, <2>1
  <2>3. ChildOf(nodes, parent, name, f[j], x) = {n}
    BY <2>2 DEF ChildOf, Siblings
  <2>4. n \in ChildOf(nodes', parent', name', f[j], x)
    BY <2>2 DEF ChildOf, Placed
  <2>5. ASSUME NEW m \in ChildOf(nodes', parent', name', f[j], x) PROVE m = n
    <3>1. CASE m # c
      BY <2>3, <2>5, <3>1 DEF ChildOf, Placed
    <3>2. CASE m = c
      BY <2>2, <2>5, <3>2 DEF ChildOf, Placed, Child
    <3> QED
      BY <3>1, <3>2
  <2>6. ChildOf(nodes', parent', name', f[j], x) = {n}
    BY <2>4, <2>5
  <2>7. Below(nodes', parent', name', f[j], x) = Below(nodes, parent, name, f[j], x)
    BY <2>3, <2>6 DEF Below
  <2>8. g[j + 1] = Below(nodes', parent', name', f[j], x)
    BY <1>5, <2>1
  <2>9. f[j + 1] = Below(nodes, parent, name, f[j], x)
    BY <1>4, <2>1
  <2> QED
    BY <2>1, <2>7, <2>8, <2>9
<1> HIDE DEF Good
<1>8. \A k \in 0 .. len : k \in Good
  BY <1>0, <1>6, <1>7, UpTo
<1>9. g[len] = f[len]
  BY <1>0, <1>8 DEF Good
<1> QED
  BY <1>1, <1>2, <1>9

(* The writes of a method put at most one node somewhere, and take away    *)
(* only what holds no lock of others, at any depth.                        *)
LEMMA WriteIsPlaced ==
    ASSUME LockInv, NEW r \in Requests, WriteStep(r)
    PROVE  \E out, c : /\ Placed(out, c)
                       /\ \A l \in locks, m \in out \cap nodes :
                              Holding(l) /\ m \in Ancestry(l.node) => l.token \in ops[r].tokens
<1> DEFINE o == ops[r]
           tokens == ops[r].tokens
           Asked(out) == \A l \in locks, m \in out \cap nodes :
                             Holding(l) /\ m \in Ancestry(l.node) => l.token \in tokens
<1> USE DEF o
<1>0. /\ TypeInv /\ Ready(o) /\ nodes \subseteq Ids /\ None \notin Ids /\ o.dir \in Ids \cup {None}
      /\ TypeInv' /\ \A l \in locks : l.node \in nodes /\ l.node \in Ids
  BY WriteStepIs, TypeWriteStep, IdsAssumption DEF LockInv, TypeInv, RowsOK, LocksOK, OpsOK, Op
<1>1. ASSUME NEW g, MayGo(g, tokens) PROVE Asked(Subtree(g))
  <2> SUFFICES ASSUME NEW l \in locks, NEW m \in Subtree(g) \cap nodes, Holding(l),
                      m \in Ancestry(l.node)
               PROVE  l.token \in tokens
    OBVIOUS
  <2>1. g \in Ancestry(m) /\ m \in Ids
    BY <1>0, OnItsAncestry DEF Subtree
  <2>2. Ancestry(m) \subseteq Ancestry(l.node)
    BY <1>0, IdsAssumption, AncestorsOn DEF Ancestry
  <2>3. l.node \in Subtree(g)
    BY <1>0, <2>1, <2>2 DEF Subtree
  <2> QED
    BY <1>1, <2>3 DEF MayGo, NoneBelow
<1>2. CASE UNCHANGED treeVars
  <2>1. Placed({}, None)
    BY <1>0, <1>2 DEF Placed, treeVars
  <2> QED
    BY <2>1
<1>3. ASSUME NEW isDir, NEW c \in Fresh(isDir), Insert(c, o.dir, o.as), o.dir \in Ids,
             Child(o.dir, o.as) = {}
      PROVE  Placed({}, c)
  <2>1. c \in Ids \ nodes
    BY <1>3, FreshIs
  <2> QED
    BY <1>0, <1>3, <2>1 DEF Placed, Insert, TypeInv, RowsOK
<1>4. CASE Put(r) \/ Mkcol(r)
  <2>1. o.dir \in Ids
    BY <1>0, <1>4 DEF Put, Mkcol, Ready
  <2>2. UNCHANGED treeVars \/ \E isDir : \E c \in Fresh(isDir) :
            Insert(c, o.dir, o.as) /\ Child(o.dir, o.as) = {}
    BY <1>4 DEF Put, PutFile, Mkcol, RolledBack
  <2>3. UNCHANGED treeVars \/ \E c : Placed({}, c)
    BY <1>3, <2>1, <2>2
  <2> QED
    BY <1>2, <2>3
<1>5. CASE LockTake(r)
  BY <1>2, <1>5 DEF LockTake, Take
<1>6. CASE LockNew(r)
  <2>1. o.dir \in Ids
    BY <1>0, <1>6 DEF LockNew
  <2>2. UNCHANGED treeVars \/ \E c \in Fresh(FALSE) :
            Insert(c, o.dir, o.as) /\ Child(o.dir, o.as) = {}
    BY <1>6 DEF LockNew
  <2>3. UNCHANGED treeVars \/ \E c : Placed({}, c)
    BY <1>3, <2>1, <2>2
  <2> QED
    BY <1>2, <2>3
<1>7. CASE Delete(r)
  <2> DEFINE out == Subtree(o.node) \cap nodes
  <2>1. Asked(Subtree(o.node))
    BY <1>0, <1>1, <1>7 DEF Delete, Ready
  <2>2. nodes' = nodes \ out /\ parent' = Without(parent, out) /\ name' = Without(name, out)
    BY <1>7 DEF Delete, Send
  <2>3. Asked(out)
    BY <2>1
  <2> HIDE DEF out
  <2>4. Placed(out, None)
    BY <1>0, <2>2 DEF Placed, Without
  <2> QED
    BY <2>3, <2>4
<1>8. ASSUME o.op \in {"move", "copy"} PROVE Asked(Cleared(o.over))
  <2>1. CASE o.over = None
    BY <2>1 DEF Cleared
  <2>2. CASE o.over # None
    BY <1>0, <1>1, <1>8, <2>2 DEF Cleared, Ready
  <2> QED
    BY <2>1, <2>2
<1>9. CASE Move(r)
  <2> DEFINE gone == Cleared(o.over)
             out == gone \cup {o.node}
  <2>1. CASE UNCHANGED <<treeVars, locks>>
    BY <1>2, <2>1
  <2>2. CASE /\ Child(o.dir, o.as) \subseteq gone /\ o.node \notin gone
             /\ {o.node, o.dir} \subseteq nodes /\ nodes' = nodes \ gone
             /\ parent' = [Without(parent, gone) EXCEPT ![o.node] = o.dir]
             /\ name' = [Without(name, gone) EXCEPT ![o.node] = o.as]
    <3>1. Asked(gone) /\ MayGo(o.node, tokens)
      BY <1>0, <1>8, <1>9 DEF Move, Ready
    <3>2. o.node \in Subtree(o.node)
      BY DEF Subtree
    <3>3. Asked(Subtree(o.node))
      BY <1>1, <3>1
    <3>4. Asked(out)
      BY <3>1, <3>2, <3>3
    <3> HIDE DEF gone
    <3>5. Placed(out, o.node)
      BY <1>0, <2>2 DEF Placed, Without
    <3> HIDE DEF out
    <3> QED
      BY <3>4, <3>5
  <2> QED
    BY <1>9, <2>1, <2>2 DEF Move, RolledBack
<1>10. CASE Copy(r)
  <2> DEFINE gone == Cleared(o.over)
  <2>1. CASE UNCHANGED <<treeVars, locks>>
    BY <1>2, <2>1
  <2>2. ASSUME NEW c \in Fresh(o.node \in Dirs), nodes' = (nodes \ gone) \cup {c},
               Child(o.dir, o.as) \subseteq gone, o.dir \in nodes,
               parent' = [Without(parent, gone) EXCEPT ![c] = o.dir],
               name' = [Without(name, gone) EXCEPT ![c] = o.as]
        PROVE  \E out, d : Placed(out, d) /\ Asked(out)
    <3>1. c \in Ids \ nodes
      BY <2>2, FreshIs
    <3>2. Asked(gone)
      BY <1>8, <1>10 DEF Copy
    <3> HIDE DEF gone
    <3>3. Placed(gone, c)
      BY <1>0, <2>2, <3>1 DEF Placed, Without
    <3> QED
      BY <3>2, <3>3
  <2> QED
    BY <1>10, <2>1, <2>2 DEF Copy, RolledBack
<1> QED
  BY <1>4, <1>5, <1>6, <1>7, <1>9, <1>10 DEF WriteStep

(* Siblings have different names after every step, a REST route's too.     *)
LEMMA PathInvNext ==
    ASSUME Overtaking = FALSE
    PROVE  PathInv /\ [Next]_vars => PathInv'
<1> SUFFICES ASSUME PathInv, [Next]_vars PROVE PathInv'
  OBVIOUS
<1>0. TypeInv /\ LockInv /\ LockInv' /\ Siblings /\ nodes \subseteq Ids /\ None \notin Ids
  BY LockInvNext, IdsAssumption DEF PathInv, LockInv, TypeInv, RowsOK
<1> SUFFICES Siblings'
  BY <1>0 DEF PathInv
<1>1. CASE UNCHANGED <<nodes, parent, name>>
  BY <1>0, <1>1 DEF Siblings
<1>2. ASSUME NEW r \in Requests, WriteStep(r) PROVE Siblings'
  BY <1>0, <1>2, WriteIsPlaced, PlacedKeepsSiblings
<1>3. ASSUME NEW n \in Ids, NEW p \in Dirs, NEW x \in Names, RestMove(n, p, x)
      PROVE  Siblings'
  <2>1. Placed({n}, n)
    BY <1>0, <1>3 DEF RestMove, Placed, TypeInv, RowsOK
  <2> QED
    BY <1>0, <2>1, PlacedKeepsSiblings
<1>4. ASSUME NEW n \in Ids, RestSend(n) PROVE Siblings'
  <2> DEFINE out == Subtree(n)
  <2>1. nodes' = nodes \ out /\ parent' = Without(parent, out) /\ name' = Without(name, out)
    BY <1>4 DEF RestSend, Send
  <2> HIDE DEF out
  <2>2. Placed(out, None)
    BY <1>0, <2>1 DEF Placed, Without
  <2> QED
    BY <1>0, <2>2, PlacedKeepsSiblings
<1>5. ASSUME NEW r \in Requests, CheckStep(r) PROVE UNCHANGED <<nodes, parent, name>>
  BY <1>0, <1>5, CheckStepIs
<1>6. ASSUME TableStep \/ UNCHANGED vars PROVE UNCHANGED <<nodes, parent, name>>
  BY <1>0, <1>6, TypeTableStep DEF vars
<1> QED
  BY <1>1, <1>2, <1>3, <1>4, <1>5, <1>6 DEF Next, RestStep

(* The root has no siblings.                                               *)
LEMMA PathInvInit == Init => PathInv
BY LockInvInit, IdsAssumption DEF Init, PathInv, Siblings

(* Nothing that somebody holds is taken from below, for every tree and any *)
(* number of requests: where a path led to a locked node and a method ends *)
(* that, however deep below what it trashes or moves the node is, its      *)
(* client submitted the token of that lock.                                *)
THEOREM NothingLockedIsTaken ==
    ASSUME Overtaking = FALSE
    PROVE  Spec => NothingTakenFromBelow
<1>1. PathInv /\ [Next]_vars =>
        [\A r \in Requests : Writes(r) =>
          \A l \in locks :
              Holding(l) /\ (\E path \in Paths : Resolve(path) = l.node
                                                /\ Resolve(path)' # l.node)
                  => l.token \in ops[r].tokens]_vars
  <2> SUFFICES ASSUME PathInv, [Next]_vars, NEW r \in Requests, Writes(r), NEW l \in locks,
                      Holding(l), NEW path \in Paths, Resolve(path) = l.node,
                      Resolve(path)' # l.node
               PROVE  l.token \in ops[r].tokens
    OBVIOUS
  <2>1. TypeInv /\ TypeInv' /\ LockInv /\ Siblings /\ WriteStep(r) /\ path \in Seq(Names)
    BY WritesIsOwn, TypeNext, PathsAssumption DEF PathInv, LockInv
  <2>2. Resolve(path) # None
    BY IdsAssumption DEF PathInv, LockInv, TypeInv, LocksOK, RowsOK
  <2>3. PICK out, c : /\ Placed(out, c)
                      /\ \A m \in out \cap nodes :
                             m \in Ancestry(l.node) => l.token \in ops[r].tokens
    BY <2>1, WriteIsPlaced
  <2>4. \E m \in out \cap nodes : m \in Ancestry(l.node)
    BY <2>1, <2>2, <2>3, PathKept
  <2> QED
    BY <2>3, <2>4
<1>2. PathInv /\ [Next]_vars => PathInv'
  BY PathInvNext
<1> QED
  BY <1>1, <1>2, PathInvInit, PTL DEF Spec, NothingTakenFromBelow
=============================================================================
