------------------------------- MODULE DavLocks -------------------------------
(***************************************************************************)
(* WebDAV write locks (api/src/dav/locks.rs, locking.rs) and the methods   *)
(* that honour them (methods.rs, transfer.rs): LOCK and its refresh,       *)
(* UNLOCK, PUT, MKCOL, DELETE, MOVE and COPY, beside the REST routes,      *)
(* which do not look at locks.                                             *)
(*                                                                         *)
(* A method resolves its path and checks the locks with plain reads, and   *)
(* then writes by node id in the same transaction: two steps, between      *)
(* which others act when Overtaking.  PUT checks once more before them,    *)
(* and receives its body in between, which takes as long as it takes.      *)
(*                                                                         *)
(* Abstracted: one account, so access::locate is the walk down the path; a *)
(* node in the trash is gone with its lock row, which covers nothing there;*)
(* bytes, versions and sums are NodeTree's business; of a copied tree only *)
(* the top is there, the rest being new nodes that no lock names.          *)
(***************************************************************************)
EXTENDS Integers, Sequences, FiniteSets, SequencesExt, Tables

CONSTANTS
    Ids,        \* node ids
    Dirs,       \* those that are directories
    Root,
    Names,
    Paths,      \* request paths: sequences of names
    Tokens,     \* lock tokens, used again once nothing names them
    Requests,   \* concurrent requests
    None,
    Overtaking  \* whether others act between a request's checks and writes

ASSUME IdsAssumption ==
    /\ IsFiniteSet(Ids) /\ Root \in Dirs /\ Dirs \subseteq Ids
    /\ None \notin Ids \cup Names \cup Tokens
ASSUME PathsAssumption == Paths \subseteq Seq(Names) /\ Overtaking \in BOOLEAN

VARIABLES
    nodes,      \* ids that have a row with deleted_at not set
    parent,     \* columns of that row
    name,
    locks,      \* rows of the locks table
    ops         \* what each request has read and is about to write

treeVars == <<nodes, parent, name>>
vars == <<nodes, parent, name, locks, ops>>

(* Whether expires_at has passed; a lapsed row stays until it is deleted.  *)
(* How long it takes (600 s by default, at most 3600) is left open.        *)
Lock == [token : Tokens, node : Ids, deep : BOOLEAN, lapsed : BOOLEAN]

Idle == [op |-> "idle", path |-> <<>>, node |-> None, dir |-> None,
         as |-> None, over |-> None, deep |-> FALSE, tokens |-> {}]
Op == [op : {"idle", "body", "put", "mkcol", "delete", "move", "copy", "lock"},
       path : Paths \cup {<<>>}, node : Ids \cup {None},
       dir : Ids \cup {None}, as : Names \cup {None}, over : Ids \cup {None},
       deep : BOOLEAN, tokens : SUBSET Tokens]

(* The state is well formed, and locks_one_per_node holds: a node has at   *)
(* most one row in the lock table, lapsed ones included, and only a node   *)
(* that is not in the trash has one here.                                  *)
TypeOK ==
    /\ nodes \subseteq Ids
    /\ parent \in [Ids -> Ids \cup {None}]
    /\ name \in [Ids -> Names \cup {None}]
    /\ locks \subseteq Lock
    /\ \A l \in locks : l.node \in nodes
    /\ \A l, k \in locks : l # k => l.node # k.node /\ l.token # k.token
    /\ ops \in [Requests -> Op]

-----------------------------------------------------------------------------
Child(p, x) == {n \in nodes : parent[n] = p /\ name[n] = x}

(* resolve: the node a path leads to, None when there is none.             *)
Resolve(path) ==
    LET at[k \in 0 .. Len(path)] ==
            IF k = 0 THEN Root
            ELSE LET found == Child(at[k - 1], path[k])
                 IN  IF found = {} THEN None ELSE CHOOSE n \in found : TRUE
    IN  at[Len(path)]

(* The ancestry query: n and everything above it.                          *)
Ancestry(n) == Ancestors(parent, n, nodes, Ids)

(* The subtree query: n and what is below it.                              *)
Subtree(n) == {n} \cup {m \in nodes : n \in Ancestry(m)}

Holding(l) == ~l.lapsed

(* covering: the locks in the way of a write to n.                         *)
Covering(n) ==
    {l \in locks : Holding(l) /\ (l.node = n \/ (l.deep /\ l.node \in Ancestry(n)))}

(* allows.  The query has LIMIT 1 and no order: when several locks cover   *)
(* n, any one of them may be the one whose token is asked for.             *)
Allows(n, tokens) ==
    Covering(n) = {} \/ \E l \in Covering(n) : l.token \in tokens

NoneBelow(n, tokens) ==
    \A l \in locks : Holding(l) /\ l.node \in Subtree(n) => l.token \in tokens

Init ==
    /\ nodes = {Root}
    /\ parent = [n \in Ids |-> None] /\ name = [n \in Ids |-> None]
    /\ locks = {}
    /\ ops = [r \in Requests |-> Idle]

-----------------------------------------------------------------------------
(* The checks of a method: the first half of its transaction.              *)
Writing == {r \in Requests : ops[r].op \notin {"idle", "body"}}
Quiet == Overtaking \/ Writing = {}

(* Bounds of the model: a token or an id is free while nothing names it.   *)
FreeTokens ==
    {t \in Tokens : (\A l \in locks : l.token # t) /\ \A r \in Requests : t \notin ops[r].tokens}

(* A new row; ids of the same kind are alike, so the first free one.       *)
Fresh(isDir) ==
    LET named == UNION {{ops[r].node, ops[r].dir, ops[r].over} : r \in Requests}
        free == {n \in Ids \ (nodes \cup named) : (n \in Dirs) = isDir}
    IN  IF free = {} THEN {} ELSE {CHOOSE n \in free : TRUE}

(* If: tokens the client knows; one that names no row is as good as none.  *)
Submitted == SUBSET {l.token : l \in locks}
Above(path) == Front(path)

Check(r, op) ==
    /\ Quiet
    /\ ops' = [ops EXCEPT ![r] = op]
    /\ UNCHANGED <<treeVars, locks>>

(* destination: file_target, then the lock on what is there, or on the     *)
(* directory when nothing is.                                              *)
Destination(path, tokens) ==
    /\ path # <<>>
    /\ LET p == Resolve(Above(path))
           there == Child(p, Last(path))
       IN  /\ p \in Dirs
           /\ IF there = {} THEN Allows(p, tokens) ELSE \A n \in there : Allows(n, tokens)

PutOpen(r, path, tokens) ==
    /\ ops[r] = Idle
    /\ Destination(path, tokens)
    /\ Check(r, [Idle EXCEPT !.op = "body", !.path = path, !.tokens = tokens])

(* Mutant of PutCheck: what was checked before the body is not looked at   *)
(* again after it.                                                         *)
PutCheckOnce(r) ==
    /\ ops[r].op = "body"
    /\ Resolve(Above(ops[r].path)) \in Dirs
    /\ Check(r, [Idle EXCEPT !.op = "put", !.dir = Resolve(Above(ops[r].path)),
                 !.as = Last(ops[r].path), !.tokens = ops[r].tokens])

(* The body has been received: put resolves and checks its path again.     *)
PutCheck(r) ==
    /\ ops[r].op = "body"
    /\ Destination(ops[r].path, ops[r].tokens)
    /\ Check(r, [Idle EXCEPT !.op = "put", !.dir = Resolve(Above(ops[r].path)),
                 !.as = Last(ops[r].path), !.tokens = ops[r].tokens])

PutRefused(r) ==
    /\ ops[r].op = "body"
    /\ ~Destination(ops[r].path, ops[r].tokens)
       \/ \E n \in {Resolve(ops[r].path)} \cap Ids :
              \E l \in Covering(n) : l.token \notin ops[r].tokens
    /\ Check(r, Idle)

MkcolCheck(r, path, tokens) ==
    LET p == Resolve(Above(path))
    IN  /\ ops[r] = Idle /\ path # <<>>
        /\ p \in Dirs /\ Child(p, Last(path)) = {} /\ Fresh(TRUE) # {}
        /\ Allows(p, tokens)
        /\ Check(r, [Idle EXCEPT !.op = "mkcol", !.dir = p, !.as = Last(path), !.tokens = tokens])

DeleteCheck(r, path, tokens) ==
    LET n == Resolve(path)
    IN  /\ ops[r] = Idle /\ path # <<>>
        /\ n # None
        /\ Allows(n, tokens) /\ NoneBelow(n, tokens)
        /\ Allows(Resolve(Above(path)), tokens)
        /\ Check(r, [Idle EXCEPT !.op = "delete", !.node = n, !.tokens = tokens])

(* Mutant of MayLeave: a MOVE looks at the lock of its source, and not at  *)
(* what comes along with it.                                               *)
MayLeaveAlone(from, tokens) ==
    Allows(Resolve(from), tokens) /\ Allows(Resolve(Above(from)), tokens)

(* What a MOVE asks of its source: no lock on it or below it, nor on the   *)
(* collection it leaves.                                                   *)
MayLeave(from, tokens) ==
    /\ Allows(Resolve(from), tokens) /\ NoneBelow(Resolve(from), tokens)
    /\ Allows(Resolve(Above(from)), tokens)

(* transfer::run up to its writes, with Overwrite: T or the destination    *)
(* free.                                                                   *)
TransferCheck(r, op, from, to, tokens) ==
    LET n == Resolve(from)
        p == Resolve(Above(to))
        there == Child(p, Last(to))
    IN  /\ ops[r] = Idle /\ from # <<>> /\ to # <<>>
        /\ n # None /\ p \in Dirs
        /\ op = "copy" => Fresh(n \in Dirs) # {}
        /\ op = "move" => MayLeave(from, tokens)
        /\ Allows(p, tokens)
        /\ \A o \in there :
               /\ o \notin Ancestry(n)
               /\ Allows(o, tokens) /\ NoneBelow(o, tokens)
        /\ Check(r, [Idle EXCEPT !.op = op, !.node = n, !.dir = p, !.as = Last(to),
                     !.over = IF there = {} THEN None ELSE CHOOSE o \in there : TRUE,
                     !.tokens = tokens])

(* LOCK with a body.  On a path nothing is at, empty_file puts an empty    *)
(* file there; the directory is covered by the check of the new node only  *)
(* where its lock is deep.                                                 *)
LockCheck(r, path, deep, tokens) ==
    LET n == Resolve(path)
        p == Resolve(Above(path))
        deepAbove == {l \in locks : Holding(l) /\ l.deep /\ l.node \in Ancestry(p)}
    IN  /\ ops[r] = Idle /\ FreeTokens # {}
        /\ \/ /\ n # None
              /\ Allows(n, tokens)
              /\ Check(r, [Idle EXCEPT !.op = "lock", !.node = n, !.deep = deep, !.tokens = tokens])
           \/ /\ n = None /\ path # <<>> /\ p \in Dirs /\ Fresh(FALSE) # {}
              /\ deepAbove = {} \/ \E l \in deepAbove : l.token \in tokens
              /\ Check(r, [Idle EXCEPT !.op = "lock", !.dir = p, !.as = Last(path), !.deep = deep,
                           !.tokens = tokens])

-----------------------------------------------------------------------------
(* The writes of a method: the second half.  When it cannot do what its    *)
(* checks were for, the transaction is rolled back.                        *)
Done(r) == ops' = [ops EXCEPT ![r] = Idle]
RolledBack(r) == Done(r) /\ UNCHANGED <<treeVars, locks>>

Insert(n, p, x) ==
    /\ nodes' = nodes \cup {n}
    /\ parent' = [parent EXCEPT ![n] = p]
    /\ name' = [name EXCEPT ![n] = x]

(* put_file: over the file of that name, or a new one.                     *)
PutFile(p, x) ==
    \/ Child(p, x) \ Dirs # {} /\ UNCHANGED treeVars
    \/ /\ Child(p, x) = {}
       /\ \E n \in Fresh(FALSE) : Insert(n, p, x)

Put(r) ==
    /\ ops[r].op = "put"
    /\ \/ /\ IF Child(ops[r].dir, ops[r].as) = {} THEN Fresh(FALSE) = {}
             ELSE Child(ops[r].dir, ops[r].as) \subseteq Dirs
          /\ RolledBack(r)
       \/ PutFile(ops[r].dir, ops[r].as) /\ Done(r) /\ UNCHANGED locks

Mkcol(r) ==
    /\ ops[r].op = "mkcol"
    /\ \/ Child(ops[r].dir, ops[r].as) # {} /\ RolledBack(r)
       \/ /\ Child(ops[r].dir, ops[r].as) = {}
          /\ \E n \in Fresh(TRUE) : Insert(n, ops[r].dir, ops[r].as)
          /\ Done(r) /\ UNCHANGED locks

(* trash::send of the nodes `gone`, with the rows that are inserted or     *)
(* moved in the same transaction in nodes', parent' and name'.             *)
Gone(gone) == locks' = {l \in locks : l.node \notin gone}
Without(f, gone) == [n \in Ids |-> IF n \in gone THEN None ELSE f[n]]

Send(gone) ==
    /\ nodes' = nodes \ gone
    /\ parent' = Without(parent, gone) /\ name' = Without(name, gone)
    /\ Gone(gone)

Delete(r) ==
    /\ ops[r].op = "delete"
    /\ Send(Subtree(ops[r].node) \cap nodes)
    /\ Done(r)

Cleared(over) == IF over = None THEN {} ELSE Subtree(over) \cap nodes

(* rename after the occupant went to the trash.                            *)
Move(r) ==
    LET gone == Cleared(ops[r].over)
        n == ops[r].node
        p == ops[r].dir
        refused == \/ n \in Ancestry(p) \/ ~(Child(p, ops[r].as) \subseteq gone)
                   \/ {n, p} \cap gone # {} \/ ~({n, p} \subseteq nodes)
    IN  /\ ops[r].op = "move"
        /\ \/ /\ ~refused
              /\ nodes' = nodes \ gone
              /\ parent' = [Without(parent, gone) EXCEPT ![n] = p]
              /\ name' = [Without(name, gone) EXCEPT ![n] = ops[r].as]
              /\ Gone(gone) /\ Done(r)
           \/ refused /\ RolledBack(r)

Copy(r) ==
    LET gone == Cleared(ops[r].over)
        p == ops[r].dir
        new == Fresh(ops[r].node \in Dirs)
        refused == \/ ops[r].node \in Ancestry(p) \/ ~(Child(p, ops[r].as) \subseteq gone)
                   \/ p \in gone \/ p \notin nodes \/ new = {}
    IN  /\ ops[r].op = "copy"
        /\ \/ /\ ~refused
              /\ \E c \in new :
                     /\ nodes' = (nodes \ gone) \cup {c}
                     /\ parent' = [Without(parent, gone) EXCEPT ![c] = p]
                     /\ name' = [Without(name, gone) EXCEPT ![c] = ops[r].as]
              /\ Gone(gone) /\ Done(r)
           \/ refused /\ RolledBack(r)

-----------------------------------------------------------------------------
(* Mutant of Lapsed: the row of a lapsed lock is left for the sweep.       *)
LapsedKept(n) == {}

(* What take deletes before it inserts.                                    *)
Lapsed(n) == {l \in locks : l.node = n /\ ~Holding(l)}

(* Mutant of Take: no unique index keeps a node from a second lock.        *)
TakeAgain(r, n) ==
    /\ \E t \in FreeTokens :
           locks' = (locks \ Lapsed(n)) \cup
               {[token |-> t, node |-> n, deep |-> ops[r].deep, lapsed |-> FALSE]}
    /\ UNCHANGED treeVars

(* take: 423 when the unique index still finds a row.                      *)
Take(r, n) ==
    LET left == locks \ Lapsed(n)
    IN  \/ /\ \A l \in left : l.node # n
           /\ \E t \in FreeTokens :
                  locks' = left \cup {[token |-> t, node |-> n, deep |-> ops[r].deep,
                                       lapsed |-> FALSE]}
           /\ UNCHANGED treeVars
        \/ (\E l \in left : l.node = n) /\ UNCHANGED <<treeVars, locks>>

LockTake(r) ==
    /\ ops[r].op = "lock" /\ ops[r].node \in nodes
    /\ Take(r, ops[r].node)
    /\ Done(r)

(* The lock of a file that was not there: made empty and locked at once.   *)
LockNew(r) ==
    LET p == ops[r].dir
        x == ops[r].as
    IN  /\ ops[r].op = "lock" /\ p # None
        /\ \/ /\ Child(p, x) = {}
              /\ \E n \in Fresh(FALSE), t \in FreeTokens :
                     /\ Insert(n, p, x)
                     /\ locks' = locks \cup {[token |-> t, node |-> n, deep |-> ops[r].deep,
                                              lapsed |-> FALSE]}
           \/ Child(p, x) # {} /\ UNCHANGED <<treeVars, locks>>
        /\ Done(r)

Refreshed(n, tokens) == {l \in locks : l.node = n /\ l.token \in tokens /\ Holding(l)}

(* LOCK without a body.                                                    *)
Refresh(path, tokens) ==
    LET mine == Refreshed(Resolve(path), tokens)
    IN  /\ Quiet
        /\ mine # {}
        /\ locks' = (locks \ mine) \cup {[l EXCEPT !.lapsed = FALSE] : l \in mine}
        /\ UNCHANGED <<treeVars, ops>>

(* UNLOCK: release deletes by token and node; whether it lapsed is not     *)
(* asked.                                                                  *)
Unlock(path, t) ==
    /\ Quiet
    /\ \E l \in locks :
           /\ l.node = Resolve(path) /\ l.token = t
           /\ locks' = locks \ {l}
    /\ UNCHANGED <<treeVars, ops>>

(* The time a lock was given runs out.                                     *)
Lapse(l) ==
    /\ Quiet
    /\ Holding(l)
    /\ locks' = (locks \ {l}) \cup {[l EXCEPT !.lapsed = TRUE]}
    /\ UNCHANGED <<treeVars, ops>>

PurgeExpired ==
    /\ Quiet
    /\ {l \in locks : ~Holding(l)} # {}
    /\ locks' = {l \in locks : Holding(l)}
    /\ UNCHANGED <<treeVars, ops>>

-----------------------------------------------------------------------------
(* The REST routes: a move, and a send to the trash.                       *)
RestMove(n, p, x) ==
    /\ Quiet
    /\ {n, p} \subseteq nodes /\ n # Root /\ p \in Dirs
    /\ n \notin Ancestry(p)
    /\ Child(p, x) = {}
    /\ parent' = [parent EXCEPT ![n] = p] /\ name' = [name EXCEPT ![n] = x]
    /\ UNCHANGED <<nodes, locks, ops>>

RestSend(n) ==
    /\ Quiet
    /\ n \in nodes \ {Root}
    /\ Send(Subtree(n))
    /\ UNCHANGED ops

-----------------------------------------------------------------------------
CheckStep(r) ==
    \/ \E path \in Paths \cup {<<>>}, tokens \in Submitted :
           \/ PutOpen(r, path, tokens)
           \/ MkcolCheck(r, path, tokens)
           \/ DeleteCheck(r, path, tokens)
           \/ \E to \in Paths, op \in {"move", "copy"} : TransferCheck(r, op, path, to, tokens)
           \/ \E deep \in BOOLEAN : LockCheck(r, path, deep, tokens)
    \/ PutCheck(r) \/ PutRefused(r)

WriteStep(r) ==
    Put(r) \/ Mkcol(r) \/ Delete(r) \/ Move(r) \/ Copy(r) \/ LockTake(r) \/ LockNew(r)

TableStep ==
    \/ \E path \in Paths \cup {<<>>} :
           \/ \E tokens \in Submitted : Refresh(path, tokens)
           \/ \E t \in Tokens : Unlock(path, t)
    \/ \E l \in locks : Lapse(l)
    \/ PurgeExpired

RestStep ==
    \E n \in Ids :
        \/ \E p \in Dirs, x \in Names : RestMove(n, p, x)
        \/ RestSend(n)

Next == (\E r \in Requests : CheckStep(r) \/ WriteStep(r)) \/ TableStep \/ RestStep

Spec == Init /\ [][Next]_vars

-----------------------------------------------------------------------------
(* The nodes r's writes change: where they are, whether they are in the    *)
(* trash, their bytes, or which members they have.                         *)
Members(n) == {m \in nodes : parent[m] = n}
Changed(r) ==
    {n \in nodes : \/ n \notin nodes'
                   \/ ops[r].op = "put" /\ n \in Child(ops[r].dir, ops[r].as)
                   \/ parent'[n] # parent[n] \/ name'[n] # name[n]
                   \/ Members(n)' # Members(n)}

(* r finishes a method that writes.                                        *)
Writes(r) == ops[r].op \notin {"idle", "body"} /\ ops'[r] = Idle

(* A method changes a node that a lock covers only for a client that       *)
(* submitted the token of a lock covering it, or covering a directory that *)
(* it goes along with: "A write without the token answers 423" (README).   *)
(* PUT keeps to it although its body may take longer than it takes         *)
(* somebody to lock the file it was allowed to write.  A LOCK that makes   *)
(* the file it locks does not keep to it: it asks for no token of the      *)
(* collection it adds a member to.                                         *)
OnlyThroughALock ==
    [][\A r \in Requests : Writes(r) /\ ops[r].op # "lock" =>
          \A n \in Changed(r) : Covering(n) # {} =>
              \E m \in Ancestry(n) \cap Changed(r) :
                  \E l \in Covering(m) : l.token \in ops[r].tokens]_vars

(* A path at which somebody holds a lock goes on leading to what is locked:*)
(* what DELETE or an overwriting MOVE or COPY puts in the trash, and what  *)
(* a MOVE takes along, holds no lock whose token was not submitted, at any *)
(* depth: "that includes deleting a folder around a file someone else      *)
(* holds" (README).                                                        *)
NothingTakenFromBelow ==
    [][\A r \in Requests : Writes(r) =>
          \A l \in locks :
              Holding(l) /\ (\E path \in Paths : Resolve(path) = l.node
                                                /\ Resolve(path)' # l.node)
                  => l.token \in ops[r].tokens]_vars

(* A lock that lapsed is gone, whether it was swept or not: it keeps nobody *)
(* who passed the check of LOCK from having one (locks::take), and a late  *)
(* refresh does not bring back what others have been told is over          *)
(* (locks::refresh).                                                       *)
LapsedIsGone ==
    [][/\ \A r \in Requests :
             Writes(r) /\ ops[r].op = "lock" /\ ops[r].node \in nodes
             /\ (\A l \in locks : l.node = ops[r].node => ~Holding(l))
             => \E l \in locks' : l.node = ops[r].node /\ Holding(l)
       /\ \A l \in locks : ~Holding(l) =>
             \A k \in locks' : k.token = l.token /\ k.node = l.node => ~Holding(k)]_vars

=============================================================================
