--------------------------- MODULE SyncEngineProofs ---------------------------
(***************************************************************************)
(* Passes over any tree of paths, with any number of edits and failures:   *)
(* what a plan holds when it is made and what of it still holds when each  *)
(* of its actions is carried out.                                          *)
(***************************************************************************)
EXTENDS SyncEngine, TablesProofs, SequenceTheorems

(* Contents so far.                                                        *)
Known == -PathCount .. edits
KnownEntries == Known \cup {None, Dir}
Trees == [Paths -> KnownEntries]

Deeds == {"CreateLocalDirectory", "CreateRemoteDirectory", "Download", "Upload",
          "DeleteLocal", "DeleteRemote", "RemoveLocalDirectory", "RemoveRemoteDirectory",
          "Forget", "KeepBoth", "SetAside", "SendCopy"}
Conflicts == {"KeepBoth", "SetAside", "SendCopy"}
PlannedActions == [do : Deeds, path : Paths, copy : Paths \cup {None}]

(* The types, with the contents told from those still to come, and what a  *)
(* plan is made of.                                                        *)
TypeInv ==
    /\ local \in Trees /\ remote \in Trees /\ tracked \in Trees /\ saved \in Trees
    /\ scanned \in Trees /\ listed \in Trees
    /\ trash \subseteq Known /\ written \subseteq Known
    /\ bygone \in [{"local", "remote"} -> SUBSET Known]
    /\ phase \in {"idle", "listing", "applying"}
    /\ stamped \subseteq Paths
    /\ edits \in 0 .. MaxEdits /\ trouble \in 0 .. MaxTrouble
    /\ forgetful \in BOOLEAN
    /\ plan \in Seq(PlannedActions)
    /\ \A i \in DOMAIN plan :
          plan[i].do \in Conflicts => plan[i].copy \in Range(CopiesOf[plan[i].path])

(* What held.rs let through.                                               *)
Let(a) ==
    /\ a.do \in {"Upload", "CreateRemoteDirectory"} => ~read_only(a.path)
    /\ a.do \in {"KeepBoth", "SendCopy"} => ~read_only(a.copy)
    /\ a.do \in {"DeleteRemote", "RemoveRemoteDirectory"} => ~read_only(a.path) /\ ~fixed(a.path)
ShareInv == \A i \in DOMAIN plan : Let(plan[i])

(* Every path of the plan is in it once, and the upload of a copy comes    *)
(* first.                                                                  *)
PlanInv ==
    /\ phase # "applying" => plan = <<>>
    /\ \A i, j \in DOMAIN plan : i # j => plan[i].path # plan[j].path
    /\ \A i \in DOMAIN plan : plan[i].do = "SendCopy" => i = 1

(* A name no conflict has taken yet is nowhere.                            *)
CopyInv ==
    /\ \A c \in Copies \ stamped :
          /\ local[c] = None /\ remote[c] = None /\ scanned[c] = None
          /\ tracked[c] = None /\ saved[c] = None
    /\ \A i \in DOMAIN plan :
          /\ plan[i].path \notin Copies \ stamped
          /\ plan[i].do \in {"KeepBoth", "SetAside"} => plan[i].copy \notin stamped

Hanging(tree) == \A p \in Paths : tree[p] # None => \A q \in Above(p) : tree[q] = Dir
Apart(tree) == \A p, q \in Paths :
                  p # q /\ Folded[p] = Folded[q] => tree[p] = None \/ tree[q] = None

(* What a pass brings to the folder is what it listed, and what is above,  *)
(* none of it like another name.                                           *)
FitInv ==
    /\ Hanging(local) /\ Hanging(remote)
    /\ Apart(local) /\ Apart(scanned)
    /\ phase = "listing" => scanned = local
    /\ phase = "applying" => \A p \in Paths :
          /\ listed[p] # None =>
                /\ \A q \in Above(p) : listed[q] # None
                /\ \A q \in Paths \ {p} :
                      Folded[p] = Folded[q] => scanned[q] = None /\ listed[q] = None
          /\ local[p] # None => scanned[p] # None \/ listed[p] # None \/ p \in Copies
    /\ \A i \in DOMAIN plan :
          plan[i].do \in Conflicts \cup {"CreateLocalDirectory", "Download"}
              => listed[plan[i].path] # None

(* A content is at one path, on both sides.                                *)
Placed(here, there) ==
    \A p, q \in Paths : p # q =>
        /\ here[p] \in Contents => here[q] # here[p] /\ there[q] # here[p]
        /\ there[p] \in Contents => there[q] # there[p]
PlaceInv == Placed(local, remote)

(* Replaced or removed by somebody who saw it, or in the trash.            *)
Spent == trash \cup bygone["local"] \cup bygone["remote"]

(* What is planned for a path still fits it: its entry in the folder, on   *)
(* the server, in the state, and what the pass found on both sides.        *)
Due(do, here, there, known, found, named, spent) ==
    /\ ~(found = Dir /\ named = Dir)
    /\ do \in {"Upload", "DeleteLocal", "KeepBoth", "SetAside"} => found \in Contents /\ here = found
    /\ do \in {"Upload", "KeepBoth", "SetAside"} => known # found
    /\ do = "Upload" /\ named \in Contents => named \in spent
    /\ do = "DeleteLocal" => found \in spent
    /\ do = "Download" /\ here \in Contents => here \in spent
    /\ do \in {"KeepBoth", "SetAside"} => there # found
    /\ /\ do \notin {"Upload", "DeleteRemote", "RemoveRemoteDirectory", "CreateRemoteDirectory"}
       /\ there \in Contents
       => there # known
    /\ do \in {"DeleteRemote", "RemoveRemoteDirectory", "CreateRemoteDirectory",
               "RemoveLocalDirectory", "CreateLocalDirectory", "Forget"} => here \notin Contents
    /\ do = "SendCopy" => here = None /\ found \in Contents
PendingInv ==
    /\ \A i \in DOMAIN plan :
          LET a == plan[i] p == a.path c == a.copy IN
          /\ Due(a.do, local[p], remote[p], tracked[p], scanned[p], listed[p], Spent)
          /\ a.do = "SendCopy" =>
                /\ local[c] = scanned[p] /\ tracked[c] = None
                /\ \A j \in DOMAIN plan : plan[j].path # c
    /\ phase = "applying" => \A p \in Paths :
          /\ listed[p] \in Contents => remote[p] = listed[p] \/ listed[p] \in Spent
          /\ scanned[p] = Dir /\ listed[p] = Dir =>
                local[p] \notin Contents /\ (remote[p] \in Contents => remote[p] # tracked[p])

(* A content that is recorded is on both sides, unless it is spent.        *)
Agreed(state) ==
    \A p \in Paths : state[p] \in Contents =>
        state[p] \in Spent \/ (local[p] = state[p] /\ remote[p] = state[p])
AgreedInv == Agreed(tracked) /\ Agreed(saved)

(* What both sides have seen is recorded.                                  *)
SeenHere == bygone["local"] \cup HeldIn(local)
SeenThere == bygone["remote"] \cup HeldIn(remote)
SeenInv ==
    ~forgetful => \A p \in Paths :
        /\ remote[p] \in SeenHere => tracked[p] = remote[p]
        /\ local[p] \in SeenThere => tracked[p] = local[p]
-----------------------------------------------------------------------------
(* Paths: what is above one is the directory it is in and what is above    *)
(* that, and all of it is before it in the order.                          *)
AncestryUpTo(f, n) ==
    f = [p \in 1 .. n |-> IF Parent[p] = 0 THEN {} ELSE {Parent[p]} \cup f[Parent[p]]]

(* The directory a path is in comes before it.                             *)
LEMMA ParentBefore ==
    /\ PathCount \in Nat /\ Paths \subseteq Nat
    /\ \A p \in Paths : /\ Parent[p] \in 0 .. p - 1
                        /\ Parent[p] # 0 => Parent[p] \in Paths /\ Parent[p] < p
<1>1. PathCount \in Nat /\ Parent \in [Paths -> 0 .. PathCount]
      /\ \A p \in Paths : Parent[p] < p
  BY PathsAssumption
<1>2. \A p \in Paths : Parent[p] \in 0 .. PathCount
  BY <1>1
<1> QED
  BY <1>1, <1>2 DEF Paths

(* The walk up is well defined.                                            *)
LEMMA AncestryExists == \E f : AncestryUpTo(f, PathCount)
<1> USE ParentBefore
<1> DEFINE Good == {n \in 0 .. PathCount : \E f : AncestryUpTo(f, n)}
<1>1. 0 \in Good
  <2>1. AncestryUpTo([p \in 1 .. 0 |-> {}], 0)
    BY DEF AncestryUpTo
  <2> QED
    BY <2>1
<1>2. ASSUME NEW n \in 0 .. PathCount - 1, n \in Good PROVE n + 1 \in Good
  <2>1. PICK f : AncestryUpTo(f, n)
    BY <1>2
  <2> DEFINE here == IF Parent[n + 1] = 0 THEN {} ELSE {Parent[n + 1]} \cup f[Parent[n + 1]]
  <2> DEFINE g == [p \in 1 .. n + 1 |-> IF p <= n THEN f[p] ELSE here]
  <2>2. ASSUME NEW p \in 1 .. n + 1
        PROVE  g[p] = IF Parent[p] = 0 THEN {} ELSE {Parent[p]} \cup g[Parent[p]]
    <3>0. p \in Paths
      BY DEF Paths
    <3>1. Parent[p] \in 0 .. n
      BY <3>0
    <3>2. Parent[p] # 0 => g[Parent[p]] = f[Parent[p]]
      BY <3>1
    <3>3. CASE p <= n
      <4>1. g[p] = f[p]
        BY <3>3
      <4>2. p \in 1 .. n
        BY <3>3
      <4>3. f[p] = IF Parent[p] = 0 THEN {} ELSE {Parent[p]} \cup f[Parent[p]]
        BY <2>1, <4>2 DEF AncestryUpTo
      <4> QED
        BY <3>2, <4>1, <4>3
    <3>4. CASE p = n + 1
      <4>1. g[p] = here
        BY <3>4
      <4> QED
        BY <3>2, <3>4, <4>1
    <3> HIDE DEF g
    <3> QED
      BY <3>3, <3>4
  <2>3. AncestryUpTo(g, n + 1)
    <3> HIDE DEF g
    <3>1. g = [p \in 1 .. n + 1 |-> g[p]]
      BY DEF g
    <3> QED
      BY <2>2, <3>1 DEF AncestryUpTo
  <2> QED
    BY <2>3
<1> HIDE DEF Good
<1>3. \A n \in 0 .. PathCount : n \in Good
  BY <1>1, <1>2, UpTo
<1> QED
  BY <1>3 DEF Good

(* One step of the walk up.                                                *)
LEMMA AboveIs ==
    ASSUME NEW p \in Paths
    PROVE  Above(p) = IF Parent[p] = 0 THEN {} ELSE {Parent[p]} \cup Above(Parent[p])
<1>1. PICK f : AncestryUpTo(f, PathCount)
  BY AncestryExists
<1>2. AncestryUpTo(Ancestry, PathCount)
  BY <1>1 DEF AncestryUpTo, Ancestry, Paths
<1> QED
  BY <1>2 DEF AncestryUpTo, Above, Paths

(* Directories come before what is in them.                                *)
LEMMA AboveBefore ==
    ASSUME NEW p \in Paths, NEW q \in Above(p)
    PROVE  q \in Paths /\ q < p
<1> USE ParentBefore
<1> DEFINE Bad == {x \in Paths : \E y \in Above(x) : ~(y \in Paths /\ y < x)}
<1> SUFFICES ASSUME Bad # {} PROVE FALSE
  OBVIOUS
<1>1. Bad \subseteq Paths /\ Bad \subseteq Nat
  OBVIOUS
<1> HIDE DEF Bad
<1>2. PICK x \in Bad : \A y \in Bad : x <= y
  BY <1>1, LeastNatural
<1>x. x \in Paths
  BY <1>1
<1> USE DEF Bad
<1>3. PICK y \in Above(x) : ~(y \in Paths /\ y < x)
  BY <1>2
<1>4. Above(x) = IF Parent[x] = 0 THEN {} ELSE {Parent[x]} \cup Above(Parent[x])
  BY <1>x, AboveIs
<1>5. Parent[x] \in Paths /\ Parent[x] < x /\ y \in Above(Parent[x])
  BY <1>x, <1>3, <1>4
<1>6. Parent[x] \notin Bad
  BY <1>2, <1>5
<1>7. y \in Paths /\ y < Parent[x]
  BY <1>5, <1>6
<1> QED
  BY <1>x, <1>3, <1>5, <1>7

(* What is above what is above a path is above it.                         *)
LEMMA AboveTransitive ==
    ASSUME NEW p \in Paths, NEW q \in Above(p)
    PROVE  Above(q) \subseteq Above(p)
<1> USE ParentBefore
<1> DEFINE Bad == {x \in Paths : \E y \in Above(x) : ~(Above(y) \subseteq Above(x))}
<1> SUFFICES ASSUME Bad # {} PROVE FALSE
  OBVIOUS
<1>1. Bad \subseteq Paths /\ Bad \subseteq Nat
  OBVIOUS
<1> HIDE DEF Bad
<1>2. PICK x \in Bad : \A y \in Bad : x <= y
  BY <1>1, LeastNatural
<1>x. x \in Paths
  BY <1>1
<1> USE DEF Bad
<1>3. PICK y \in Above(x) : ~(Above(y) \subseteq Above(x))
  BY <1>2
<1>4. Above(x) = IF Parent[x] = 0 THEN {} ELSE {Parent[x]} \cup Above(Parent[x])
  BY <1>x, AboveIs
<1>5. Parent[x] \in Paths /\ Parent[x] < x /\ y \in Above(Parent[x])
  BY <1>x, <1>3, <1>4
<1>6. Parent[x] \notin Bad
  BY <1>2, <1>5
<1>7. Above(y) \subseteq Above(Parent[x])
  BY <1>5, <1>6
<1> QED
  BY <1>3, <1>4, <1>5, <1>7

(* A copy is beside its file, nothing is inside it, and it is no other     *)
(* file's copy.                                                            *)
LEMMA CopyOf ==
    ASSUME NEW p \in Paths, NEW c \in Range(CopiesOf[p])
    PROVE  /\ c \in Paths /\ c \in Copies
           /\ Above(c) = Above(p)
           /\ \A q \in Paths : c \in Range(CopiesOf[q]) => q = p
<1>1. c \in Copies
  BY DEF Copies
<1>2. c \in Paths
  BY PathsAssumption DEF Range
<1>3. Parent[c] = Parent[p]
  BY <1>1, CopiesAssumption
<1>4. Above(c) = Above(p)
  BY <1>2, <1>3, AboveIs
<1> QED
  BY <1>1, <1>2, <1>4, CopiesAssumption

(* Nothing is inside a copy.                                               *)
LEMMA CopiesAreLeaves ==
    ASSUME NEW c \in Copies, NEW p \in Paths
    PROVE  c \in Paths /\ c \notin Above(p)
<1> USE ParentBefore
<1>0. c \in Paths
  <2>1. PICK q \in Paths : c \in Range(CopiesOf[q])
    BY DEF Copies
  <2> QED
    BY <2>1, PathsAssumption DEF Range
<1> DEFINE Bad == {x \in Paths : c \in Above(x)}
<1> SUFFICES ASSUME Bad # {} PROVE FALSE
  BY <1>0
<1>1. Bad \subseteq Paths /\ Bad \subseteq Nat
  OBVIOUS
<1> HIDE DEF Bad
<1>2. PICK x \in Bad : \A y \in Bad : x <= y
  BY <1>1, LeastNatural
<1>x. x \in Paths
  BY <1>1
<1> USE DEF Bad
<1>4. Above(x) = IF Parent[x] = 0 THEN {} ELSE {Parent[x]} \cup Above(Parent[x])
  BY <1>x, AboveIs
<1>5. Parent[x] # c
  BY <1>2, CopiesAssumption
<1>6. Parent[x] \in Paths /\ Parent[x] < x /\ c \in Above(Parent[x])
  BY <1>x, <1>2, <1>4, <1>5
<1> QED
  BY <1>2, <1>6

(* The way up is a line: of two paths above a third, one is above the      *)
(* other.                                                                  *)
LEMMA AboveInLine ==
    ASSUME NEW p \in Paths, NEW q \in Above(p), NEW r \in Above(p)
    PROVE  q = r \/ q \in Above(r) \/ r \in Above(q)
<1> USE ParentBefore
<1> DEFINE Bad == {x \in Paths : \E y, z \in Above(x) :
                      ~(y = z \/ y \in Above(z) \/ z \in Above(y))}
<1> SUFFICES ASSUME Bad # {} PROVE FALSE
  OBVIOUS
<1>1. Bad \subseteq Paths /\ Bad \subseteq Nat
  OBVIOUS
<1> HIDE DEF Bad
<1>2. PICK x \in Bad : \A y \in Bad : x <= y
  BY <1>1, LeastNatural
<1>x. x \in Paths
  BY <1>1
<1> USE DEF Bad
<1>3. PICK y, z \in Above(x) : ~(y = z \/ y \in Above(z) \/ z \in Above(y))
  BY <1>2
<1>4. Above(x) = IF Parent[x] = 0 THEN {} ELSE {Parent[x]} \cup Above(Parent[x])
  BY <1>x, AboveIs
<1>5. Parent[x] \in Paths /\ Parent[x] < x
      /\ y \in Above(Parent[x]) /\ z \in Above(Parent[x])
  BY <1>x, <1>3, <1>4
<1>6. Parent[x] \notin Bad
  BY <1>2, <1>5
<1> QED
  BY <1>3, <1>5, <1>6

(* What is in a share is below it, and what is above a share is the shelf. *)
LEMMA SharesAreClosed ==
    ASSUME NEW p \in Paths, NEW q \in Above(p)
    PROVE  /\ read_only(q) => read_only(p)
           /\ read_only(p) => read_only(q) \/ fixed(q)
<1>0. q \in Paths /\ Above(q) \subseteq Above(p)
  BY AboveBefore, AboveTransitive
<1>1. read_only(q) => read_only(p)
  BY <1>0 DEF read_only, WithinMount, Inside
<1>2. ASSUME read_only(p) PROVE read_only(q) \/ fixed(q)
  <2>1. PICK m \in ReadOnly : p = m \/ m \in Above(p)
    BY <1>2 DEF read_only, WithinMount, Inside
  <2>2. m \in Mounts /\ m \in Paths /\ Parent[m] = Shelf /\ Shelf # 0 /\ Parent[Shelf] = 0
    BY PathsAssumption, SharesAssumption
  <2>3. Shelf \in Paths
    BY <2>2, PathsAssumption DEF Paths
  <2>4. Above(m) = {Shelf}
    BY <2>2, <2>3, AboveIs
  <2>5. CASE p = m
    BY <2>4, <2>5 DEF fixed
  <2>6. CASE m \in Above(p)
    <3>1. q = m \/ q \in Above(m) \/ m \in Above(q)
      BY <2>6, AboveInLine
    <3> QED
      BY <2>1, <2>2, <2>4, <3>1 DEF fixed, read_only, WithinMount, Inside
  <2> QED
    BY <2>1, <2>5, <2>6
<1> QED
  BY <1>1, <1>2

-----------------------------------------------------------------------------
(* Plans: what a loop keeps, what reconcile decides and what held.rs lets  *)
(* through.                                                                *)
KeptUpTo(f, s, S, n) ==
    f = [k \in 0 .. n |-> IF k = 0 THEN <<>>
                          ELSE IF s[k] \in S THEN Append(f[k - 1], s[k]) ELSE f[k - 1]]

(* The loop is well defined.                                               *)
LEMMA KeptExists ==
    ASSUME NEW s, NEW S, NEW n \in Nat
    PROVE  \E f : KeptUpTo(f, s, S, n)
<1> DEFINE Good == {k \in 0 .. n : \E f : KeptUpTo(f, s, S, k)}
<1>1. 0 \in Good
  <2>1. KeptUpTo([k \in 0 .. 0 |-> <<>>], s, S, 0)
    BY DEF KeptUpTo
  <2> QED
    BY <2>1
<1>2. ASSUME NEW k \in 0 .. n - 1, k \in Good PROVE k + 1 \in Good
  <2>1. PICK f : KeptUpTo(f, s, S, k)
    BY <1>2
  <2> DEFINE last == IF s[k + 1] \in S THEN Append(f[k], s[k + 1]) ELSE f[k]
  <2> DEFINE g == [j \in 0 .. k + 1 |-> IF j <= k THEN f[j] ELSE last]
  <2>2. ASSUME NEW j \in 0 .. k + 1
        PROVE  g[j] = IF j = 0 THEN <<>>
                      ELSE IF s[j] \in S THEN Append(g[j - 1], s[j]) ELSE g[j - 1]
    <3>1. CASE j <= k
      <4>1. g[j] = f[j] /\ (j # 0 => g[j - 1] = f[j - 1])
        BY <3>1
      <4>2. j \in 0 .. k
        BY <3>1
      <4>3. f[j] = IF j = 0 THEN <<>>
                   ELSE IF s[j] \in S THEN Append(f[j - 1], s[j]) ELSE f[j - 1]
        BY <2>1, <4>2 DEF KeptUpTo
      <4> HIDE DEF g
      <4> QED
        BY <4>1, <4>3
    <3>2. CASE j = k + 1
      <4>1. g[j] = last /\ g[j - 1] = f[k] /\ j # 0
        BY <3>2
      <4> HIDE DEF g
      <4> QED
        BY <3>2, <4>1
    <3> QED
      BY <3>1, <3>2
  <2>3. KeptUpTo(g, s, S, k + 1)
    <3> HIDE DEF g
    <3>1. g = [j \in 0 .. k + 1 |-> g[j]]
      BY DEF g
    <3> QED
      BY <2>2, <3>1 DEF KeptUpTo
  <2> QED
    BY <2>3
<1> HIDE DEF Good
<1>3. \A k \in 0 .. n : k \in Good
  BY <1>1, <1>2, UpTo
<1> QED
  BY <1>3 DEF Good

(* What is kept of a sequence: members of S, each from a place of its own. *)
LEMMA KeptIs ==
    ASSUME NEW A, NEW s \in Seq(A), NEW S
    PROVE  /\ Kept(s, S) \in Seq(A)
           /\ \A i \in DOMAIN Kept(s, S) :
                 Kept(s, S)[i] \in S /\ \E k \in DOMAIN s : Kept(s, S)[i] = s[k]
           /\ (\A k, m \in DOMAIN s : k # m => s[k] # s[m]) =>
                 \A i, j \in DOMAIN Kept(s, S) : i # j => Kept(s, S)[i] # Kept(s, S)[j]
<1> DEFINE n == Len(s)
<1>0. n \in Nat /\ DOMAIN s = 1 .. n
  OBVIOUS
<1>a. \E f : KeptUpTo(f, s, S, Len(s))
  BY <1>0, KeptExists
<1>b. \E f : KeptUpTo(f, s, S, Len(s)) /\ Kept(s, S) = f[Len(s)]
  BY <1>a DEF Kept, KeptUpTo
<1>1. PICK f : KeptUpTo(f, s, S, n) /\ Kept(s, S) = f[n]
  BY <1>b
<1>2. Kept(s, S) = f[n]
  BY <1>1
<1> HIDE DEF n
<1>3. f[0] = <<>>
      /\ \A k \in 0 .. n - 1 :
            f[k + 1] = IF s[k + 1] \in S THEN Append(f[k], s[k + 1]) ELSE f[k]
  <2>1. \A k \in 0 .. n : f[k] = IF k = 0 THEN <<>>
                ELSE IF s[k] \in S THEN Append(f[k - 1], s[k]) ELSE f[k - 1]
    BY <1>1 DEF KeptUpTo
  <2> QED
    BY <1>0, <2>1
<1> DEFINE From(k) == /\ f[k] \in Seq(A)
                      /\ \A i \in DOMAIN f[k] : f[k][i] \in S /\ \E m \in 1 .. k : f[k][i] = s[m]
           Apiece(k) == \A i, j \in DOMAIN f[k] : i # j => f[k][i] # f[k][j]
           Good == {k \in 0 .. n : From(k) /\
                       ((\A a, b \in DOMAIN s : a # b => s[a] # s[b]) => Apiece(k))}
<1>4. 0 \in Good
  <2>1. f[0] \in Seq(A) /\ DOMAIN f[0] = {} /\ 0 \in 0 .. n
    BY <1>0, <1>3
  <2> QED
    BY <2>1
<1>5. ASSUME NEW k \in 0 .. n - 1, k \in Good PROVE k + 1 \in Good
  <2> DEFINE t == f[k] x == s[k + 1]
  <2>1. t \in Seq(A) /\ x \in A /\ k + 1 \in DOMAIN s /\ From(k)
    BY <1>0, <1>5
  <2>2. CASE x \in S
    <3>1. f[k + 1] = Append(t, x)
      BY <1>3, <2>2
    <3>2. /\ f[k + 1] \in Seq(A) /\ DOMAIN f[k + 1] = 1 .. Len(t) + 1
          /\ DOMAIN t = 1 .. Len(t) /\ Len(t) \in Nat
          /\ f[k + 1][Len(t) + 1] = x
          /\ \A i \in 1 .. Len(t) : f[k + 1][i] = t[i]
      BY <2>1, <3>1
    <3>3. From(k + 1)
      <4> SUFFICES ASSUME NEW i \in DOMAIN f[k + 1]
                   PROVE  f[k + 1][i] \in S /\ \E m \in 1 .. k + 1 : f[k + 1][i] = s[m]
        BY <3>2
      <4>1. CASE i = Len(t) + 1
        BY <1>0, <2>2, <3>2, <4>1
      <4>2. CASE i \in 1 .. Len(t)
        <5>1. f[k + 1][i] = f[k][i] /\ i \in DOMAIN f[k]
          BY <3>2, <4>2
        <5>2. f[k][i] \in S /\ \E m \in 1 .. k : f[k][i] = s[m]
          BY <2>1, <5>1
        <5> QED
          BY <5>1, <5>2
      <4> QED
        BY <3>2, <4>1, <4>2
    <3>4. ASSUME \A a, b \in DOMAIN s : a # b => s[a] # s[b] PROVE Apiece(k + 1)
      <4>1. Apiece(k)
        BY <1>5, <3>4
      <4>2. \A i \in 1 .. Len(t) : t[i] # x
        <5> TAKE i \in 1 .. Len(t)
        <5>1. PICK m \in 1 .. k : t[i] = s[m]
          BY <2>1, <3>2
        <5>2. m \in DOMAIN s /\ m # k + 1
          BY <1>0
        <5> QED
          BY <2>1, <3>4, <5>1, <5>2
      <4>3. \A i, j \in 1 .. Len(t) : i # j => t[i] # t[j]
        BY <3>2, <4>1
      <4> SUFFICES ASSUME NEW i \in 1 .. Len(t) + 1, NEW j \in 1 .. Len(t) + 1, i # j
                   PROVE  f[k + 1][i] # f[k + 1][j]
        BY <3>2
      <4>4. CASE i = Len(t) + 1
        <5>1. j \in 1 .. Len(t)
          BY <3>2, <4>4
        <5> QED
          BY <3>2, <4>2, <4>4, <5>1
      <4>5. CASE j = Len(t) + 1
        <5>1. i \in 1 .. Len(t)
          BY <3>2, <4>5
        <5> QED
          BY <3>2, <4>2, <4>5, <5>1
      <4>6. CASE i # Len(t) + 1 /\ j # Len(t) + 1
        <5>1. i \in 1 .. Len(t) /\ j \in 1 .. Len(t)
          BY <3>2, <4>6
        <5> QED
          BY <3>2, <4>3, <5>1
      <4> QED
        BY <4>4, <4>5, <4>6
    <3> HIDE DEF From, Apiece
    <3> QED
      BY <1>0, <3>3, <3>4
  <2>3. CASE x \notin S
    <3>1. f[k + 1] = f[k]
      BY <1>3, <2>3
    <3>2. From(k + 1)
      <4>1. \A i \in DOMAIN f[k] : \E m \in 1 .. k + 1 : f[k][i] = s[m]
        <5> TAKE i \in DOMAIN f[k]
        <5>1. PICK m \in 1 .. k : f[k][i] = s[m]
          BY <2>1
        <5>2. m \in 1 .. k + 1
          OBVIOUS
        <5> QED
          BY <5>1, <5>2
      <4> QED
        BY <2>1, <3>1, <4>1
    <3>3. ASSUME \A a, b \in DOMAIN s : a # b => s[a] # s[b] PROVE Apiece(k + 1)
      BY <1>5, <3>1, <3>3
    <3> HIDE DEF From, Apiece
    <3> QED
      BY <1>0, <3>2, <3>3
  <2> QED
    BY <2>2, <2>3
<1> HIDE DEF Good
<1>6. \A k \in 0 .. n : k \in Good
  BY <1>0, <1>4, <1>5, UpTo
<1>7. From(n) /\ ((\A a, b \in DOMAIN s : a # b => s[a] # s[b]) => Apiece(n))
  BY <1>0, <1>6 DEF Good
<1> QED
  BY <1>0, <1>2, <1>7

(* The name a conflict gives to the local copy is a new one.               *)
LEMMA ConflictCopy ==
    ASSUME NEW p \in Paths
    PROVE  conflict_copy(p) = None \/ conflict_copy(p) \in Range(CopiesOf[p]) \ stamped
<1> DEFINE I == {i \in 1 .. Len(CopiesOf[p]) : CopiesOf[p][i] \notin stamped}
<1>0. CopiesOf[p] \in Seq(Paths)
  BY PathsAssumption
<1>1. conflict_copy(p) = LET i == IF I # {} THEN Min(I) ELSE 0
                         IN  IF i = 0 THEN None ELSE CopiesOf[p][i]
  BY DEF conflict_copy, SelectInSeq
<1>2. CASE I = {}
  BY <1>1, <1>2
<1>3. CASE I # {}
  <2>1. I \subseteq Nat
    BY <1>0
  <2> HIDE DEF I
  <2>2. \E x \in I : \A y \in I : x <= y
    BY <1>3, <2>1, LeastNatural
  <2>3. Min(I) \in I
    BY <2>2 DEF Min
  <2> USE DEF I
  <2>4. Min(I) \in 1 .. Len(CopiesOf[p]) /\ CopiesOf[p][Min(I)] \notin stamped
    BY <2>3
  <2> HIDE DEF I
  <2>5. CopiesOf[p][Min(I)] \in Range(CopiesOf[p])
    <3>1. DOMAIN CopiesOf[p] = 1 .. Len(CopiesOf[p])
      BY <1>0
    <3> QED
      BY <2>4, <3>1 DEF Range
  <2>6. conflict_copy(p) = CopiesOf[p][Min(I)]
    BY <1>0, <1>1, <1>3, <2>4
  <2> QED
    BY <2>4, <2>5, <2>6
<1> QED
  BY <1>2, <1>3

(* What an entry of a plan says of its path.                               *)
Decided == Deeds \ {"SetAside", "SendCopy"}
Proper(s, l, r, base, V) ==
    /\ s \in Seq(PlannedActions)
    /\ \A i \in DOMAIN s : /\ s[i].do = Verdict(s[i].path, l, r, base) /\ s[i].do \in V
                           /\ s[i].copy = conflict_copy(s[i].path)
    /\ \A i, j \in DOMAIN s : i # j => s[i].path # s[j].path

(* reconcile's lists, one for each kind of action.                         *)
PlannedFor(l, r, base, V) ==
    LET chosen == Kept(Ordered, {p \in Paths : Verdict(p, l, r, base) \in V})
    IN  [i \in DOMAIN chosen |->
            [do |-> Verdict(chosen[i], l, r, base), path |-> chosen[i],
             copy |-> conflict_copy(chosen[i])]]

(* Each list has the paths its verdicts are about, once each.              *)
LEMMA PlannedIsProper ==
    ASSUME NEW l, NEW r, NEW base, NEW V \in SUBSET Decided
    PROVE  Proper(PlannedFor(l, r, base, V), l, r, base, V)
<1> DEFINE S == {p \in Paths : Verdict(p, l, r, base) \in V}
           chosen == Kept(Ordered, S)
           s == PlannedFor(l, r, base, V)
<1>1. Ordered \in Seq(Paths) /\ DOMAIN Ordered = Paths /\ \A p \in Paths : Ordered[p] = p
  BY ParentBefore DEF Ordered, Paths
<1>2. \A k, m \in DOMAIN Ordered : k # m => Ordered[k] # Ordered[m]
  BY <1>1
<1> HIDE DEF S
<1>3. /\ chosen \in Seq(Paths)
      /\ \A i \in DOMAIN chosen : chosen[i] \in S
      /\ \A i, j \in DOMAIN chosen : i # j => chosen[i] # chosen[j]
  BY <1>1, <1>2, KeptIs
<1> USE DEF S
<1>4. \A i \in DOMAIN chosen : chosen[i] \in Paths /\ Verdict(chosen[i], l, r, base) \in V
  BY <1>3
<1> HIDE DEF S
<1>5. s = [i \in DOMAIN chosen |-> [do |-> Verdict(chosen[i], l, r, base), path |-> chosen[i],
                                    copy |-> conflict_copy(chosen[i])]]
  BY DEF PlannedFor, S
<1> HIDE DEF s, chosen
<1>6. \A p \in Paths : conflict_copy(p) \in Paths \cup {None}
  <2> TAKE p \in Paths
  <2>1. conflict_copy(p) = None \/ conflict_copy(p) \in Range(CopiesOf[p])
    BY ConflictCopy
  <2> QED
    BY <2>1, CopyOf
<1>7. V \subseteq Deeds
  BY DEF Decided
<1>8. DOMAIN s = DOMAIN chosen /\ DOMAIN chosen = 1 .. Len(chosen) /\ Len(chosen) \in Nat
  BY <1>3, <1>5
<1>9. \A i \in DOMAIN s : s[i] \in PlannedActions
  BY <1>4, <1>5, <1>6, <1>7 DEF PlannedActions
<1>10. s \in Seq(PlannedActions)
  BY <1>5, <1>8, <1>9
<1>11. \A i \in DOMAIN s : /\ s[i].do = Verdict(s[i].path, l, r, base) /\ s[i].do \in V
                           /\ s[i].copy = conflict_copy(s[i].path)
                           /\ s[i].path = chosen[i]
  BY <1>4, <1>5, <1>8
<1> QED
  BY <1>3, <1>8, <1>10, <1>11 DEF Proper, s

(* Lists of different verdicts may follow one another.                     *)
LEMMA ProperJoin ==
    ASSUME NEW l, NEW r, NEW base, NEW V, NEW W, V \cap W = {}, NEW s, NEW t,
           Proper(s, l, r, base, V), Proper(t, l, r, base, W)
    PROVE  Proper(s \o t, l, r, base, V \cup W)
<1> DEFINE u == s \o t
<1>1. /\ s \in Seq(PlannedActions) /\ t \in Seq(PlannedActions) /\ u \in Seq(PlannedActions)
      /\ Len(s) \in Nat /\ Len(t) \in Nat
      /\ DOMAIN s = 1 .. Len(s) /\ DOMAIN t = 1 .. Len(t) /\ DOMAIN u = 1 .. Len(s) + Len(t)
      /\ \A i \in 1 .. Len(s) : u[i] = s[i]
      /\ \A i \in Len(s) + 1 .. Len(s) + Len(t) : u[i] = t[i - Len(s)]
  BY DEF Proper
<1> HIDE DEF u
<1>2. \A i \in DOMAIN u : i \notin DOMAIN s => i - Len(s) \in DOMAIN t /\ u[i] = t[i - Len(s)]
  BY <1>1
<1>3. \A i \in DOMAIN u : i \in DOMAIN s => u[i] = s[i]
  BY <1>1
<1>4. \A i \in DOMAIN u : /\ u[i].do = Verdict(u[i].path, l, r, base) /\ u[i].do \in V \cup W
                          /\ u[i].copy = conflict_copy(u[i].path)
                          /\ i \in DOMAIN s => u[i].do \in V
                          /\ i \notin DOMAIN s => u[i].do \in W
  BY <1>2, <1>3 DEF Proper
<1>5. ASSUME NEW i \in DOMAIN u, NEW j \in DOMAIN u, i # j PROVE u[i].path # u[j].path
  <2>1. CASE i \in DOMAIN s /\ j \in DOMAIN s
    BY <1>3, <1>5, <2>1 DEF Proper
  <2>2. CASE i \notin DOMAIN s /\ j \notin DOMAIN s
    <3>1. i - Len(s) # j - Len(s)
      BY <1>1, <1>5
    <3>2. i - Len(s) \in DOMAIN t /\ u[i] = t[i - Len(s)]
          /\ j - Len(s) \in DOMAIN t /\ u[j] = t[j - Len(s)]
      BY <1>2, <2>2
    <3> QED
      BY <3>1, <3>2 DEF Proper
  <2>3. CASE (i \in DOMAIN s) # (j \in DOMAIN s)
    <3>1. u[i].do # u[j].do
      BY <1>4, <2>3
    <3> QED
      BY <1>4, <3>1
  <2> QED
    BY <2>1, <2>2, <2>3
<1> QED
  BY <1>1, <1>4, <1>5 DEF Proper, u

(* ... and be turned round.                                                *)
LEMMA ProperReverse ==
    ASSUME NEW l, NEW r, NEW base, NEW V, NEW s, Proper(s, l, r, base, V)
    PROVE  Proper(Reverse(s), l, r, base, V)
<1> DEFINE u == Reverse(s)
<1>1. s \in Seq(PlannedActions) /\ Len(s) \in Nat /\ DOMAIN s = 1 .. Len(s)
  BY DEF Proper
<1>2. u = [i \in 1 .. Len(s) |-> s[(Len(s) - i) + 1]]
  BY DEF Reverse
<1> HIDE DEF u
<1>3. DOMAIN u = 1 .. Len(s)
      /\ \A i \in 1 .. Len(s) : (Len(s) - i) + 1 \in DOMAIN s /\ u[i] = s[(Len(s) - i) + 1]
  BY <1>1, <1>2
<1>4. u \in Seq(PlannedActions)
  <2>1. \A i \in 1 .. Len(s) : u[i] \in PlannedActions
    BY <1>1, <1>3
  <2> QED
    BY <1>1, <1>2, <1>3, <2>1
<1>5. \A i \in DOMAIN u : /\ u[i].do = Verdict(u[i].path, l, r, base) /\ u[i].do \in V
                          /\ u[i].copy = conflict_copy(u[i].path)
  BY <1>3 DEF Proper
<1>6. ASSUME NEW i \in DOMAIN u, NEW j \in DOMAIN u, i # j PROVE u[i].path # u[j].path
  <2>1. (Len(s) - i) + 1 # (Len(s) - j) + 1
    BY <1>1, <1>3, <1>6
  <2> QED
    BY <1>3, <2>1 DEF Proper
<1> QED
  BY <1>4, <1>5, <1>6 DEF Proper, u

(* reconcile decides once about every path.                                *)
LEMMA ReconcileIsProper ==
    ASSUME NEW l, NEW r, NEW base
    PROVE  Proper(reconcile(l, r, base), l, r, base, Decided)
<1> DEFINE P(V) == PlannedFor(l, r, base, V)
           V1 == {"CreateLocalDirectory", "CreateRemoteDirectory"}
           V2 == {"Download", "Upload", "KeepBoth"}
           V3 == {"DeleteLocal", "DeleteRemote"}
           V4 == {"RemoveRemoteDirectory"}
           V5 == {"RemoveLocalDirectory"}
           V6 == {"Forget"}
           Fine(s, V) == Proper(s, l, r, base, V)
<1>0. /\ V1 \in SUBSET Decided /\ V2 \in SUBSET Decided /\ V3 \in SUBSET Decided
      /\ V4 \in SUBSET Decided /\ V5 \in SUBSET Decided /\ V6 \in SUBSET Decided
  BY DEF Decided, Deeds
<1>1. reconcile(l, r, base) = P(V1) \o P(V2) \o P(V3) \o Reverse(P(V4)) \o Reverse(P(V5)) \o P(V6)
  BY DEF reconcile, PlannedFor
<1>2. V1 \cup V2 \cup V3 \cup V4 \cup V5 \cup V6 = Decided
  BY DEF Decided, Deeds
<1>3. /\ V1 \cap V2 = {} /\ (V1 \cup V2) \cap V3 = {} /\ (V1 \cup V2 \cup V3) \cap V4 = {}
      /\ (V1 \cup V2 \cup V3 \cup V4) \cap V5 = {}
      /\ (V1 \cup V2 \cup V3 \cup V4 \cup V5) \cap V6 = {}
  OBVIOUS
<1> HIDE DEF V1, V2, V3, V4, V5, V6, P
<1>4. \A V \in SUBSET Decided : Fine(P(V), V)
  BY PlannedIsProper DEF P
<1>5. Fine(Reverse(P(V4)), V4) /\ Fine(Reverse(P(V5)), V5)
  BY <1>0, <1>4, ProperReverse
<1> HIDE DEF Fine
<1>6. Fine(P(V1) \o P(V2), V1 \cup V2)
  BY <1>0, <1>3, <1>4, ProperJoin DEF Fine
<1>7. Fine(P(V1) \o P(V2) \o P(V3), V1 \cup V2 \cup V3)
  BY <1>0, <1>3, <1>4, <1>6, ProperJoin DEF Fine
<1>8. Fine(P(V1) \o P(V2) \o P(V3) \o Reverse(P(V4)), V1 \cup V2 \cup V3 \cup V4)
  BY <1>3, <1>5, <1>7, ProperJoin DEF Fine
<1>9. Fine(P(V1) \o P(V2) \o P(V3) \o Reverse(P(V4)) \o Reverse(P(V5)),
           V1 \cup V2 \cup V3 \cup V4 \cup V5)
  BY <1>3, <1>5, <1>8, ProperJoin DEF Fine
<1>10. Fine(P(V1) \o P(V2) \o P(V3) \o Reverse(P(V4)) \o Reverse(P(V5)) \o P(V6),
            V1 \cup V2 \cup V3 \cup V4 \cup V5 \cup V6)
  BY <1>0, <1>3, <1>4, <1>9, ProperJoin DEF Fine
<1> QED
  BY <1>1, <1>2, <1>10 DEF Fine

(* What a plan says of the path of each of its entries.                    *)
Made(a, l, r, base) ==
    /\ \/ a.do = Verdict(a.path, l, r, base) /\ a.do \in Decided
       \/ a.do = "SetAside" /\ Verdict(a.path, l, r, base) = "KeepBoth"
    /\ a.do \in Conflicts => a.copy \in Range(CopiesOf[a.path]) \ stamped
    /\ Let(a)

(* A conflict is only planned under a name that could be made.             *)
LEMMA KeepBothHasName ==
    ASSUME NEW p \in Paths, NEW l, NEW r, NEW base, Verdict(p, l, r, base) = "KeepBoth"
    PROVE  conflict_copy(p) \in Range(CopiesOf[p]) \ stamped
<1>1. for_file(p, l[p], r[p], base[p]) = "KeepBoth"
  BY DEF Verdict
<1>2. conflict_copy(p) # None
  BY <1>1 DEF for_file
<1> QED
  BY <1>2, ConflictCopy

(* held.rs takes entries out and turns conflicts into asides, no more.     *)
LEMMA PlanIsMade ==
    ASSUME NEW l, NEW r, NEW base
    PROVE  LET s == HeldApply(reconcile(l, r, base))
           IN  /\ s \in Seq(PlannedActions)
               /\ \A i \in DOMAIN s : Made(s[i], l, r, base)
               /\ \A i, j \in DOMAIN s : i # j => s[i].path # s[j].path
<1> DEFINE actions == reconcile(l, r, base)
           uprooted == {a.path : a \in {b \in ToSet(actions) :
                           b.do = "RemoveRemoteDirectory" /\ fixed(b.path)}}
           S == {a \in ToSet(actions) : ~holding(a, uprooted)}
           allowed == Kept(actions, S)
           s == HeldApply(actions)
<1>1. /\ actions \in Seq(PlannedActions)
      /\ \A k \in DOMAIN actions :
            /\ actions[k].do = Verdict(actions[k].path, l, r, base) /\ actions[k].do \in Decided
            /\ actions[k].copy = conflict_copy(actions[k].path)
      /\ \A k, m \in DOMAIN actions : k # m => actions[k].path # actions[m].path
  BY ReconcileIsProper DEF Proper
<1>2. s = [i \in DOMAIN allowed |->
              IF allowed[i].do = "KeepBoth" /\ refuses_upload(allowed[i].copy)
              THEN [allowed[i] EXCEPT !.do = "SetAside"] ELSE allowed[i]]
  BY DEF HeldApply
<1> HIDE DEF actions, uprooted, S
<1>3. /\ allowed \in Seq(PlannedActions)
      /\ \A i \in DOMAIN allowed :
            allowed[i] \in S /\ \E k \in DOMAIN actions : allowed[i] = actions[k]
      /\ (\A k, m \in DOMAIN actions : k # m => actions[k] # actions[m]) =>
            \A i, j \in DOMAIN allowed : i # j => allowed[i] # allowed[j]
  BY <1>1, KeptIs
<1> HIDE DEF allowed, s
<1>4. \A i, j \in DOMAIN allowed : i # j => allowed[i].path # allowed[j].path
  <2>1. \A k, m \in DOMAIN actions : k # m => actions[k] # actions[m]
    BY <1>1
  <2> SUFFICES ASSUME NEW i \in DOMAIN allowed, NEW j \in DOMAIN allowed, i # j
               PROVE  allowed[i].path # allowed[j].path
    OBVIOUS
  <2>2. allowed[i] # allowed[j]
    BY <1>3, <2>1
  <2>3. PICK k \in DOMAIN actions : allowed[i] = actions[k]
    BY <1>3
  <2>4. PICK m \in DOMAIN actions : allowed[j] = actions[m]
    BY <1>3
  <2> QED
    BY <1>1, <2>2, <2>3, <2>4
<1>5. DOMAIN s = DOMAIN allowed /\ Len(allowed) \in Nat /\ DOMAIN allowed = 1 .. Len(allowed)
  BY <1>2, <1>3
<1>6. ASSUME NEW i \in DOMAIN s
      PROVE  s[i] \in PlannedActions /\ Made(s[i], l, r, base) /\ s[i].path = allowed[i].path
  <2> DEFINE a == allowed[i]
  <2>0. a \in PlannedActions /\ a \in S
    BY <1>3, <1>5
  <2>1. PICK k \in DOMAIN actions : a = actions[k]
    BY <1>3, <1>5
  <2>2. a.do = Verdict(a.path, l, r, base) /\ a.do \in Decided /\ a.copy = conflict_copy(a.path)
    BY <1>1, <2>1
  <2>3. ~holding(a, uprooted)
    BY <2>0 DEF S
  <2>4. a.do = "KeepBoth" => a.copy \in Range(CopiesOf[a.path]) \ stamped
    BY <2>0, <2>2, KeepBothHasName DEF PlannedActions
  <2>5. s[i] = IF a.do = "KeepBoth" /\ refuses_upload(a.copy)
               THEN [a EXCEPT !.do = "SetAside"] ELSE a
    BY <1>2, <1>5
  <2> HIDE DEF a
  <2>6. CASE a.do = "KeepBoth" /\ refuses_upload(a.copy)
    <3> DEFINE b == [a EXCEPT !.do = "SetAside"]
    <3>1. s[i] = b
      BY <2>5, <2>6
    <3>2. b \in PlannedActions /\ b.do = "SetAside" /\ b.path = a.path /\ b.copy = a.copy
      BY <2>0 DEF PlannedActions, Deeds
    <3> HIDE DEF b
    <3>3. Made(b, l, r, base)
      BY <2>2, <2>4, <2>6, <3>2 DEF Made, Let
    <3> QED
      BY <3>1, <3>2, <3>3 DEF a
  <2>7. CASE ~(a.do = "KeepBoth" /\ refuses_upload(a.copy))
    <3>1. s[i] = a
      BY <2>5, <2>7
    <3>2. Let(a)
      BY <2>2, <2>3, <2>7 DEF Let, holding, refuses_upload, Decided, Deeds
    <3>3. Made(a, l, r, base)
      BY <2>2, <2>4, <3>2 DEF Made, Decided, Conflicts
    <3> QED
      BY <2>0, <3>1, <3>3 DEF a
  <2> QED
    BY <2>6, <2>7
<1>7. s \in Seq(PlannedActions)
  BY <1>2, <1>5, <1>6
<1>8. \A i, j \in DOMAIN s : i # j => s[i].path # s[j].path
  BY <1>4, <1>5, <1>6
<1> QED
  BY <1>6, <1>7, <1>8 DEF s, actions

-----------------------------------------------------------------------------
(* Trees: what the operations on them leave where.                         *)

(* None, Dir and the contents are told apart.                              *)
LEMMA EntriesApart ==
    ASSUME TypeInv
    PROVE  /\ Known \subseteq Contents
           /\ None \notin Contents /\ Dir \notin Contents /\ None # Dir
           /\ None \notin Known /\ Dir \notin Known
           /\ None \in KnownEntries /\ Dir \in KnownEntries
           /\ \A e \in KnownEntries : e \in Contents => e \in Known
           /\ edits \in Nat /\ PathCount \in Nat /\ MaxEdits \in Nat
<1>1. edits \in 0 .. MaxEdits /\ PathCount \in Nat /\ MaxEdits \in Nat
  BY PathsAssumption, BoundsAssumption DEF TypeInv
<1>2. None \notin Contents /\ Dir \notin Contents /\ None # Dir
  BY BoundsAssumption
<1>3. Known \subseteq Contents
  BY <1>1 DEF Known, Contents
<1> QED
  BY <1>1, <1>2, <1>3 DEF KnownEntries

(* Where the operations put what.                                          *)
LEMMA TreeOps ==
    ASSUME NEW E, None \in E, Dir \in E, NEW t \in [Paths -> E], NEW p \in Paths, NEW e \in E
    PROVE  /\ With(t, p, e) \in [Paths -> E]
           /\ Without(t, p) \in [Paths -> E]
           /\ WithParents(t, p) \in [Paths -> E]
           /\ [t EXCEPT ![p] = e] \in [Paths -> E]
           /\ \A q \in Paths :
                 /\ With(t, p, e)[q] = IF q = p THEN e ELSE IF q \in Above(p) THEN Dir ELSE t[q]
                 /\ WithParents(t, p)[q] = IF q \in Above(p) THEN Dir ELSE t[q]
                 /\ Without(t, p)[q] = IF q = p \/ p \in Above(q) THEN None ELSE t[q]
                 /\ [t EXCEPT ![p] = e][q] = IF q = p THEN e ELSE t[q]
BY DEF With, WithParents, Without, Below, Inside

(* What a tree holds.                                                      *)
LEMMA Holds ==
    ASSUME TypeInv, NEW t \in Trees
    PROVE  /\ HeldIn(t) \subseteq Known
           /\ \A c : c \in HeldIn(t) <=> c \in Contents /\ \E p \in Paths : t[p] = c
<1>1. \A p \in Paths : t[p] \in KnownEntries
  BY DEF Trees
<1> QED
  BY <1>1, EntriesApart DEF HeldIn

(* An edit is a content that was not there before.                         *)
LEMMA EditsAreNew ==
    ASSUME TypeInv, edits < MaxEdits, edits' = edits + 1
    PROVE  /\ Known' = Known \cup {edits + 1} /\ edits + 1 \notin Known
           /\ edits + 1 \in Contents /\ edits + 1 # None /\ edits + 1 # Dir
           /\ edits' \in 0 .. MaxEdits
           /\ Trees \subseteq Trees' /\ KnownEntries \subseteq KnownEntries'
<1>1. edits \in Nat /\ PathCount \in Nat /\ MaxEdits \in Nat
  BY EntriesApart
<1>2. Known' = -PathCount .. edits + 1
  BY DEF Known
<1>3. Known' = Known \cup {edits + 1} /\ edits + 1 \notin Known
  BY <1>1, <1>2 DEF Known
<1>4. edits + 1 \in Contents /\ edits' \in 0 .. MaxEdits
  BY <1>1 DEF Contents
<1>5. edits + 1 # None /\ edits + 1 # Dir
  BY <1>4, EntriesApart
<1>6. KnownEntries' = KnownEntries \cup {edits + 1}
  BY <1>3 DEF KnownEntries
<1>7. Trees \subseteq Trees'
  <2> SUFFICES ASSUME NEW t \in Trees PROVE t \in Trees'
    OBVIOUS
  <2>1. t \in [Paths -> KnownEntries]
    BY DEF Trees
  <2>2. t \in [Paths -> KnownEntries']
    BY <1>6, <2>1
  <2> QED
    BY <2>2 DEF Trees
<1> QED
  BY <1>3, <1>4, <1>5, <1>6, <1>7

(* No other step adds to the contents.                                     *)
LEMMA SameContents ==
    ASSUME edits' = edits
    PROVE  Known' = Known /\ KnownEntries' = KnownEntries /\ Trees' = Trees
BY DEF Known, KnownEntries, Trees

(* The first entry of the plan, and what is left without it.               *)
LEMMA PlanHead ==
    ASSUME TypeInv, plan # <<>>
    PROVE  /\ Len(plan) \in Nat /\ DOMAIN plan = 1 .. Len(plan) /\ 1 \in DOMAIN plan
           /\ Action = plan[1] /\ Action \in PlannedActions
           /\ Action.path \in Paths /\ Action.do \in Deeds
           /\ Action.do \in Conflicts =>
                 /\ Action.copy \in Range(CopiesOf[Action.path])
                 /\ Action.copy \in Paths /\ Action.copy \in Copies
                 /\ Above(Action.copy) = Above(Action.path)
           /\ Tail(plan) \in Seq(PlannedActions)
           /\ DOMAIN Tail(plan) = 1 .. Len(plan) - 1
           /\ \A i \in DOMAIN Tail(plan) :
                 Tail(plan)[i] = plan[i + 1] /\ i + 1 \in DOMAIN plan /\ i + 1 # 1
<1>1. plan \in Seq(PlannedActions)
  BY DEF TypeInv
<1>2. /\ Len(plan) \in Nat /\ DOMAIN plan = 1 .. Len(plan) /\ 1 \in DOMAIN plan
      /\ Action = plan[1] /\ plan[1] \in PlannedActions
      /\ Tail(plan) \in Seq(PlannedActions)
      /\ DOMAIN Tail(plan) = 1 .. Len(plan) - 1
  BY <1>1 DEF Action
<1>3. \A i \in DOMAIN Tail(plan) :
         Tail(plan)[i] = plan[i + 1] /\ i + 1 \in DOMAIN plan /\ i + 1 # 1
  BY <1>1, <1>2
<1>4. Action.path \in Paths /\ Action.do \in Deeds
  BY <1>2 DEF PlannedActions
<1>5. ASSUME Action.do \in Conflicts
      PROVE  /\ Action.copy \in Range(CopiesOf[Action.path])
             /\ Action.copy \in Paths /\ Action.copy \in Copies
             /\ Above(Action.copy) = Above(Action.path)
  <2>1. Action.copy \in Range(CopiesOf[Action.path])
    BY <1>2, <1>5 DEF TypeInv
  <2>2. Action.copy \in Paths /\ Action.copy \in Copies /\ Above(Action.copy) = Above(Action.path)
    BY <1>4, <2>1, CopyOf
  <2> QED
    BY <2>1, <2>2
<1> QED
  BY <1>2, <1>3, <1>4, <1>5

-----------------------------------------------------------------------------
(* The types, whatever users and the network do.                           *)

(* The six trees are trees.                                                *)
FoldersOK ==
    /\ local \in Trees /\ remote \in Trees /\ tracked \in Trees /\ saved \in Trees
    /\ scanned \in Trees /\ listed \in Trees
(* The plan is one.                                                        *)
PlanOK ==
    /\ plan \in Seq(PlannedActions)
    /\ \A i \in DOMAIN plan :
          plan[i].do \in Conflicts => plan[i].copy \in Range(CopiesOf[plan[i].path])
(* What is left.                                                           *)
RestOK ==
    /\ trash \subseteq Known /\ written \subseteq Known
    /\ bygone \in [{"local", "remote"} -> SUBSET Known]
    /\ phase \in {"idle", "listing", "applying"}
    /\ stamped \subseteq Paths
    /\ edits \in 0 .. MaxEdits /\ trouble \in 0 .. MaxTrouble
    /\ forgetful \in BOOLEAN

(* The invariant is its parts.                                             *)
LEMMA TypeParts == TypeInv <=> FoldersOK /\ PlanOK /\ RestOK
BY DEF TypeInv, FoldersOK, PlanOK, RestOK

(* Dropping the first entry, or going on with it, leaves a plan.           *)
LEMMA PlanGoesOn ==
    ASSUME TypeInv, plan # <<>>,
           \/ plan' = Tail(plan)
           \/ /\ Action.do \in Conflicts
              /\ \E d \in Deeds : plan' = <<[Action EXCEPT !.do = d]>> \o Tail(plan)
    PROVE  PlanOK'
<1>1. PlanOK
  BY DEF TypeInv, PlanOK
<1>2. CASE plan' = Tail(plan)
  <2>1. plan' \in Seq(PlannedActions)
    BY <1>2, PlanHead
  <2>2. \A i \in DOMAIN plan' : plan'[i] = plan[i + 1] /\ i + 1 \in DOMAIN plan
    BY <1>2, PlanHead
  <2>3. \A i \in DOMAIN plan' :
            plan'[i].do \in Conflicts => plan'[i].copy \in Range(CopiesOf[plan'[i].path])
    BY <1>1, <2>2 DEF PlanOK
  <2> QED
    BY <2>1, <2>3 DEF PlanOK
<1>3. CASE /\ Action.do \in Conflicts
           /\ \E d \in Deeds : plan' = <<[Action EXCEPT !.do = d]>> \o Tail(plan)
  <2>1. PICK d \in Deeds : plan' = <<[Action EXCEPT !.do = d]>> \o Tail(plan)
    BY <1>3
  <2> DEFINE h == [Action EXCEPT !.do = d]
  <2>2. h \in PlannedActions /\ h.path = Action.path /\ h.copy = Action.copy
    BY PlanHead DEF PlannedActions
  <2>3. Action.copy \in Range(CopiesOf[Action.path])
    BY <1>3, PlanHead
  <2> HIDE DEF h
  <2>4. Tail(plan) \in Seq(PlannedActions) /\ DOMAIN Tail(plan) = 1 .. Len(plan) - 1
    BY PlanHead
  <2>5. /\ plan' \in Seq(PlannedActions) /\ plan'[1] = h
        /\ \A i \in DOMAIN plan' : i # 1 => i - 1 \in DOMAIN Tail(plan) /\ plan'[i] = Tail(plan)[i - 1]
    BY <2>1, <2>2, <2>4 DEF h
  <2>6. ASSUME NEW i \in DOMAIN plan', i # 1 PROVE i \in DOMAIN plan /\ plan'[i] = plan[i]
    <3>1. i \in Nat
      BY <2>5
    <3> QED
      BY <2>5, <2>6, <3>1, PlanHead
  <2>7. ASSUME NEW i \in DOMAIN plan', plan'[i].do \in Conflicts
        PROVE  plan'[i].copy \in Range(CopiesOf[plan'[i].path])
    <3>1. CASE i = 1
      BY <2>2, <2>3, <2>5, <3>1
    <3>2. CASE i # 1
      BY <1>1, <2>6, <2>7, <3>2 DEF PlanOK
    <3> QED
      BY <3>1, <3>2
  <2> QED
    BY <2>5, <2>7 DEF PlanOK
<1> QED
  BY <1>2, <1>3

(* What users do.                                                          *)
LEMMA UsersKeepTypes ==
    ASSUME TypeInv, LocalUser \/ RemoteUser
    PROVE  TypeInv'
<1>1. \E side \in {"local", "remote"}, replaced \in SUBSET Known, saves \in SUBSET {edits + 1} :
         MayEdit(side) /\ Edited(side, replaced, saves)
  <2>1. \A p \in Paths : {local[p]} \cap Contents \subseteq Known
                         /\ {remote[p]} \cap Contents \subseteq Known
    <3>1. \A p \in Paths : local[p] \in KnownEntries /\ remote[p] \in KnownEntries
      BY DEF TypeInv, Trees
    <3> QED
      BY <3>1, EntriesApart
  <2>2. \A S : HeldIn(local) \ S \subseteq Known /\ HeldIn(remote) \ S \subseteq Known
    BY Holds DEF TypeInv
  <2>3. CASE LocalUser
    <3>1. PICK p \in Paths : LocalSave(p) \/ LocalMkdir(p) \/ LocalRemove(p)
      BY <2>3 DEF LocalUser
    <3>2. CASE LocalSave(p)
      BY <2>1, <3>2 DEF LocalSave
    <3>3. CASE LocalMkdir(p)
      BY <3>3 DEF LocalMkdir
    <3>4. CASE LocalRemove(p)
      BY <2>2, <3>4 DEF LocalRemove
    <3> QED
      BY <3>1, <3>2, <3>3, <3>4
  <2>4. CASE RemoteUser
    <3>1. PICK p \in Paths : RemoteSave(p) \/ RemoteMkdir(p) \/ RemoteRemove(p)
      BY <2>4 DEF RemoteUser
    <3>2. CASE RemoteSave(p)
      BY <2>1, <3>2 DEF RemoteSave
    <3>3. CASE RemoteMkdir(p)
      BY <3>3 DEF RemoteMkdir
    <3>4. CASE RemoteRemove(p)
      BY <2>2, <3>4 DEF RemoteRemove
    <3> QED
      BY <3>1, <3>2, <3>3, <3>4
  <2> QED
    BY <2>3, <2>4
<1>2. PICK side \in {"local", "remote"}, replaced \in SUBSET Known, saves \in SUBSET {edits + 1} :
         MayEdit(side) /\ Edited(side, replaced, saves)
  BY <1>1
<1>3. edits < MaxEdits /\ edits' = edits + 1
  BY <1>2 DEF MayEdit, Edited
<1>4. /\ Known' = Known \cup {edits + 1} /\ edits' \in 0 .. MaxEdits
      /\ Trees \subseteq Trees' /\ KnownEntries \subseteq KnownEntries' /\ edits + 1 \in Known'
  BY <1>3, EditsAreNew
<1>5. RestOK'
  <2>1. RestOK
    BY TypeParts
  <2>2. bygone' \in [{"local", "remote"} -> SUBSET Known']
    BY <1>2, <1>4, <2>1 DEF Edited, RestOK
  <2> QED
    BY <1>2, <1>4, <2>1, <2>2 DEF Edited, RestOK, passVars
<1>6. PlanOK'
  BY <1>2, TypeParts DEF Edited, PlanOK, passVars
<1>7. FoldersOK'
  <2>0. FoldersOK
    BY TypeParts
  <2>1. edits + 1 \in KnownEntries' /\ None \in KnownEntries' /\ Dir \in KnownEntries'
    BY <1>4 DEF KnownEntries
  <2>2. local \in Trees' /\ remote \in Trees'
    BY <1>4, <2>0 DEF FoldersOK
  <2>3. \A t \in Trees', p \in Paths :
           /\ [t EXCEPT ![p] = edits + 1] \in Trees' /\ [t EXCEPT ![p] = Dir] \in Trees'
           /\ Without(t, p) \in Trees'
    BY <2>1, TreeOps DEF Trees
  <2>4. local' \in Trees' /\ remote' \in Trees'
    <3>1. CASE LocalUser
      <4>1. PICK p \in Paths : LocalSave(p) \/ LocalMkdir(p) \/ LocalRemove(p)
        BY <3>1 DEF LocalUser
      <4> QED
        BY <2>2, <2>3, <4>1 DEF LocalSave, LocalMkdir, LocalRemove
    <3>2. CASE RemoteUser
      <4>1. PICK p \in Paths : RemoteSave(p) \/ RemoteMkdir(p) \/ RemoteRemove(p)
        BY <3>2 DEF RemoteUser
      <4> QED
        BY <2>2, <2>3, <4>1 DEF RemoteSave, RemoteMkdir, RemoteRemove
    <3> QED
      BY <3>1, <3>2
  <2> QED
    BY <1>2, <1>4, <2>0, <2>4 DEF Edited, FoldersOK, stateVars, passVars
<1> QED
  BY <1>5, <1>6, <1>7 DEF TypeInv, FoldersOK, PlanOK, RestOK

(* A step of a pass adds no content and keeps what users said.             *)
LEMMA PassKeepsTypes ==
    ASSUME TypeInv, UNCHANGED userVars, UNCHANGED trouble \/ Trouble,
           FoldersOK', PlanOK', trash' \subseteq Known, stamped' \subseteq Paths,
           phase' \in {"idle", "listing", "applying"}, forgetful' \in BOOLEAN
    PROVE  TypeInv'
<1>1. edits' = edits /\ written' = written /\ bygone' = bygone
  BY DEF userVars
<1>2. Known' = Known
  BY <1>1, SameContents
<1>3. trouble' \in 0 .. MaxTrouble
  BY BoundsAssumption DEF Trouble, TypeInv
<1>4. RestOK'
  BY <1>1, <1>2, <1>3 DEF TypeInv, RestOK
<1> QED
  BY <1>4 DEF TypeInv, FoldersOK, PlanOK, RestOK

(* What the server does to its tree and what is recorded of it.            *)
LEMMA ServedTypes ==
    ASSUME TypeInv, plan # <<>>, Action.do \in OnServer
    PROVE  /\ Served(Action) \in Trees /\ Recorded(Action) \in Trees
           /\ Serve(Action) => remote' \in Trees /\ trash' \subseteq Known
<1> DEFINE a == Action
<1>1. /\ a.path \in Paths /\ (a.do = "SendCopy" => a.copy \in Paths)
  BY PlanHead DEF Conflicts
<1>2. None \in KnownEntries /\ Dir \in KnownEntries
  BY DEF KnownEntries
<1>3. local \in [Paths -> KnownEntries] /\ remote \in [Paths -> KnownEntries]
      /\ tracked \in [Paths -> KnownEntries] /\ scanned \in [Paths -> KnownEntries]
  BY DEF TypeInv, Trees
<1> HIDE DEF a
<1>4. \A t \in [Paths -> KnownEntries], p \in Paths, e \in KnownEntries :
         /\ With(t, p, e) \in Trees /\ Without(t, p) \in Trees /\ [t EXCEPT ![p] = e] \in Trees
  BY <1>2, TreeOps DEF Trees
<1>5. Served(a) \in Trees
  <2>1. local[a.path] \in KnownEntries /\ (a.do = "SendCopy" => local[a.copy] \in KnownEntries)
    BY <1>1, <1>3
  <2> QED
    BY <1>1, <1>2, <1>3, <1>4, <2>1 DEF Served
<1>6. Recorded(a) \in Trees
  <2>1. scanned[a.path] \in KnownEntries
    BY <1>1, <1>3
  <2>2. CASE a.do = "SendCopy"
    <3>1. [tracked EXCEPT ![a.copy] = scanned[a.path], ![a.path] = None] \in [Paths -> KnownEntries]
      BY <1>1, <1>2, <1>3, <2>1, <2>2
    <3> QED
      BY <2>2, <3>1 DEF Recorded, Trees
  <2>3. CASE a.do # "SendCopy"
    BY <1>1, <1>2, <1>3, <1>4, <2>1, <2>3 DEF Recorded
  <2> QED
    BY <2>2, <2>3
<1>7. ASSUME Serve(a) PROVE remote' \in Trees /\ trash' \subseteq Known
  <2>1. remote' \in Trees
    BY <1>5, <1>7 DEF Serve
  <2>2. HeldIn(remote) \subseteq Known
    BY Holds DEF TypeInv
  <2> QED
    BY <1>7, <2>1, <2>2 DEF Serve, TypeInv
<1> QED
  BY <1>5, <1>6, <1>7 DEF a

(* What the folder becomes in a download.                                  *)
LEMMA FetchedTypes ==
    ASSUME TypeInv, plan # <<>>
    PROVE  /\ WithParents(local, Action.path) \in Trees
           /\ \A e \in KnownEntries : /\ With(local, Action.path, e) \in Trees
                                      /\ [local EXCEPT ![Action.path] = e] \in Trees
                                      /\ [tracked EXCEPT ![Action.path] = e] \in Trees
           /\ remote[Action.path] \in KnownEntries /\ listed[Action.path] \in KnownEntries
           /\ None \in KnownEntries /\ Dir \in KnownEntries
<1>1. Action.path \in Paths
  BY PlanHead
<1>2. local \in [Paths -> KnownEntries] /\ tracked \in [Paths -> KnownEntries]
      /\ remote \in [Paths -> KnownEntries] /\ listed \in [Paths -> KnownEntries]
  BY DEF TypeInv, Trees
<1>3. None \in KnownEntries /\ Dir \in KnownEntries
  BY DEF KnownEntries
<1> QED
  BY <1>1, <1>2, <1>3, TreeOps DEF Trees

(* What a pass does, but for planning.                                     *)
LEMMA StepsKeepTypes ==
    ASSUME TypeInv, Steps
    PROVE  TypeInv'
<1>0. FoldersOK /\ PlanOK /\ RestOK
  BY TypeParts
<1>n. Nothing \in Trees /\ local \in Trees
  BY <1>0 DEF Nothing, Trees, KnownEntries, FoldersOK
<1>e. edits' = edits => Trees' = Trees
  BY SameContents
<1>1. CASE Scan
  <2>1. FoldersOK' /\ PlanOK'
    BY <1>0, <1>1, <1>e, <1>n DEF Scan, FoldersOK, PlanOK, folderVars, stateVars, userVars
  <2> QED
    BY <1>0, <1>1, <2>1, PassKeepsTypes DEF Scan, folderVars, stateVars, userVars, RestOK
<1>2. CASE Finish
  <2>1. tracked' \in [Paths -> KnownEntries]
    <3>1. tracked \in [Paths -> KnownEntries] /\ Dir \in KnownEntries
      BY <1>0 DEF FoldersOK, Trees, KnownEntries
    <3> QED
      BY <1>2, <3>1 DEF Finish, record_agreed_directories
  <2>2. FoldersOK' /\ PlanOK'
    <3>1. tracked' \in Trees
      BY <2>1 DEF Trees
    <3> QED
      BY <1>0, <1>2, <1>e, <1>n, <3>1
      DEF Finish, EndPass, FoldersOK, PlanOK, folderVars, userVars
  <2> QED
    BY <1>0, <1>2, <2>2, PassKeepsTypes
    DEF Finish, EndPass, folderVars, stateVars, userVars, RestOK
<1>3. CASE ServerDoes
  <2>1. plan # <<>> /\ Action.do \in OnServer /\ Serve(Action) /\ Accepts(Action)
    BY <1>3 DEF ServerDoes, Does, Serve
  <2>2. remote' \in Trees /\ trash' \subseteq Known /\ tracked' \in Trees
    BY <1>3, <2>1, ServedTypes DEF ServerDoes
  <2>3. FoldersOK'
    BY <1>0, <1>3, <1>e, <2>2 DEF ServerDoes, FoldersOK, userVars
  <2>4. PlanOK'
    <3>1. CASE Action.do = "SendCopy"
      <4>1. "Download" \in Deeds /\ Action.do \in Conflicts
        BY <3>1 DEF Deeds, Conflicts
      <4> QED
        BY <1>3, <2>1, <3>1, <4>1, PlanGoesOn DEF ServerDoes, Continued
    <3>2. CASE Action.do # "SendCopy"
      BY <1>3, <2>1, <3>2, PlanGoesOn DEF ServerDoes, Continued
    <3> QED
      BY <3>1, <3>2
  <2> QED
    BY <1>0, <1>3, <2>2, <2>3, <2>4, PassKeepsTypes DEF ServerDoes, RestOK
<1>4. CASE ServerRefuses
  <2>1. FoldersOK' /\ PlanOK'
    BY <1>0, <1>4, <1>e, PlanGoesOn DEF ServerRefuses, Skip, Does, FoldersOK, folderVars, userVars
  <2> QED
    BY <1>0, <1>4, <2>1, PassKeepsTypes DEF ServerRefuses, Skip, folderVars, userVars, RestOK
<1>5. CASE CreateLocalDirectory
  <2>1. plan # <<>> /\ plan' = Tail(plan)
    BY <1>5 DEF CreateLocalDirectory, Does, Skip
  <2>2. local' \in Trees /\ tracked' \in Trees
    BY <1>0, <1>5, <2>1, FetchedTypes DEF CreateLocalDirectory, Record, FoldersOK
  <2>3. FoldersOK' /\ PlanOK'
    BY <1>0, <1>5, <1>e, <2>1, <2>2, PlanGoesOn DEF CreateLocalDirectory, Skip, FoldersOK, userVars
  <2> QED
    BY <1>0, <1>5, <2>3, PassKeepsTypes DEF CreateLocalDirectory, Skip, userVars, RestOK
<1>6. CASE RemoveLocalDirectory
  <2>1. plan # <<>> /\ plan' = Tail(plan)
    BY <1>6 DEF RemoveLocalDirectory, Does, Skip
  <2>2. local' \in Trees /\ tracked' \in Trees
    BY <1>0, <1>6, <2>1, FetchedTypes DEF RemoveLocalDirectory, Forget, Record, FoldersOK
  <2>3. FoldersOK' /\ PlanOK'
    BY <1>0, <1>6, <1>e, <2>1, <2>2, PlanGoesOn DEF RemoveLocalDirectory, Skip, FoldersOK, userVars
  <2> QED
    BY <1>0, <1>6, <2>3, PassKeepsTypes DEF RemoveLocalDirectory, Skip, userVars, RestOK
<1>7. CASE DeleteLocal
  <2>1. plan # <<>> /\ plan' = Tail(plan)
    BY <1>7 DEF DeleteLocal, Does, Skip
  <2>2. local' \in Trees /\ tracked' \in Trees
    BY <1>0, <1>7, <2>1, FetchedTypes DEF DeleteLocal, Forget, Record, FoldersOK
  <2>3. FoldersOK' /\ PlanOK'
    BY <1>0, <1>7, <1>e, <2>1, <2>2, PlanGoesOn DEF DeleteLocal, Skip, FoldersOK, userVars
  <2> QED
    BY <1>0, <1>7, <2>3, PassKeepsTypes DEF DeleteLocal, Skip, userVars, RestOK
<1>8. CASE ForgetPath
  <2>1. plan # <<>> /\ plan' = Tail(plan)
    BY <1>8 DEF ForgetPath, Does, Skip
  <2>2. tracked' \in Trees
    BY <1>8, <2>1, FetchedTypes DEF ForgetPath, Forget, Record
  <2>3. FoldersOK' /\ PlanOK'
    BY <1>0, <1>8, <1>e, <2>1, <2>2, PlanGoesOn DEF ForgetPath, Skip, FoldersOK, folderVars, userVars
  <2> QED
    BY <1>0, <1>8, <2>3, PassKeepsTypes DEF ForgetPath, Skip, folderVars, userVars, RestOK
<1>9. CASE Download
  <2>1. plan # <<>> /\ plan' = Tail(plan)
    BY <1>9 DEF Download, Does, Skip
  <2>2. local' \in Trees /\ tracked' \in Trees /\ forgetful' \in BOOLEAN
    <3>1. CASE IsFile(remote[Action.path]) /\ local[Action.path] # Dir /\ ParentsFit(local, Action.path)
      BY <1>0, <1>9, <2>1, <3>1, FetchedTypes DEF Download, Record, RestOK
    <3>2. CASE ~(IsFile(remote[Action.path]) /\ local[Action.path] # Dir /\ ParentsFit(local, Action.path))
      BY <1>0, <1>9, <2>1, <3>2, FetchedTypes DEF Download, FoldersOK, RestOK
    <3> QED
      BY <3>1, <3>2
  <2>3. FoldersOK' /\ PlanOK'
    BY <1>0, <1>9, <1>e, <2>1, <2>2, PlanGoesOn DEF Download, Skip, FoldersOK, userVars
  <2> QED
    BY <1>0, <1>9, <2>2, <2>3, PassKeepsTypes DEF Download, Skip, userVars, RestOK
<1>10. CASE MakeWay
  <2>1. plan # <<>> /\ Action.do \in Conflicts
    BY <1>10 DEF MakeWay, Does, Conflicts
  <2>2. Action.path \in Paths /\ Action.copy \in Paths
    BY <2>1, PlanHead
  <2>3. local' \in Trees /\ tracked' \in Trees /\ stamped' \subseteq Paths
    <3>1. local \in [Paths -> KnownEntries] /\ tracked \in [Paths -> KnownEntries]
          /\ None \in KnownEntries
      BY <1>0 DEF FoldersOK, Trees, KnownEntries
    <3>2. [local EXCEPT ![Action.copy] = local[Action.path], ![Action.path] = None]
             \in [Paths -> KnownEntries]
      BY <2>2, <3>1
    <3>3. [tracked EXCEPT ![Action.path] = None] \in [Paths -> KnownEntries]
      BY <2>2, <3>1
    <3> QED
      BY <1>0, <1>10, <2>2, <3>1, <3>2, <3>3 DEF MakeWay, Forget, Record, Trees, RestOK
  <2>4. PlanOK'
    <3>1. "SendCopy" \in Deeds /\ "Download" \in Deeds
      BY DEF Deeds
    <3> QED
      BY <1>10, <2>1, <3>1, PlanGoesOn DEF MakeWay
  <2>5. FoldersOK'
    BY <1>0, <1>10, <1>e, <2>3 DEF MakeWay, FoldersOK, userVars
  <2> QED
    BY <1>0, <1>10, <2>3, <2>4, <2>5, PassKeepsTypes DEF MakeWay, RestOK
<1> QED
  BY <1>1, <1>2, <1>3, <1>4, <1>5, <1>6, <1>7, <1>8, <1>9, <1>10 DEF Steps

(* Planning.                                                               *)
LEMMA MakePlanKeepsTypes ==
    ASSUME TypeInv, MakePlan
    PROVE  TypeInv'
<1> DEFINE dropped == unfit(scanned, listed)
           l == Retain(scanned, dropped)
           r == Retain(listed, dropped)
           base == Retain(tracked, dropped)
<1>0. FoldersOK /\ PlanOK /\ RestOK
  BY TypeParts
<1>1. listed' = r /\ plan' = HeldApply(reconcile(l, r, base)) /\ phase' = "applying"
  BY DEF MakePlan
<1>2. r \in Trees
  <2>1. listed \in [Paths -> KnownEntries] /\ None \in KnownEntries
    BY <1>0 DEF FoldersOK, Trees, KnownEntries
  <2> HIDE DEF dropped
  <2>2. Retain(listed, dropped) \in [Paths -> KnownEntries]
    BY <2>1 DEF Retain
  <2> QED
    BY <2>2 DEF Trees
<1> HIDE DEF dropped, l, r, base
<1>3. plan' \in Seq(PlannedActions) /\ \A i \in DOMAIN plan' : Made(plan'[i], l, r, base)
  BY <1>1, PlanIsMade
<1>4. PlanOK'
  BY <1>3 DEF PlanOK, Made
<1>5. FoldersOK'
  <2>1. Trees' = Trees
    BY SameContents DEF MakePlan, userVars
  <2> QED
    BY <1>0, <1>1, <1>2, <2>1 DEF MakePlan, FoldersOK, folderVars, stateVars
<1> QED
  BY <1>0, <1>4, <1>5, PassKeepsTypes DEF MakePlan, folderVars, stateVars, RestOK

(* The walk.                                                               *)
LEMMA WalkKeepsTypes ==
    ASSUME TypeInv, Walks
    PROVE  TypeInv'
<1>0. FoldersOK /\ PlanOK /\ RestOK
  BY TypeParts
<1>n. Nothing \in Trees
  BY DEF Nothing, Trees, KnownEntries
<1>e. edits' = edits => Trees' = Trees
  BY SameContents
<1>1. CASE List
  <2>1. PICK d \in 0 .. PathCount :
           listed' = [p \in Paths |-> IF Parent[p] = d THEN remote[p] ELSE listed[p]]
    BY <1>1 DEF List
  <2>2. listed' \in Trees
    <3>1. remote \in [Paths -> KnownEntries] /\ listed \in [Paths -> KnownEntries]
      BY <1>0 DEF FoldersOK, Trees
    <3>2. listed' \in [Paths -> KnownEntries]
      BY <2>1, <3>1
    <3> QED
      BY <3>2 DEF Trees
  <2>3. FoldersOK' /\ PlanOK'
    BY <1>0, <1>1, <1>e, <2>2 DEF List, FoldersOK, PlanOK, folderVars, stateVars, userVars
  <2> QED
    BY <1>0, <1>1, <2>3, PassKeepsTypes DEF List, folderVars, stateVars, RestOK
<1>2. CASE DirectoryGone
  <2>1. FoldersOK' /\ PlanOK'
    BY <1>0, <1>2, <1>e, <1>n
    DEF DirectoryGone, EndPass, FoldersOK, PlanOK, folderVars, stateVars, userVars
  <2> QED
    BY <1>0, <1>2, <2>1, PassKeepsTypes DEF DirectoryGone, EndPass, folderVars, RestOK
<1> QED
  BY <1>1, <1>2 DEF Walks

(* Failures.                                                               *)
LEMMA TroubleKeepsTypes ==
    ASSUME TypeInv, Disturbed
    PROVE  TypeInv'
<1>0. FoldersOK /\ PlanOK /\ RestOK
  BY TypeParts
<1>n. Nothing \in Trees /\ local \in Trees
  BY <1>0 DEF Nothing, Trees, KnownEntries, FoldersOK
<1>e. edits' = edits => Trees' = Trees
  BY SameContents
<1>1. CASE ListFails
  <2>1. FoldersOK' /\ PlanOK'
    BY <1>0, <1>1, <1>e, <1>n
    DEF ListFails, EndPass, FoldersOK, PlanOK, folderVars, stateVars, userVars
  <2> QED
    BY <1>0, <1>1, <2>1, PassKeepsTypes DEF ListFails, EndPass, folderVars, RestOK
<1>2. CASE RequestFails
  <2>1. plan # <<>> /\ plan' = Tail(plan)
    BY <1>2 DEF RequestFails, Does, Skip
  <2>2. local' \in Trees
    BY <1>0, <1>2, <2>1, FetchedTypes DEF RequestFails, FoldersOK
  <2>3. FoldersOK' /\ PlanOK'
    BY <1>0, <1>2, <1>e, <2>1, <2>2, PlanGoesOn DEF RequestFails, Skip, FoldersOK, userVars
  <2> QED
    BY <1>0, <1>2, <2>3, PassKeepsTypes DEF RequestFails, Skip, userVars, RestOK
<1>3. CASE AnswerLost
  <2>1. plan # <<>> /\ plan' = Tail(plan) /\ Action.do \in OnServer /\ Serve(Action)
    BY <1>3 DEF AnswerLost, Does, Skip
  <2>2. remote' \in Trees /\ trash' \subseteq Known
    BY <2>1, ServedTypes
  <2>3. FoldersOK' /\ PlanOK'
    BY <1>0, <1>3, <1>e, <2>1, <2>2, PlanGoesOn DEF AnswerLost, Skip, FoldersOK, userVars
  <2> QED
    BY <1>0, <1>3, <2>2, <2>3, PassKeepsTypes DEF AnswerLost, Skip, userVars, RestOK
<1>4. CASE SaveFails
  <2>1. tracked' \in [Paths -> KnownEntries]
    <3>1. tracked \in [Paths -> KnownEntries] /\ Dir \in KnownEntries
      BY <1>0 DEF FoldersOK, Trees, KnownEntries
    <3> QED
      BY <1>4, <3>1 DEF SaveFails, record_agreed_directories
  <2>2. FoldersOK' /\ PlanOK'
    <3>1. tracked' \in Trees
      BY <2>1 DEF Trees
    <3> QED
      BY <1>0, <1>4, <1>e, <1>n, <3>1
      DEF SaveFails, EndPass, FoldersOK, PlanOK, folderVars, userVars
  <2> QED
    BY <1>0, <1>4, <2>2, PassKeepsTypes DEF SaveFails, EndPass, folderVars, RestOK
<1>5. CASE Crash
  <2>1. FoldersOK' /\ PlanOK'
    BY <1>0, <1>5, <1>e, <1>n DEF Crash, EndPass, FoldersOK, PlanOK, folderVars, userVars
  <2>2. forgetful' \in BOOLEAN
    BY <1>0, <1>5 DEF Crash, RestOK
  <2> QED
    BY <1>0, <1>5, <2>1, <2>2, PassKeepsTypes DEF Crash, EndPass, folderVars, RestOK
<1> QED
  BY <1>1, <1>2, <1>3, <1>4, <1>5 DEF Disturbed

(* The types hold to begin with ...                                        *)
LEMMA TypesBegin == Init => TypeInv
<1> SUFFICES ASSUME Init PROVE TypeInv
  OBVIOUS
<1>0. edits = 0 /\ PathCount \in Nat /\ MaxEdits \in Nat /\ MaxTrouble \in Nat
  BY PathsAssumption, BoundsAssumption DEF Init
<1>1. Known = -PathCount .. 0 /\ None \notin Known /\ Dir \notin Known
  BY <1>0, BoundsAssumption DEF Known, Contents
<1>2. local \in [Paths -> KnownEntries] /\ Nothing \in [Paths -> KnownEntries]
  BY <1>1, PathsAssumption DEF Init, KnownEntries, Nothing
<1>3. HeldIn(local) \subseteq Known
  <2>1. \A p \in Paths : local[p] \in KnownEntries
    BY <1>2
  <2>2. None \notin Contents /\ Dir \notin Contents
    BY BoundsAssumption
  <2> QED
    BY <2>1, <2>2 DEF HeldIn, KnownEntries
<1>4. bygone \in [{"local", "remote"} -> SUBSET Known]
  BY DEF Init
<1>5. FoldersOK
  BY <1>2 DEF Init, FoldersOK, Trees
<1>6. RestOK
  <2>1. trash = {} /\ stamped = {} /\ written = HeldIn(local) /\ phase = "idle"
        /\ trouble = 0 /\ forgetful = FALSE
    BY DEF Init
  <2>2. edits \in 0 .. MaxEdits /\ trouble \in 0 .. MaxTrouble
    BY <1>0, <2>1
  <2>3. trash \subseteq Known /\ stamped \subseteq Paths
    BY <2>1
  <2> QED
    BY <1>3, <1>4, <2>1, <2>2, <2>3 DEF RestOK
<1>7. PlanOK
  BY DEF Init, PlanOK
<1> QED
  BY <1>5, <1>6, <1>7, TypeParts

(* ... and after every step.                                               *)
LEMMA TypesStay == TypeInv /\ [Next]_vars => TypeInv'
<1> SUFFICES ASSUME TypeInv, [Next]_vars PROVE TypeInv'
  OBVIOUS
<1>1. CASE LocalUser \/ RemoteUser
  BY <1>1, UsersKeepTypes
<1>2. CASE Walks \/ MakePlan
  BY <1>2, WalkKeepsTypes, MakePlanKeepsTypes
<1>3. CASE Steps
  BY <1>3, StepsKeepTypes
<1>4. CASE Disturbed
  BY <1>4, TroubleKeepsTypes
<1>5. CASE UNCHANGED vars
  <2>1. Known' = Known /\ Trees' = Trees
    BY <1>5, SameContents DEF vars
  <2> QED
    BY <1>5, <2>1 DEF vars, TypeInv
<1> QED
  BY <1>1, <1>2, <1>3, <1>4, <1>5 DEF Next

(* What the walk has yet to list, and which steps change it.               *)
AheadOK == ahead \subseteq 0 .. PathCount
LEMMA AheadChanges ==
    ASSUME TypeInv, [Next]_vars
    PROVE  ahead' = ahead \/ ahead' = {} \/ ahead' = {0} \/ List
<1>1. CASE LocalUser \/ RemoteUser
  BY <1>1 DEF LocalUser, RemoteUser, LocalSave, LocalMkdir, LocalRemove, RemoteSave, RemoteMkdir,
     RemoteRemove, Edited, passVars
<1>2. CASE Steps
  BY <1>2 DEF Steps, Scan, Finish, EndPass, ServerDoes, ServerRefuses, CreateLocalDirectory,
     RemoveLocalDirectory, DeleteLocal, ForgetPath, Download, MakeWay, Skip
<1>3. CASE Disturbed
  BY <1>3 DEF Disturbed, ListFails, RequestFails, AnswerLost, SaveFails, Crash, EndPass, Skip
<1>4. CASE Walks \/ MakePlan
  BY <1>4 DEF Walks, DirectoryGone, EndPass, MakePlan
<1>5. CASE UNCHANGED vars
  BY <1>5 DEF vars
<1> QED
  BY <1>1, <1>2, <1>3, <1>4, <1>5 DEF Next

(* A walk lists directories.                                               *)
LEMMA AheadStays == TypeInv /\ AheadOK /\ [Next]_vars => AheadOK'
<1> SUFFICES ASSUME TypeInv, AheadOK, [Next]_vars PROVE AheadOK'
  OBVIOUS
<1>0. Paths \subseteq 0 .. PathCount /\ 0 \in 0 .. PathCount
  BY PathsAssumption DEF Paths
<1>1. CASE List
  <2>1. PICK d \in 0 .. PathCount :
           ahead' = (ahead \ {d}) \cup {p \in Paths : Parent[p] = d /\ remote[p] = Dir}
    BY <1>1 DEF List
  <2> QED
    BY <1>0, <2>1, Zenon DEF AheadOK
<1> QED
  BY <1>0, <1>1, AheadChanges, Zenon DEF AheadOK

(* Whatever users, the network and crashes do, folder, account and state   *)
(* file hold entries, and a plan names paths (SyncState, Snapshot, Plan).  *)
THEOREM SyncTypes == Spec => []TypeOK
<1>1. TypeInv /\ AheadOK => TypeOK
  <2> SUFFICES ASSUME TypeInv, AheadOK PROVE TypeOK
    OBVIOUS
  <2>1. Known \subseteq Contents /\ KnownEntries \subseteq Entries
    BY EntriesApart DEF KnownEntries, Entries
  <2>2. \A t \in Trees : t \in [Paths -> Entries]
    <3> TAKE t \in Trees
    <3>1. t \in [Paths -> KnownEntries]
      BY DEF Trees
    <3> QED
      BY <2>1, <3>1
  <2>3. {local, remote, tracked, saved, scanned, listed} \subseteq [Paths -> Entries]
    BY <2>2 DEF TypeInv
  <2>4. \A i \in DOMAIN plan : plan[i].path \in Paths /\ plan[i].copy \in Paths \cup {None}
    <3>1. \A i \in DOMAIN plan : plan[i] \in PlannedActions
      BY DEF TypeInv
    <3> QED
      BY <3>1 DEF PlannedActions
  <2>5. bygone \in [{"local", "remote"} -> SUBSET Contents]
    BY <2>1 DEF TypeInv
  <2> QED
    BY <2>1, <2>3, <2>4, <2>5 DEF TypeInv, TypeOK, AheadOK
<1>2. Init => AheadOK
  BY DEF Init, AheadOK
<1> QED
  BY <1>1, <1>2, TypesBegin, TypesStay, AheadStays, PTL DEF Spec


-----------------------------------------------------------------------------
(* Shares: what held.rs let through stays what the plan is made of.        *)

(* A plan is the last one without its first entry, or with another deed in *)
(* its place.                                                              *)
Onward ==
    \/ plan' = Tail(plan)
    \/ /\ Action.do \in {"KeepBoth", "SetAside", "SendCopy"}
       /\ plan' = <<[Action EXCEPT !.do = "Download"]>> \o Tail(plan)
    \/ /\ Action.do = "KeepBoth"
       /\ plan' = <<[Action EXCEPT !.do = "SendCopy"]>> \o Tail(plan)
Turned(b) ==
    /\ b.path = Action.path /\ b.copy = Action.copy
    /\ \/ b.do = "Download" /\ Action.do \in {"KeepBoth", "SetAside", "SendCopy"}
       \/ b.do = "SendCopy" /\ Action.do = "KeepBoth"

(* What is left of it.                                                     *)
LEMMA OnwardIs ==
    ASSUME TypeInv, plan # <<>>, Onward
    PROVE  \/ /\ Len(plan) \in Nat /\ DOMAIN plan' = 1 .. Len(plan) - 1
              /\ \A i \in DOMAIN plan' : i \in Nat /\ plan'[i] = plan[i + 1]
                                         /\ i + 1 \in DOMAIN plan /\ i + 1 # 1
           \/ /\ DOMAIN plan' = DOMAIN plan /\ Turned(plan'[1])
              /\ \A i \in DOMAIN plan' : i # 1 => plan'[i] = plan[i]
<1>1. CASE plan' = Tail(plan)
  <2>1. Len(plan) \in Nat /\ DOMAIN plan' = 1 .. Len(plan) - 1
    BY <1>1, PlanHead
  <2>2. \A i \in DOMAIN plan' : i \in Nat
    BY <2>1
  <2>3. \A i \in DOMAIN plan' : plan'[i] = plan[i + 1] /\ i + 1 \in DOMAIN plan /\ i + 1 # 1
    BY <1>1, PlanHead
  <2> QED
    BY <2>1, <2>2, <2>3
<1>2. ASSUME NEW d \in Deeds, plan' = <<[Action EXCEPT !.do = d]>> \o Tail(plan)
      PROVE  /\ DOMAIN plan' = DOMAIN plan
             /\ \A i \in DOMAIN plan' : i # 1 => plan'[i] = plan[i]
             /\ plan'[1].path = Action.path /\ plan'[1].copy = Action.copy /\ plan'[1].do = d
  <2> DEFINE h == [Action EXCEPT !.do = d]
  <2>1. h \in PlannedActions /\ h.path = Action.path /\ h.copy = Action.copy /\ h.do = d
    BY PlanHead DEF PlannedActions
  <2> HIDE DEF h
  <2>2. Tail(plan) \in Seq(PlannedActions) /\ DOMAIN Tail(plan) = 1 .. Len(plan) - 1
        /\ Len(plan) \in Nat /\ DOMAIN plan = 1 .. Len(plan) /\ 1 \in DOMAIN plan
    BY PlanHead
  <2>3. Len(Tail(plan)) = Len(plan) - 1
    BY <2>2
  <2>4. /\ plan' \in Seq(PlannedActions) /\ plan'[1] = h /\ Len(plan') = Len(plan)
        /\ DOMAIN plan' = 1 .. Len(plan')
        /\ \A i \in DOMAIN plan' : i # 1 => i - 1 \in DOMAIN Tail(plan) /\ plan'[i] = Tail(plan)[i - 1]
    BY <1>2, <2>1, <2>2, <2>3 DEF h
  <2>5. ASSUME NEW i \in DOMAIN plan', i # 1 PROVE plan'[i] = plan[i]
    <3>1. i \in Nat
      BY <2>4
    <3> QED
      BY <2>4, <2>5, <3>1, PlanHead
  <2> QED
    BY <2>1, <2>2, <2>4, <2>5
<1>3. "Download" \in Deeds /\ "SendCopy" \in Deeds
  BY DEF Deeds
<1> QED
  BY <1>1, <1>2, <1>3 DEF Onward, Turned

(* Every entry of it is one of the others, or the first one turned.        *)
LEMMA OnwardEntries ==
    ASSUME TypeInv, plan # <<>>, Onward, NEW i \in DOMAIN plan'
    PROVE  \/ \E j \in DOMAIN plan : j # 1 /\ plan'[i] = plan[j]
           \/ i = 1 /\ Turned(plan'[i])
<1>1. CASE i = 1 /\ Turned(plan'[1])
  BY <1>1
<1>2. CASE ~(i = 1 /\ Turned(plan'[1]))
  BY <1>2, OnwardIs
<1> QED
  BY <1>1, <1>2

(* Which steps change the plan, and how.                                   *)
LEMMA PlanChanges ==
    ASSUME TypeInv, [Next]_vars
    PROVE  \/ plan' = plan /\ (phase' = phase \/ phase = "idle")
           \/ MakePlan
           \/ plan' = <<>>
           \/ plan # <<>> /\ Onward /\ phase' = "applying"
<1>1. CASE LocalUser \/ RemoteUser
  BY <1>1 DEF LocalUser, RemoteUser, LocalSave, LocalMkdir, LocalRemove, RemoteSave, RemoteMkdir,
     RemoteRemove, Edited, passVars
<1>2. CASE Steps
  <2>1. CASE Scan \/ Finish
    BY <2>1 DEF Scan, Finish, EndPass
  <2>2. CASE ServerDoes
    BY <2>2 DEF ServerDoes, Does, Continued, Onward
  <2>3. CASE ServerRefuses \/ CreateLocalDirectory \/ RemoveLocalDirectory \/ DeleteLocal
             \/ ForgetPath \/ Download
    BY <2>3 DEF ServerRefuses, CreateLocalDirectory, RemoveLocalDirectory, DeleteLocal, ForgetPath,
       Download, Does, Skip, Onward
  <2>4. CASE MakeWay
    BY <2>4 DEF MakeWay, Does, Onward
  <2> QED
    BY <1>2, <2>1, <2>2, <2>3, <2>4 DEF Steps
<1>3. CASE Disturbed
  BY <1>3 DEF Disturbed, ListFails, RequestFails, AnswerLost, SaveFails, Crash, EndPass, Does, Skip,
     Onward
<1>4. CASE UNCHANGED vars
  BY <1>4 DEF vars
<1>5. CASE Walks
  BY <1>5 DEF Walks, List, DirectoryGone, EndPass
<1> QED
  BY <1>1, <1>2, <1>3, <1>4, <1>5 DEF Next

(* What was let through to begin with.                                     *)
LEMMA SharesBegin == Init => ShareInv
BY DEF Init, ShareInv

(* Nothing else comes into a plan.                                         *)
LEMMA SharesStay == TypeInv /\ ShareInv /\ [Next]_vars => ShareInv'
<1> SUFFICES ASSUME TypeInv, ShareInv, [Next]_vars PROVE ShareInv'
  OBVIOUS
<1>1. CASE plan' = plan
  BY <1>1 DEF ShareInv, Let, read_only, fixed, WithinMount, Inside, Above
<1>2. CASE plan' = <<>>
  BY <1>2 DEF ShareInv
<1>3. CASE MakePlan
  <2> DEFINE dropped == unfit(scanned, listed)
             l == Retain(scanned, dropped)
             r == Retain(listed, dropped)
             base == Retain(tracked, dropped)
  <2>1. plan' = HeldApply(reconcile(l, r, base))
    BY <1>3 DEF MakePlan
  <2> HIDE DEF l, r, base
  <2>2. \A i \in DOMAIN plan' : Made(plan'[i], l, r, base)
    BY <2>1, PlanIsMade
  <2>3. \A i \in DOMAIN plan' : Let(plan'[i])
    BY <2>2 DEF Made
  <2> QED
    BY <2>3 DEF ShareInv, Let, read_only, fixed, WithinMount, Inside, Above
<1>4. CASE plan # <<>> /\ Onward
  <2> SUFFICES ASSUME NEW i \in DOMAIN plan' PROVE Let(plan'[i])
    BY DEF ShareInv, Let, read_only, fixed, WithinMount, Inside, Above
  <2>1. CASE \E j \in DOMAIN plan : j # 1 /\ plan'[i] = plan[j]
    BY <2>1 DEF ShareInv
  <2>2. CASE Turned(plan'[i])
    <3>1. Let(Action)
      BY <1>4, PlanHead DEF ShareInv
    <3> QED
      BY <2>2, <3>1 DEF Turned, Let
  <2> QED
    BY <1>4, <2>1, <2>2, OnwardEntries
<1> QED
  BY <1>1, <1>2, <1>3, <1>4, PlanChanges

(* What the server does for a pass leaves the shares alone that are only   *)
(* for reading.                                                            *)
LEMMA ServeSpares ==
    ASSUME TypeInv, ShareInv, Does(OnServer), Serve(Action), NEW q \in Paths, read_only(q)
    PROVE  remote'[q] = remote[q]
<1> DEFINE a == Action
<1>0. plan # <<>> /\ a.do \in OnServer
  BY DEF Does
<1>1. /\ a.path \in Paths /\ Let(a)
      /\ a.do = "SendCopy" => a.copy \in Paths
  BY <1>0, PlanHead DEF ShareInv, Conflicts
<1>2. /\ local \in [Paths -> KnownEntries] /\ remote \in [Paths -> KnownEntries]
      /\ None \in KnownEntries /\ Dir \in KnownEntries
  BY DEF TypeInv, Trees, KnownEntries
<1>3. remote' = Served(a)
  BY DEF Serve
<1> HIDE DEF a
<1>4. ASSUME NEW p \in Paths, NEW e \in KnownEntries, ~read_only(p), remote' = With(remote, p, e)
      PROVE  remote'[q] = remote[q]
  <2>1. q # p
    BY <1>4
  <2>2. q \notin Above(p)
    BY <1>4, SharesAreClosed
  <2>3. With(remote, p, e)[q] = IF q = p THEN e ELSE IF q \in Above(p) THEN Dir ELSE remote[q]
    BY <1>2, TreeOps
  <2> QED
    BY <1>4, <2>1, <2>2, <2>3
<1>5. CASE a.do = "Upload"
  <2>1. local[a.path] \in KnownEntries /\ ~read_only(a.path) /\ remote' = With(remote, a.path, local[a.path])
    BY <1>1, <1>2, <1>3, <1>5 DEF Served, Let
  <2> QED
    BY <1>1, <1>4, <2>1
<1>6. CASE a.do = "SendCopy"
  <2>1. /\ a.copy \in Paths /\ local[a.copy] \in KnownEntries /\ ~read_only(a.copy)
        /\ remote' = With(remote, a.copy, local[a.copy])
    BY <1>1, <1>2, <1>3, <1>6 DEF Served, Let
  <2> QED
    BY <1>4, <2>1
<1>7. CASE a.do = "CreateRemoteDirectory"
  <2>1. ~read_only(a.path) /\ remote' = With(remote, a.path, Dir)
    BY <1>1, <1>3, <1>7 DEF Served, Let
  <2> QED
    BY <1>1, <1>2, <1>4, <2>1
<1>8. CASE a.do \in {"DeleteRemote", "RemoveRemoteDirectory"}
  <2>1. ~read_only(a.path) /\ ~fixed(a.path) /\ remote' = Without(remote, a.path)
    BY <1>1, <1>3, <1>8 DEF Served, Let
  <2>2. q # a.path /\ a.path \notin Above(q)
    BY <2>1, SharesAreClosed
  <2> QED
    BY <1>1, <1>2, <2>1, <2>2, TreeOps
<1> QED
  BY <1>0, <1>5, <1>6, <1>7, <1>8 DEF OnServer, a

(* Whoever does what, a pass of any state leaves what may only be read as  *)
(* it was (Held::apply).                                                   *)
THEOREM SyncReadOnlyShares == Spec => ReadOnlySharesUntouched
<1>1. TypeInv /\ ShareInv /\ [Next]_vars
        => [RemoteUser \/ \A p \in Paths : read_only(p) => remote'[p] = remote[p]]_vars
  <2> SUFFICES ASSUME TypeInv, ShareInv, Next, ~RemoteUser, NEW p \in Paths, read_only(p)
               PROVE  remote'[p] = remote[p]
    OBVIOUS
  <2>1. CASE LocalUser
    BY <2>1 DEF LocalUser, LocalSave, LocalMkdir, LocalRemove
  <2>2. CASE Walks \/ MakePlan
    BY <2>2 DEF Walks, List, DirectoryGone, EndPass, MakePlan, folderVars
  <2>3. CASE ServerDoes \/ AnswerLost
    BY <2>3, ServeSpares DEF ServerDoes, AnswerLost
  <2>4. CASE Steps /\ ~ServerDoes
    BY <2>4 DEF Steps, Scan, Finish, EndPass, ServerRefuses, CreateLocalDirectory,
       RemoveLocalDirectory, DeleteLocal, ForgetPath, Download, MakeWay, folderVars
  <2>5. CASE Disturbed /\ ~AnswerLost
    BY <2>5 DEF Disturbed, ListFails, RequestFails, SaveFails, Crash, EndPass, folderVars
  <2> QED
    BY <2>1, <2>2, <2>3, <2>4, <2>5 DEF Next
<1> QED
  BY <1>1, TypesBegin, TypesStay, SharesBegin, SharesStay, PTL DEF Spec, ReadOnlySharesUntouched

-----------------------------------------------------------------------------
(* The plan.                                                               *)

(* What a verdict says of the folder's, the server's and the recorded      *)
(* entry of its path.                                                      *)
Says(v, x, y, z) ==
    /\ ~(x = None /\ y = None /\ z = None)
    /\ v = "Upload" => x \in Contents /\ x # y /\ x # z /\ (y = None \/ y = z)
    /\ v = "DeleteLocal" => x \in Contents /\ y = None /\ x = z
    /\ v = "Download" => y \in Contents /\ x # y /\ y # z /\ (x = None \/ x = z)
    /\ v = "KeepBoth" => x \in Contents /\ y \in Contents /\ x # y /\ x # z /\ y # z
    /\ v = "DeleteRemote" => x = None /\ y \in Contents
    /\ v \in {"RemoveRemoteDirectory", "CreateLocalDirectory"} => x = None /\ y = Dir
    /\ v \in {"CreateRemoteDirectory", "RemoveLocalDirectory"} => x = Dir /\ y = None
    /\ v = "Forget" => x = None /\ y = None

(* reconcile's table.                                                      *)
LEMMA VerdictSays ==
    ASSUME NEW p \in Paths, NEW l, NEW r, NEW base, l[p] \in Entries, r[p] \in Entries,
           Verdict(p, l, r, base) \in Decided
    PROVE  Says(Verdict(p, l, r, base), l[p], r[p], base[p])
<1> DEFINE x == l[p] y == r[p] z == base[p] v == Verdict(p, l, r, base)
<1> SUFFICES Says(v, x, y, z)
  OBVIOUS
<1>0. /\ None \notin Contents /\ Dir \notin Contents /\ None # Dir
      /\ x \in Contents \cup {None, Dir} /\ y \in Contents \cup {None, Dir}
  BY BoundsAssumption DEF Entries
<1>1. "nothing" \notin Decided /\ "blocked" \notin Decided /\ v \in Decided
  BY DEF Decided, Deeds
<1>2. CASE x \in Contents \/ y \in Contents
  <2>1. CASE x = Dir \/ y = Dir
    <3>1. v = "blocked"
      BY <1>0, <1>2, <2>1 DEF Verdict, IsFile
    <3> QED
      BY <1>1, <3>1
  <2>2. CASE x # Dir /\ y # Dir
    <3>1. v = for_file(p, x, y, z)
      BY <1>0, <1>2, <2>2 DEF Verdict, IsFile
    <3> HIDE DEF x, y, z, v
    <3> QED
      BY <1>0, <1>1, <1>2, <2>2, <3>1 DEF for_file, Says
  <2> QED
    BY <2>1, <2>2
<1>3. CASE x \in {None, Dir} /\ y \in {None, Dir}
  <2>1. CASE x = None /\ y = None
    BY <1>0, <1>1, <2>1 DEF Verdict, IsFile, Says
  <2>2. CASE x = Dir /\ y = Dir
    BY <1>0, <1>1, <2>2 DEF Verdict, IsFile
  <2>3. CASE x = None /\ y = Dir
    <3>1. v = IF z = None THEN "CreateLocalDirectory"
              ELSE IF holds_only_what_was_synced(r, base, p) THEN "RemoveRemoteDirectory" ELSE "nothing"
      BY <1>0, <2>3 DEF Verdict, IsFile
    <3> HIDE DEF x, y, z, v
    <3> QED
      BY <1>0, <1>1, <2>3, <3>1 DEF Says
  <2>4. CASE x = Dir /\ y = None
    <3>1. v = IF z = None THEN "CreateRemoteDirectory" ELSE "RemoveLocalDirectory"
      BY <1>0, <2>4 DEF Verdict, IsFile
    <3> HIDE DEF x, y, z, v
    <3> QED
      BY <1>0, <1>1, <2>4, <3>1 DEF Says
  <2> QED
    BY <1>3, <2>1, <2>2, <2>3, <2>4
<1> QED
  BY <1>0, <1>2, <1>3

(* What planning finds, and what it plans.                                 *)
LEMMA MakePlanIs ==
    ASSUME TypeInv, MakePlan
    PROVE  LET dropped == unfit(scanned, listed) IN
           /\ phase = "listing" /\ ahead = {} /\ phase' = "applying"
           /\ \A p \in Paths : listed'[p] = IF p \in dropped THEN None ELSE listed[p]
           /\ \A i, j \in DOMAIN plan' : i # j => plan'[i].path # plan'[j].path
           /\ \A i \in DOMAIN plan' :
                 LET a == plan'[i] p == a.path IN
                 /\ p \in Paths /\ p \notin dropped /\ a.do \in Deeds /\ a.do # "SendCopy"
                 /\ Says(IF a.do = "SetAside" THEN "KeepBoth" ELSE a.do, scanned[p], listed'[p], tracked[p])
                 /\ a.do \in Conflicts => a.copy \in Range(CopiesOf[p]) \ stamped
<1> DEFINE dropped == unfit(scanned, listed)
           l == Retain(scanned, dropped)
           r == Retain(listed, dropped)
           base == Retain(tracked, dropped)
<1>1. listed' = r /\ plan' = HeldApply(reconcile(l, r, base)) /\ phase' = "applying"
      /\ phase = "listing" /\ ahead = {}
  BY DEF MakePlan
<1>2. scanned \in [Paths -> Entries] /\ listed \in [Paths -> Entries] /\ None \in Entries
  <2>1. scanned \in [Paths -> KnownEntries] /\ listed \in [Paths -> KnownEntries]
    BY DEF TypeInv, Trees
  <2>2. KnownEntries \subseteq Entries
    BY EntriesApart DEF KnownEntries, Entries
  <2> QED
    BY <2>1, <2>2 DEF Entries
<1> HIDE DEF dropped
<1>3. \A p \in Paths : /\ l[p] = IF p \in dropped THEN None ELSE scanned[p]
                       /\ r[p] = IF p \in dropped THEN None ELSE listed[p]
                       /\ base[p] = IF p \in dropped THEN None ELSE tracked[p]
  BY DEF Retain
<1> HIDE DEF l, r, base
<1>4. /\ plan' \in Seq(PlannedActions)
      /\ \A i \in DOMAIN plan' : Made(plan'[i], l, r, base)
      /\ \A i, j \in DOMAIN plan' : i # j => plan'[i].path # plan'[j].path
  BY <1>1, PlanIsMade
<1>5. ASSUME NEW i \in DOMAIN plan'
      PROVE  LET a == plan'[i] p == a.path IN
             /\ p \in Paths /\ p \notin dropped /\ a.do \in Deeds /\ a.do # "SendCopy"
             /\ Says(IF a.do = "SetAside" THEN "KeepBoth" ELSE a.do, scanned[p], listed'[p], tracked[p])
             /\ a.do \in Conflicts => a.copy \in Range(CopiesOf[p]) \ stamped
  <2> DEFINE a == plan'[i] p == a.path v == Verdict(p, l, r, base)
  <2>1. a \in PlannedActions /\ Made(a, l, r, base)
    BY <1>4
  <2>2. p \in Paths /\ a.do \in Deeds
    BY <2>1 DEF PlannedActions
  <2>3. v \in Decided /\ v = (IF a.do = "SetAside" THEN "KeepBoth" ELSE a.do) /\ a.do # "SendCopy"
    BY <2>1 DEF Made, Decided, Deeds
  <2>4. a.do \in Conflicts => a.copy \in Range(CopiesOf[p]) \ stamped
    BY <2>1 DEF Made
  <2> HIDE DEF a, v
  <2>5. l[p] \in Entries /\ r[p] \in Entries
    BY <1>2, <1>3, <2>2
  <2>6. Says(v, l[p], r[p], base[p])
    BY <2>2, <2>3, <2>5, VerdictSays DEF v
  <2>7. p \notin dropped
    BY <1>3, <2>2, <2>6 DEF Says
  <2>8. l[p] = scanned[p] /\ r[p] = listed'[p] /\ base[p] = tracked[p]
    BY <1>1, <1>3, <2>2, <2>7
  <2> QED
    BY <2>2, <2>3, <2>4, <2>6, <2>7, <2>8 DEF a
<1>6. \A p \in Paths : listed'[p] = IF p \in dropped THEN None ELSE listed[p]
  BY <1>1, <1>3
<1> QED
  BY <1>1, <1>4, <1>5, <1>6 DEF dropped

(* The entries of a plan, without their order.                             *)
Others == {plan[j] : j \in DOMAIN plan \ {1}}

(* No other entry is about the path of the first, or sends a copy.         *)
LEMMA OthersDiffer ==
    ASSUME TypeInv, PlanInv, plan # <<>>, NEW b \in Others
    PROVE  /\ b \in PlannedActions /\ b.path \in Paths /\ b.do \in Deeds
           /\ b.path # Action.path /\ b.do # "SendCopy"
           /\ b.do \in Conflicts => b.copy \in Range(CopiesOf[b.path])
           /\ b.do \in Conflicts /\ Action.do \in Conflicts => b.copy # Action.copy
           /\ \E j \in DOMAIN plan : j # 1 /\ b = plan[j]
<1>1. PICK j \in DOMAIN plan : j # 1 /\ b = plan[j]
  BY DEF Others
<1>2. plan \in Seq(PlannedActions) /\ 1 \in DOMAIN plan /\ Action = plan[1]
  BY PlanHead DEF TypeInv
<1>b. b \in PlannedActions
  BY <1>1, <1>2
<1>3. b.path \in Paths /\ b.do \in Deeds
  BY <1>b DEF PlannedActions
<1>4. b.path # Action.path /\ b.do # "SendCopy"
  BY <1>1, <1>2 DEF PlanInv
<1>5. b.do \in Conflicts => b.copy \in Range(CopiesOf[b.path])
  BY <1>1 DEF TypeInv
<1>6. b.do \in Conflicts /\ Action.do \in Conflicts => b.copy # Action.copy
  BY <1>3, <1>4, <1>5, PlanHead, CopyOf
<1> QED
  BY <1>1, <1>b, <1>3, <1>4, <1>5, <1>6

(* The plan is in order to begin with ...                                  *)
LEMMA PlanBegins == Init => PlanInv
BY DEF Init, PlanInv

(* ... and after every step.                                               *)
LEMMA PlanStays == TypeInv /\ PlanInv /\ [Next]_vars => PlanInv'
<1> SUFFICES ASSUME TypeInv, PlanInv, [Next]_vars PROVE PlanInv'
  OBVIOUS
<1>1. CASE plan' = plan /\ (phase' = phase \/ phase = "idle")
  BY <1>1 DEF PlanInv
<1>2. CASE plan' = <<>>
  BY <1>2 DEF PlanInv
<1>3. CASE MakePlan
  BY <1>3, MakePlanIs DEF PlanInv
<1>4. CASE plan # <<>> /\ Onward /\ phase' = "applying"
  <2>1. CASE /\ Len(plan) \in Nat /\ DOMAIN plan' = 1 .. Len(plan) - 1
             /\ \A i \in DOMAIN plan' : i \in Nat /\ plan'[i] = plan[i + 1]
                                        /\ i + 1 \in DOMAIN plan /\ i + 1 # 1
    <3>1. \A i, j \in DOMAIN plan' : i # j => i + 1 # j + 1
      BY <2>1
    <3>2. \A i, j \in DOMAIN plan' : i # j => plan'[i].path # plan'[j].path
      BY <2>1, <3>1 DEF PlanInv
    <3>3. \A i \in DOMAIN plan' : plan'[i].do # "SendCopy"
      BY <2>1 DEF PlanInv
    <3> QED
      BY <1>4, <3>2, <3>3 DEF PlanInv
  <2>2. CASE /\ DOMAIN plan' = DOMAIN plan /\ Turned(plan'[1])
             /\ \A i \in DOMAIN plan' : i # 1 => plan'[i] = plan[i]
    <3>1. Action = plan[1]
      BY <1>4, PlanHead
    <3>2. \A i \in DOMAIN plan' : plan'[i].path = plan[i].path
      BY <2>2, <3>1 DEF Turned
    <3> QED
      BY <1>4, <2>2, <3>2 DEF PlanInv
  <2> QED
    BY <1>4, <2>1, <2>2, OnwardIs
<1> QED
  BY <1>1, <1>2, <1>3, <1>4, PlanChanges

-----------------------------------------------------------------------------
(* The ways a step changes a tree: an entry with the directories above it, *)
(* one removed with what is in it, and one entry alone.                    *)
Put(old, new, p, e) ==
    /\ \A q \in Above(p) : old[q] \notin Contents
    /\ \A q \in Paths : new[q] = IF q = p THEN e ELSE IF q \in Above(p) THEN Dir ELSE old[q]
Taken(old, new, p) ==
    \A q \in Paths : new[q] = IF q = p \/ p \in Above(q) THEN None ELSE old[q]
Changed(old, new, p, e) == \A q \in Paths : new[q] = IF q = p THEN e ELSE old[q]

(* A path is not inside itself.                                            *)
LEMMA NotAboveItself ==
    ASSUME NEW p \in Paths
    PROVE  p \notin Above(p) /\ Above(p) \subseteq Paths
<1>1. p \in Nat
  BY ParentBefore
<1>2. \A q \in Above(p) : q \in Paths /\ q < p
  BY AboveBefore
<1> QED
  BY <1>1, <1>2

(* What is put in place hangs.                                             *)
LEMMA PutHangs ==
    ASSUME NEW old, NEW new, NEW p \in Paths, NEW e, Put(old, new, p, e), Hanging(old),
           e = Dir \/ old[p] # Dir
    PROVE  Hanging(new)
<1> SUFFICES ASSUME NEW x \in Paths, new[x] # None, NEW y \in Above(x) PROVE new[y] = Dir
  BY DEF Hanging
<1>0. y \in Paths
  BY NotAboveItself
<1>1. CASE x = p \/ x \in Above(p)
  <2>1. y \in Above(p)
    BY <1>1, AboveTransitive
  <2>2. y # p
    BY <2>1, NotAboveItself
  <2> QED
    BY <1>0, <2>1, <2>2 DEF Put
<1>2. CASE x # p /\ x \notin Above(p)
  <2>1. old[y] = Dir
    BY <1>2 DEF Put, Hanging
  <2> QED
    BY <1>0, <2>1 DEF Put
<1> QED
  BY <1>1, <1>2

(* What is left hangs.                                                     *)
LEMMA TakenHangs ==
    ASSUME NEW old, NEW new, NEW p \in Paths, Taken(old, new, p), Hanging(old)
    PROVE  Hanging(new)
<1> SUFFICES ASSUME NEW x \in Paths, new[x] # None, NEW y \in Above(x) PROVE new[y] = Dir
  BY DEF Hanging
<1>0. y \in Paths
  BY NotAboveItself
<1>1. x # p /\ p \notin Above(x) /\ old[x] # None
  BY DEF Taken
<1>2. y # p /\ p \notin Above(y)
  BY <1>1, AboveTransitive
<1> QED
  BY <1>0, <1>1, <1>2 DEF Taken, Hanging

(* So does the change of an entry nothing is in.                           *)
LEMMA ChangedHangs ==
    ASSUME NEW old, NEW new, NEW p \in Paths, NEW e, Changed(old, new, p, e), Hanging(old),
           e = Dir \/ old[p] # Dir \/ \A q \in Paths : p \in Above(q) => old[q] = None,
           e = None \/ \A q \in Above(p) : old[q] = Dir
    PROVE  Hanging(new)
<1> SUFFICES ASSUME NEW x \in Paths, new[x] # None, NEW y \in Above(x) PROVE new[y] = Dir
  BY DEF Hanging
<1>0. y \in Paths
  BY NotAboveItself
<1>1. CASE x = p
  <2>1. y # p /\ old[y] = Dir
    BY <1>1, NotAboveItself DEF Changed
  <2> QED
    BY <1>0, <2>1 DEF Changed
<1>2. CASE x # p
  <2>1. old[x] # None /\ old[y] = Dir
    BY <1>2 DEF Changed, Hanging
  <2> QED
    BY <1>0, <2>1 DEF Changed
<1> QED
  BY <1>1, <1>2

(* Contents that stay at their path, whichever side brings them to the     *)
(* other, stay at one path; so does one that is new, and there alone.      *)
LEMMA PlaceKept ==
    ASSUME NEW here, NEW there, NEW here2, NEW there2, Placed(here, there), NEW n, NEW x \in Paths,
           \A q \in Paths : here[q] # n /\ there[q] # n,
           \A q \in Paths :
              /\ here2[q] \in {here[q], there[q]} \/ here2[q] \notin Contents \/ (q = x /\ here2[q] = n)
              /\ there2[q] \in {here[q], there[q]} \/ there2[q] \notin Contents \/ (q = x /\ there2[q] = n)
    PROVE  Placed(here2, there2)
<1> SUFFICES ASSUME NEW p \in Paths, NEW q \in Paths, p # q
             PROVE  /\ here2[p] \in Contents => here2[q] # here2[p] /\ there2[q] # here2[p]
                    /\ there2[p] \in Contents => there2[q] # there2[p]
  BY DEF Placed
<1>1. \A e \in Contents :
         /\ e \in {here[p], there[p]} => e \notin {here[q], there[q]}
         /\ e \in {here[q], there[q]} => e \notin {here[p], there[p]}
  BY DEF Placed
<1>2. ASSUME NEW e \in Contents, e \in {here2[p], there2[p]}, e \in {here2[q], there2[q]}
      PROVE  FALSE
  <2>1. e \in {here[p], there[p]} \/ (p = x /\ e = n)
    BY <1>2
  <2>2. e \in {here[q], there[q]} \/ (q = x /\ e = n)
    BY <1>2
  <2> QED
    BY <1>1, <2>1, <2>2
<1> QED
  BY <1>2

(* What is planned for a path stays due when its file does, what is done   *)
(* on the server is new, and nothing is recorded but a directory.          *)
LEMMA DueKept ==
    ASSUME NEW do, NEW here, NEW there, NEW known, NEW found, NEW named, NEW spent,
           Due(do, here, there, known, found, named, spent),
           NEW here2, NEW there2, NEW known2, NEW spent2, spent \subseteq spent2,
           here2 = here \/ (here \notin Contents /\ here2 \notin Contents /\ do # "SendCopy"),
           there2 = there \/ there2 \notin Contents \/ (there2 # found /\ there2 # known),
           known2 = known \/ known2 \notin Contents
    PROVE  Due(do, here2, there2, known2, found, named, spent2)
BY BoundsAssumption DEF Due

(* The six trees, path by path.                                            *)
LEMMA SixTrees ==
    ASSUME TypeInv
    PROVE  /\ \A t \in {local, remote, tracked, saved, scanned, listed} :
                 t \in [Paths -> KnownEntries] /\ \A p \in Paths : t[p] \in KnownEntries
           /\ \A t \in {local, remote, tracked, saved, scanned, listed}, p \in Paths :
                 /\ t[p] \in Contents \/ t[p] = None \/ t[p] = Dir
                 /\ t[p] \in Contents => t[p] \in Known
           /\ None \in KnownEntries /\ Dir \in KnownEntries
           /\ None \notin Contents /\ Dir \notin Contents /\ None # Dir
<1>1. \A t \in {local, remote, tracked, saved, scanned, listed} : t \in [Paths -> KnownEntries]
  BY DEF TypeInv, Trees
<1>2. \A t \in {local, remote, tracked, saved, scanned, listed} :
         \A p \in Paths : t[p] \in KnownEntries
  BY <1>1
<1>3. \A e \in KnownEntries : /\ e \in Contents \/ e = None \/ e = Dir
                              /\ e \in Contents => e \in Known
  BY EntriesApart DEF KnownEntries
<1> QED
  BY <1>1, <1>2, <1>3, EntriesApart

(* What the server does for a pass.                                        *)
LEMMA ServeIs ==
    ASSUME TypeInv, Does(OnServer), Serve(Action)
    PROVE  LET p == Action.path c == Action.copy IN
           /\ plan # <<>> /\ phase = "applying" /\ p \in Paths
           /\ \/ /\ Action.do = "Upload" /\ Put(remote, remote', p, local[p]) /\ local[p] \in Contents
                 /\ remote[p] = (IF listed[p] \in Contents THEN listed[p] ELSE None) /\ trash' = trash
              \/ /\ Action.do = "SendCopy" /\ Put(remote, remote', c, local[c]) /\ local[c] \in Contents
                 /\ c \in Paths /\ c \in Copies /\ remote[c] = None /\ trash' = trash
              \/ /\ Action.do = "CreateRemoteDirectory" /\ Put(remote, remote', p, Dir)
                 /\ remote[p] = None /\ trash' = trash
              \/ /\ Action.do \in {"DeleteRemote", "RemoveRemoteDirectory"} /\ Taken(remote, remote', p)
                 /\ trash' = trash \cup (HeldIn(remote) \ HeldIn(remote'))
<1> DEFINE a == Action
<1>0. plan # <<>> /\ phase = "applying" /\ a.do \in OnServer
  BY DEF Does
<1>1. a.path \in Paths /\ (a.do = "SendCopy" => a.copy \in Paths /\ a.copy \in Copies)
  BY <1>0, PlanHead DEF Conflicts
<1>2. remote \in [Paths -> KnownEntries] /\ None \in KnownEntries /\ Dir \in KnownEntries
      /\ \A q \in Paths : local[q] \in KnownEntries
  BY SixTrees
<1>3. remote' = Served(a) /\ Accepts(a)
      /\ trash' = trash \cup (IF a.do \in {"DeleteRemote", "RemoveRemoteDirectory"}
                              THEN HeldIn(remote) \ HeldIn(remote') ELSE {})
  BY DEF Serve
<1> HIDE DEF a
<1>4. ASSUME NEW p \in Paths, NEW e \in KnownEntries, remote' = With(remote, p, e), ParentsFit(remote, p)
      PROVE  Put(remote, remote', p, e)
  <2>1. \A q \in Paths :
           With(remote, p, e)[q] = IF q = p THEN e ELSE IF q \in Above(p) THEN Dir ELSE remote[q]
    BY <1>2, TreeOps
  <2> QED
    BY <1>4, <2>1 DEF Put, ParentsFit, IsFile
<1>5. CASE a.do = "Upload"
  <2>1. /\ local[a.path] \in Contents /\ ParentsFit(remote, a.path)
        /\ remote[a.path] = (IF listed[a.path] \in Contents THEN listed[a.path] ELSE None)
    BY <1>3, <1>5 DEF Accepts, IsFile
  <2>2. remote' = With(remote, a.path, local[a.path]) /\ trash' = trash
    BY <1>3, <1>5 DEF Served
  <2>3. Put(remote, remote', a.path, local[a.path])
    BY <1>1, <1>2, <1>4, <2>1, <2>2
  <2> QED
    BY <1>0, <1>1, <1>5, <2>1, <2>2, <2>3 DEF a
<1>6. CASE a.do = "SendCopy"
  <2>1. local[a.copy] \in Contents /\ ParentsFit(remote, a.copy) /\ remote[a.copy] = None
    BY <1>3, <1>6 DEF Accepts, IsFile
  <2>2. remote' = With(remote, a.copy, local[a.copy]) /\ trash' = trash
    BY <1>3, <1>6 DEF Served
  <2>3. Put(remote, remote', a.copy, local[a.copy])
    BY <1>1, <1>2, <1>4, <1>6, <2>1, <2>2
  <2> QED
    BY <1>0, <1>1, <1>6, <2>1, <2>2, <2>3 DEF a
<1>7. CASE a.do = "CreateRemoteDirectory"
  <2>1. ParentsFit(remote, a.path) /\ remote[a.path] = None
    BY <1>3, <1>7 DEF Accepts
  <2>2. remote' = With(remote, a.path, Dir) /\ trash' = trash
    BY <1>3, <1>7 DEF Served
  <2>3. Put(remote, remote', a.path, Dir)
    BY <1>1, <1>2, <1>4, <2>1, <2>2
  <2> QED
    BY <1>0, <1>1, <1>7, <2>1, <2>2, <2>3 DEF a
<1>8. CASE a.do \in {"DeleteRemote", "RemoveRemoteDirectory"}
  <2>1. remote' = Without(remote, a.path) /\ trash' = trash \cup (HeldIn(remote) \ HeldIn(remote'))
    BY <1>3, <1>8 DEF Served
  <2>2. \A q \in Paths : Without(remote, a.path)[q] = IF q = a.path \/ a.path \in Above(q) THEN None ELSE remote[q]
    BY <1>1, <1>2, TreeOps
  <2>3. Taken(remote, remote', a.path)
    BY <2>1, <2>2 DEF Taken
  <2> QED
    BY <1>0, <1>1, <1>8, <2>1, <2>3 DEF a
<1> QED
  BY <1>0, <1>5, <1>6, <1>7, <1>8 DEF OnServer

-----------------------------------------------------------------------------
(* What a step has to leave for each part of the invariant to stay.        *)

(* Contents go from a side once they are spent there, or move within it;   *)
(* what is recorded is on both sides.                                      *)
LEMMA ContentsKept ==
    ASSUME TypeInv', AgreedInv, NothingOverwritten, Spent \subseteq Spent',
           \A q \in Paths : local[q] \in Contents =>
              \/ local'[q] = local[q] \/ local[q] \in Spent'
              \/ remote[q] # local[q] /\ \E p \in Paths : local'[p] = local[q],
           \A q \in Paths : remote[q] \in Contents => remote'[q] = remote[q] \/ remote[q] \in Spent',
           \A q \in Paths :
              \/ tracked'[q] \in {tracked[q], saved[q]} \/ tracked'[q] \notin Contents
              \/ tracked'[q] \in Spent' \/ (local'[q] = tracked'[q] /\ remote'[q] = tracked'[q]),
           saved' = saved \/ saved' = tracked',
           \A c \in written' : c \in written \/ \E p \in Paths : local'[p] = c \/ remote'[p] = c
    PROVE  AgreedInv' /\ NothingOverwritten'
<1>1. ASSUME NEW q \in Paths, NEW e \in Contents, e \in {tracked[q], saved[q]}
      PROVE  e \in Spent' \/ (local'[q] = e /\ remote'[q] = e)
  <2>1. e \in Spent \/ (local[q] = e /\ remote[q] = e)
    BY <1>1 DEF AgreedInv, Agreed
  <2> QED
    BY <2>1
<1>2. \A q \in Paths : tracked'[q] \in Contents =>
         tracked'[q] \in Spent' \/ (local'[q] = tracked'[q] /\ remote'[q] = tracked'[q])
  BY <1>1
<1>3. \A q \in Paths : saved'[q] \in Contents =>
         saved'[q] \in Spent' \/ (local'[q] = saved'[q] /\ remote'[q] = saved'[q])
  BY <1>1, <1>2
<1>4. AgreedInv'
  BY <1>2, <1>3 DEF AgreedInv, Agreed
<1>5. ASSUME NEW c \in written', c \notin Spent'
      PROVE  c \in HeldIn(local') \cup HeldIn(remote')
  <2>1. c \in Contents
    <3>1. written' \subseteq Known' /\ Known' \subseteq Contents
      <4>1. edits' \in 0 .. MaxEdits /\ PathCount \in Nat /\ MaxEdits \in Nat
        BY PathsAssumption, BoundsAssumption DEF TypeInv
      <4> QED
        BY <4>1 DEF TypeInv, Known, Contents
    <3> QED
      BY <3>1
  <2>2. ASSUME \E p \in Paths : local'[p] = c \/ remote'[p] = c
        PROVE  c \in HeldIn(local') \cup HeldIn(remote')
    BY <2>1, <2>2 DEF HeldIn
  <2>3. CASE c \in written
    <3>1. c \in HeldIn(local) \cup HeldIn(remote)
      <4>1. c \notin Spent
        BY <1>5
      <4> QED
        BY <2>3, <4>1 DEF NothingOverwritten, Spent
    <3>2. PICK p \in Paths : local[p] = c \/ remote[p] = c
      BY <3>1 DEF HeldIn
    <3> QED
      BY <1>5, <2>1, <2>2, <3>2
  <2> QED
    BY <2>2, <2>3
<1>6. NothingOverwritten'
  BY <1>5 DEF NothingOverwritten, Spent
<1> QED
  BY <1>4, <1>6

(* A name that is free stays free until a conflict takes it.               *)
LEMMA CopyOnward ==
    ASSUME TypeInv, PlanInv, CopyInv, plan # <<>>, Onward,
           \/ stamped' = stamped
           \/ Action.do \in {"KeepBoth", "SetAside"} /\ stamped' = stamped \cup {Action.copy},
           scanned' = scanned, saved' = saved,
           \A c \in Copies \ stamped' : local'[c] = None /\ remote'[c] = None /\ tracked'[c] = None
    PROVE  CopyInv'
<1>1. stamped \subseteq stamped'
  OBVIOUS
<1>2. ASSUME NEW i \in DOMAIN plan'
      PROVE  /\ plan'[i].path \notin Copies \ stamped'
             /\ plan'[i].do \in {"KeepBoth", "SetAside"} => plan'[i].copy \notin stamped'
  <2>1. CASE \E j \in DOMAIN plan : j # 1 /\ plan'[i] = plan[j]
    <3>1. PICK j \in DOMAIN plan : j # 1 /\ plan'[i] = plan[j]
      BY <2>1
    <3>2. plan[j] \in Others
      BY <3>1 DEF Others
    <3>3. plan[j].do \in Conflicts /\ Action.do \in Conflicts => plan[j].copy # Action.copy
      BY <3>2, OthersDiffer
    <3> QED
      BY <1>1, <3>1, <3>3 DEF CopyInv, Conflicts
  <2>2. CASE Turned(plan'[i])
    <3>1. Action.path \notin Copies \ stamped
      BY PlanHead DEF CopyInv
    <3> QED
      BY <1>1, <2>2, <3>1 DEF Turned
  <2> QED
    BY <2>1, <2>2, OnwardEntries
<1>3. \A c \in Copies \ stamped' : scanned'[c] = None /\ saved'[c] = None
  BY <1>1 DEF CopyInv
<1> QED
  BY <1>2, <1>3 DEF CopyInv

(* What a pass brings to the folder was listed, or is a copy.              *)
LEMMA FitOnward ==
    ASSUME TypeInv, FitInv, plan # <<>>, Onward, phase = "applying", phase' = "applying",
           scanned' = scanned, listed' = listed, Hanging(local'), Hanging(remote'),
           \A q \in Paths : local'[q] # None =>
              local[q] # None \/ listed[q] # None \/ q \in Copies
    PROVE  FitInv'
<1>1. \A q \in Paths : local'[q] # None => scanned[q] # None \/ listed[q] # None \/ q \in Copies
  BY DEF FitInv
<1>2. Apart(local')
  <2> SUFFICES ASSUME NEW p \in Paths, NEW q \in Paths, p # q, Folded[p] = Folded[q],
                      local'[p] # None, local'[q] # None
               PROVE  FALSE
    BY DEF Apart
  <2>1. p \notin Copies /\ q \notin Copies
    BY CopiesAssumption
  <2>2. listed[p] = None /\ listed[q] = None
    BY <1>1, <2>1 DEF FitInv
  <2> QED
    BY <1>1, <2>1, <2>2 DEF FitInv, Apart
<1>3. ASSUME NEW i \in DOMAIN plan', plan'[i].do \in Conflicts \cup {"CreateLocalDirectory", "Download"}
      PROVE  listed[plan'[i].path] # None
  <2>1. CASE \E j \in DOMAIN plan : j # 1 /\ plan'[i] = plan[j]
    BY <1>3, <2>1 DEF FitInv
  <2>2. CASE Turned(plan'[i])
    <3>1. Action.do \in Conflicts
      BY <2>2 DEF Turned, Conflicts
    <3> QED
      BY <2>2, <3>1, PlanHead DEF FitInv, Turned
  <2> QED
    BY <2>1, <2>2, OnwardEntries
<1>4. Apart(scanned')
  BY DEF FitInv
<1>5. Hanging(local)' /\ Hanging(remote)' /\ Apart(local)' /\ Apart(scanned)'
  BY <1>2, <1>4 DEF Hanging, Apart
<1>6. \A p \in Paths :
          listed'[p] # None =>
            /\ \A q \in Above(p) : listed'[q] # None
            /\ \A q \in Paths \ {p} :
                  Folded[p] = Folded[q] => scanned'[q] = None /\ listed'[q] = None
  BY DEF FitInv
<1> QED
  BY <1>1, <1>3, <1>5, <1>6 DEF FitInv, Above

(* The other entries stay due, and what the first is turned into is.       *)
LEMMA PendingOnward ==
    ASSUME TypeInv, PlanInv, PendingInv, plan # <<>>, Onward, phase = "applying",
           scanned' = scanned, listed' = listed, Spent \subseteq Spent',
           NEW X \in SUBSET Paths,
           \A b \in Others : b.path \notin X,
           \A q \in X : ~(scanned[q] = Dir /\ listed[q] = Dir),
           \A q \in Paths \ X :
              /\ local'[q] = local[q] \/ (local[q] \notin Contents /\ local'[q] \notin Contents)
              /\ remote'[q] = remote[q] \/ remote'[q] \notin Contents
              /\ tracked'[q] = tracked[q] \/ tracked'[q] \notin Contents,
           \A q \in Paths : remote[q] \in Contents => remote'[q] = remote[q] \/ remote[q] \in Spent',
           1 \in DOMAIN plan' /\ Turned(plan'[1]) =>
              LET b == plan'[1] p == Action.path c == Action.copy IN
              /\ Due(b.do, local'[p], remote'[p], tracked'[p], scanned[p], listed[p], Spent')
              /\ b.do = "SendCopy" => /\ local'[c] = scanned[p] /\ tracked'[c] = None
                                      /\ c # p /\ \A o \in Others : o.path # c
    PROVE  PendingInv'
<1> DEFINE Good(a) ==
      /\ Due(a.do, local'[a.path], remote'[a.path], tracked'[a.path], scanned[a.path], listed[a.path], Spent')
      /\ a.do = "SendCopy" => /\ local'[a.copy] = scanned[a.path] /\ tracked'[a.copy] = None
                              /\ \A j \in DOMAIN plan' : plan'[j].path # a.copy
<1>1. ASSUME NEW i \in DOMAIN plan' PROVE Good(plan'[i])
  <2>1. CASE \E j \in DOMAIN plan : j # 1 /\ plan'[i] = plan[j]
    <3>1. PICK j \in DOMAIN plan : j # 1 /\ plan'[i] = plan[j]
      BY <2>1
    <3> DEFINE b == plan[j] q == b.path
    <3>2. b \in Others
      BY <3>1 DEF Others
    <3>3. q \in Paths /\ b.do # "SendCopy" /\ q \notin X
      BY <3>2, OthersDiffer
    <3>4. Due(b.do, local[q], remote[q], tracked[q], scanned[q], listed[q], Spent)
      BY <3>1 DEF PendingInv
    <3>5. scanned[q] \in Contents \/ ~(b.do \in {"KeepBoth", "SetAside"})
      BY <3>4 DEF Due
    <3> HIDE DEF b
    <3>6. Due(b.do, local'[q], remote'[q], tracked'[q], scanned[q], listed[q], Spent')
      BY <3>3, <3>4, DueKept
    <3> QED
      BY <3>1, <3>3, <3>6 DEF b
  <2>2. CASE i = 1 /\ Turned(plan'[i])
    <3>1. ASSUME NEW j \in DOMAIN plan', plan'[1].do = "SendCopy" PROVE plan'[j].path # Action.copy
      <4>1. CASE \E k \in DOMAIN plan : k # 1 /\ plan'[j] = plan[k]
        BY <2>2, <3>1, <4>1 DEF Others
      <4>2. CASE Turned(plan'[j])
        BY <2>2, <3>1, <4>2 DEF Turned
      <4> QED
        BY <4>1, <4>2, OnwardEntries
    <3>2. plan'[1].path = Action.path /\ plan'[1].copy = Action.copy
      BY <2>2 DEF Turned
    <3> QED
      BY <2>2, <3>1, <3>2
  <2> QED
    BY <2>1, <2>2, OnwardEntries
<1>2. ASSUME NEW p \in Paths
      PROVE  /\ listed[p] \in Contents => remote'[p] = listed[p] \/ listed[p] \in Spent'
             /\ scanned[p] = Dir /\ listed[p] = Dir =>
                   local'[p] \notin Contents /\ (remote'[p] \in Contents => remote'[p] # tracked'[p])
  <2>1. /\ listed[p] \in Contents => remote[p] = listed[p] \/ listed[p] \in Spent
        /\ scanned[p] = Dir /\ listed[p] = Dir =>
              local[p] \notin Contents /\ (remote[p] \in Contents => remote[p] # tracked[p])
    BY DEF PendingInv
  <2>2. scanned[p] = Dir /\ listed[p] = Dir => p \notin X
    OBVIOUS
  <2> QED
    BY <2>1, <2>2
<1> QED
  BY <1>1, <1>2 DEF PendingInv

-----------------------------------------------------------------------------
(* What users do.                                                          *)

(* What is found in the folder or on the server is all that was.           *)
SyncInv ==
    /\ TypeInv /\ PlanInv /\ CopyInv /\ FitInv /\ PlaceInv /\ PendingInv
    /\ AgreedInv /\ SeenInv /\ NothingOverwritten

(* What was removed on a side stays away from it, in one step.             *)
Stays ==
    ~forgetful' =>
        /\ bygone["local"] \cap HeldIn(local)' \subseteq HeldIn(local)
        /\ bygone["remote"] \cap HeldIn(remote)' \subseteq HeldIn(remote)

(* An edit of a tree at p, after which gone is no longer in it.            *)
EditOf(old, new, p, gone) ==
    /\ Hanging(new)
    /\ \A q \in Paths :
          /\ new[q] = old[q] \/ new[q] \notin Contents \/ (q = p /\ new[q] = edits + 1)
          /\ old[q] \in Contents => new[q] = old[q] \/ old[q] \in gone
          /\ new[q] # None => old[q] # None \/ (q = p /\ p \in Folders \cup Files)
    /\ \A c \in gone : c \in Contents /\ \E q \in Paths : old[q] = c

(* Saving, making a folder and removing are edits.                         *)
LEMMA EditIs ==
    ASSUME TypeInv, NEW old \in {local, remote}, NEW new, NEW p \in Paths, NEW gone, Hanging(old),
           \A x, y \in Paths : x # y /\ old[x] \in Contents => old[y] # old[x],
           \/ /\ InPlace(old, p) /\ old[p] # Dir
              /\ new = [old EXCEPT ![p] = edits + 1] /\ gone = {old[p]} \cap Contents
           \/ /\ InPlace(old, p) /\ old[p] = None
              /\ new = [old EXCEPT ![p] = Dir] /\ gone = {}
           \/ /\ old[p] # None
              /\ new = Without(old, p) /\ gone = HeldIn(old) \ HeldIn(new)
    PROVE  EditOf(old, new, p, gone)
<1>0. /\ old \in [Paths -> KnownEntries] /\ None \in KnownEntries /\ Dir \in KnownEntries
      /\ None \notin Contents /\ Dir \notin Contents /\ None # Dir
  BY SixTrees
<1>1. CASE /\ InPlace(old, p) /\ old[p] # Dir
           /\ new = [old EXCEPT ![p] = edits + 1] /\ gone = {old[p]} \cap Contents
  <2>1. Changed(old, new, p, edits + 1)
    BY <1>0, <1>1 DEF Changed
  <2>2. Hanging(new)
    BY <1>1, <2>1, ChangedHangs DEF InPlace
  <2> QED
    BY <1>1, <2>1, <2>2 DEF EditOf, Changed, InPlace
<1>2. CASE /\ InPlace(old, p) /\ old[p] = None
           /\ new = [old EXCEPT ![p] = Dir] /\ gone = {}
  <2>1. Changed(old, new, p, Dir)
    BY <1>0, <1>2 DEF Changed
  <2>2. Hanging(new)
    BY <1>2, <2>1, ChangedHangs DEF InPlace
  <2> QED
    BY <1>0, <1>2, <2>1, <2>2 DEF EditOf, Changed, InPlace
<1>3. CASE old[p] # None /\ new = Without(old, p) /\ gone = HeldIn(old) \ HeldIn(new)
  <2>1. Taken(old, new, p)
    BY <1>0, <1>3, TreeOps DEF Taken
  <2>2. Hanging(new)
    BY <2>1, TakenHangs
  <2>3. ASSUME NEW q \in Paths, old[q] \in Contents, new[q] # old[q] PROVE old[q] \in gone
    <3>1. new[q] = None
      BY <2>1, <2>3 DEF Taken
    <3>2. \A y \in Paths : new[y] # old[q]
      BY <1>0, <2>1, <2>3, <3>1 DEF Taken
    <3> QED
      BY <1>3, <2>3, <3>2 DEF HeldIn
  <2>4. \A c \in gone : c \in Contents /\ \E q \in Paths : old[q] = c
    BY <1>3 DEF HeldIn
  <2> QED
    BY <1>0, <2>1, <2>2, <2>3, <2>4 DEF EditOf, Taken
<1> QED
  BY <1>1, <1>2, <1>3

(* The user of the folder.                                                 *)
LEMMA LocalUserIs ==
    ASSUME TypeInv, FitInv, PlaceInv, EditsDuringPass = FALSE, LocalUser
    PROVE  /\ phase = "idle" /\ remote' = remote /\ trash' = trash
           /\ edits < MaxEdits /\ edits' = edits + 1
           /\ UNCHANGED <<stateVars, passVars, forgetful>>
           /\ \E p \in Paths, gone \in SUBSET Contents :
                 /\ EditOf(local, local', p, gone)
                 /\ local'[p] # None => NameFits(p)
                 /\ bygone'["local"] = bygone["local"] \cup gone /\ bygone'["remote"] = bygone["remote"]
                 /\ \A c \in written' : c \in written \/ local'[p] = c
<1>0. local \in [Paths -> KnownEntries] /\ DOMAIN bygone = {"local", "remote"}
  BY SixTrees DEF TypeInv
<1>1. Hanging(local) /\ \A x, y \in Paths : x # y /\ local[x] \in Contents => local[y] # local[x]
  BY DEF FitInv, PlaceInv, Placed
<1>2. PICK p \in Paths : LocalSave(p) \/ LocalMkdir(p) \/ LocalRemove(p)
  BY DEF LocalUser
<1>3. CASE LocalSave(p)
  <2> DEFINE gone == {local[p]} \cap Contents
  <2>1. EditOf(local, local', p, gone)
    BY <1>1, <1>3, EditIs DEF LocalSave
  <2>2. local'[p] = edits + 1
    BY <1>0, <1>3 DEF LocalSave
  <2> QED
    BY <1>0, <1>3, <2>1, <2>2 DEF LocalSave, MayEdit, Edited
<1>4. CASE LocalMkdir(p)
  <2>1. EditOf(local, local', p, {})
    BY <1>1, <1>4, EditIs DEF LocalMkdir
  <2> QED
    BY <1>0, <1>4, <2>1 DEF LocalMkdir, MayEdit, Edited
<1>5. CASE LocalRemove(p)
  <2> DEFINE gone == HeldIn(local) \ HeldIn(local')
  <2>1. EditOf(local, local', p, gone) /\ gone \in SUBSET Contents
    BY <1>1, <1>5, EditIs DEF LocalRemove, HeldIn
  <2>2. local'[p] = None
    BY <1>5 DEF LocalRemove, Without, Below
  <2> HIDE DEF gone
  <2>3. /\ bygone'["local"] = bygone["local"] \cup gone /\ bygone'["remote"] = bygone["remote"]
        /\ written' = written
    BY <1>0, <1>5 DEF LocalRemove, Edited, gone
  <2> QED
    BY <1>5, <2>1, <2>2, <2>3 DEF LocalRemove, MayEdit, Edited
<1> QED
  BY <1>2, <1>3, <1>4, <1>5

(* Users of the server.                                                    *)
LEMMA RemoteUserIs ==
    ASSUME TypeInv, FitInv, PlaceInv, RemoteUser
    PROVE  /\ local' = local /\ trash' = trash
           /\ edits < MaxEdits /\ edits' = edits + 1
           /\ UNCHANGED <<stateVars, passVars, forgetful>>
           /\ \E p \in Paths, gone \in SUBSET Contents :
                 /\ EditOf(remote, remote', p, gone)
                 /\ bygone'["remote"] = bygone["remote"] \cup gone /\ bygone'["local"] = bygone["local"]
                 /\ \A c \in written' : c \in written \/ remote'[p] = c
<1>0. remote \in [Paths -> KnownEntries] /\ DOMAIN bygone = {"local", "remote"}
  BY SixTrees DEF TypeInv
<1>1. Hanging(remote) /\ \A x, y \in Paths : x # y /\ remote[x] \in Contents => remote[y] # remote[x]
  BY DEF FitInv, PlaceInv, Placed
<1>2. PICK p \in Paths : RemoteSave(p) \/ RemoteMkdir(p) \/ RemoteRemove(p)
  BY DEF RemoteUser
<1>3. CASE RemoteSave(p)
  <2> DEFINE gone == {remote[p]} \cap Contents
  <2>1. EditOf(remote, remote', p, gone)
    BY <1>1, <1>3, EditIs DEF RemoteSave
  <2>2. remote'[p] = edits + 1
    BY <1>0, <1>3 DEF RemoteSave
  <2> QED
    BY <1>0, <1>3, <2>1, <2>2 DEF RemoteSave, MayEdit, Edited
<1>4. CASE RemoteMkdir(p)
  <2>1. EditOf(remote, remote', p, {})
    BY <1>1, <1>4, EditIs DEF RemoteMkdir
  <2> QED
    BY <1>0, <1>4, <2>1 DEF RemoteMkdir, MayEdit, Edited
<1>5. CASE RemoteRemove(p)
  <2> DEFINE gone == HeldIn(remote) \ HeldIn(remote')
  <2>1. EditOf(remote, remote', p, gone) /\ gone \in SUBSET Contents
    BY <1>1, <1>5, EditIs DEF RemoteRemove, HeldIn
  <2> HIDE DEF gone
  <2>3. /\ bygone'["remote"] = bygone["remote"] \cup gone /\ bygone'["local"] = bygone["local"]
        /\ written' = written
    BY <1>0, <1>5 DEF RemoteRemove, Edited, gone
  <2> QED
    BY <1>5, <2>1, <2>3 DEF RemoteRemove, MayEdit, Edited
<1> QED
  BY <1>2, <1>3, <1>4, <1>5

(* What a side has seen.                                                   *)
LEMMA SeenIs ==
    ASSUME TypeInv
    PROVE  /\ SeenHere \subseteq Known /\ SeenThere \subseteq Known
           /\ bygone["local"] \subseteq Known /\ bygone["remote"] \subseteq Known
           /\ \A c : c \in SeenHere <=> c \in bygone["local"] \/ (c \in Contents /\ \E q \in Paths : local[q] = c)
           /\ \A c : c \in SeenThere <=> c \in bygone["remote"] \/ (c \in Contents /\ \E q \in Paths : remote[q] = c)
<1>1. HeldIn(local) \subseteq Known /\ HeldIn(remote) \subseteq Known
  BY Holds DEF TypeInv
<1>2. bygone["local"] \subseteq Known /\ bygone["remote"] \subseteq Known
  BY DEF TypeInv
<1> QED
  BY <1>1, <1>2 DEF SeenHere, SeenThere, HeldIn

(* An edit on one side says nothing of the other, which has not seen it.   *)
LEMMA LocalUserKeeps ==
    ASSUME SyncInv, EditsDuringPass = FALSE, LocalUser
    PROVE  SyncInv' /\ Stays
<1> DEFINE n == edits + 1
<1>a. TypeInv /\ FitInv /\ PlaceInv /\ PlanInv /\ CopyInv /\ AgreedInv /\ SeenInv /\ NothingOverwritten
  BY DEF SyncInv
<1>t. TypeInv' /\ PlanInv'
  BY <1>a, TypesStay, PlanStays DEF Next
<1>1. /\ phase = "idle" /\ remote' = remote /\ trash' = trash
      /\ edits < MaxEdits /\ edits' = edits + 1
      /\ UNCHANGED <<stateVars, passVars, forgetful>>
  BY <1>a, LocalUserIs
<1>2. PICK p \in Paths, gone \in SUBSET Contents :
         /\ EditOf(local, local', p, gone)
         /\ local'[p] # None => NameFits(p)
         /\ bygone'["local"] = bygone["local"] \cup gone /\ bygone'["remote"] = bygone["remote"]
         /\ \A c \in written' : c \in written \/ local'[p] = c
  BY <1>a, LocalUserIs
<1>3. n \notin Known /\ n # None /\ n # Dir
  BY <1>a, <1>1, EditsAreNew
<1>4. \A t \in {local, remote, tracked, saved, scanned, listed}, q \in Paths :
         t[q] # n /\ (t[q] \in Contents \/ t[q] = None \/ t[q] = Dir)
  BY <1>a, <1>3, SixTrees
<1> HIDE DEF n
<1>5. plan = <<>> /\ plan' = <<>> /\ phase' = "idle"
  BY <1>a, <1>1 DEF PlanInv, passVars
<1>6. CopyInv'
  <2>1. \A c \in Copies : c \notin Folders \cup Files /\ c \in Paths
    BY CopiesAssumption, CopiesAreLeaves
  <2>2. \A c \in Copies \ stamped : local'[c] = None
    BY <1>2, <1>a, <2>1 DEF EditOf, CopyInv
  <2> QED
    BY <1>a, <1>1, <1>5, <2>2 DEF CopyInv, passVars, stateVars
<1>7. FitInv'
  <2>1. Hanging(local') /\ Hanging(remote')
    BY <1>a, <1>1, <1>2 DEF EditOf, FitInv
  <2>2. Apart(local')
    <3> SUFFICES ASSUME NEW x \in Paths, NEW y \in Paths, x # y, Folded[x] = Folded[y],
                        local'[x] # None, local'[y] # None
                 PROVE  FALSE
      BY DEF Apart
    <3>1. \A q \in Paths : local'[q] # None => local[q] # None \/ q = p
      BY <1>2 DEF EditOf
    <3>2. CASE x = p \/ y = p
      BY <1>2, <3>1, <3>2 DEF NameFits
    <3>3. CASE x # p /\ y # p
      BY <1>a, <3>1, <3>3 DEF FitInv, Apart
    <3> QED
      BY <3>2, <3>3
  <2>3. Hanging(local)' /\ Hanging(remote)' /\ Apart(local)' /\ Apart(scanned)'
    BY <1>a, <1>1, <2>1, <2>2 DEF Hanging, Apart, FitInv, passVars
  <2> QED
    BY <1>5, <2>3 DEF FitInv
<1>8. PlaceInv'
  <2>1. \A q \in Paths :
           /\ local'[q] \in {local[q], remote[q]} \/ local'[q] \notin Contents \/ (q = p /\ local'[q] = n)
           /\ remote'[q] \in {local[q], remote[q]} \/ remote'[q] \notin Contents \/ (q = p /\ remote'[q] = n)
    BY <1>1, <1>2 DEF EditOf, n
  <2>2. Placed(local', remote')
    <3>1. \A q \in Paths : local[q] # n /\ remote[q] # n
      BY <1>4
    <3>2. Placed(local, remote)
      BY <1>a DEF PlaceInv
    <3> QED
      BY <2>1, <3>1, <3>2, PlaceKept
  <2> QED
    BY <2>2 DEF PlaceInv, Placed
<1>9. PendingInv'
  BY <1>5 DEF PendingInv
<1>10. AgreedInv' /\ NothingOverwritten'
  <2>1. Spent' = Spent \cup gone
    BY <1>1, <1>2 DEF Spent
  <2>2. \A q \in Paths : local[q] \in Contents => local'[q] = local[q] \/ local[q] \in Spent'
    BY <1>2, <2>1 DEF EditOf
  <2>3. tracked' = tracked /\ saved' = saved
    BY <1>1 DEF stateVars
  <2> QED
    BY <1>a, <1>t, <1>1, <1>2, <2>1, <2>2, <2>3, ContentsKept
<1>11. \A c : c \in SeenHere' => c \in SeenHere \/ c = n
  <2>1. \A c \in gone : c \in Contents /\ \E q \in Paths : local[q] = c
    BY <1>2 DEF EditOf
  <2>2. \A c \in HeldIn(local') : c = n \/ (c \in Contents /\ \E q \in Paths : local[q] = c)
    BY <1>2 DEF EditOf, HeldIn, n
  <2> QED
    BY <1>a, <1>2, <2>1, <2>2, SeenIs DEF SeenHere
<1>12. SeenThere' = SeenThere
  BY <1>1, <1>2 DEF SeenThere
<1>13. SeenInv'
  <2> SUFFICES ASSUME ~forgetful', NEW q \in Paths
               PROVE  /\ remote'[q] \in SeenHere' => tracked'[q] = remote'[q]
                      /\ local'[q] \in SeenThere' => tracked'[q] = local'[q]
    BY DEF SeenInv
  <2>1. ~forgetful /\ tracked' = tracked /\ remote' = remote
    BY <1>1 DEF stateVars
  <2>2. remote[q] \in SeenHere => tracked[q] = remote[q]
    BY <1>a, <2>1 DEF SeenInv
  <2>3. local[q] \in SeenThere => tracked[q] = local[q]
    BY <1>a, <2>1 DEF SeenInv
  <2>4. local'[q] \in SeenThere => local'[q] = local[q]
    <3>1. SeenThere \subseteq Contents /\ n \notin SeenThere
      BY <1>a, <1>3, SeenIs, EntriesApart
    <3> QED
      BY <1>2, <3>1 DEF EditOf, n
  <2> QED
    BY <1>4, <1>11, <1>12, <2>1, <2>2, <2>3, <2>4
<1>14. Stays
  <2>1. \A c \in HeldIn(local') : c = n \/ c \in HeldIn(local)
    BY <1>2 DEF EditOf, HeldIn, n
  <2>2. n \notin bygone["local"]
    BY <1>a, <1>3, SeenIs
  <2> QED
    BY <1>1, <2>1, <2>2 DEF Stays, HeldIn
<1> QED
  BY <1>t, <1>6, <1>7, <1>8, <1>9, <1>10, <1>13, <1>14 DEF SyncInv

(* So does one on the server, in the middle of a pass too.                 *)
LEMMA RemoteUserKeeps ==
    ASSUME SyncInv, RemoteUser
    PROVE  SyncInv' /\ Stays
<1> DEFINE n == edits + 1
<1>a. TypeInv /\ FitInv /\ PlaceInv /\ PlanInv /\ CopyInv /\ PendingInv /\ AgreedInv /\ SeenInv
      /\ NothingOverwritten
  BY DEF SyncInv
<1>t. TypeInv' /\ PlanInv'
  BY <1>a, TypesStay, PlanStays DEF Next
<1>1. /\ local' = local /\ trash' = trash
      /\ edits < MaxEdits /\ edits' = edits + 1
      /\ UNCHANGED <<stateVars, passVars, forgetful>>
  BY <1>a, RemoteUserIs
<1>2. PICK p \in Paths, gone \in SUBSET Contents :
         /\ EditOf(remote, remote', p, gone)
         /\ bygone'["remote"] = bygone["remote"] \cup gone /\ bygone'["local"] = bygone["local"]
         /\ \A c \in written' : c \in written \/ remote'[p] = c
  BY <1>a, RemoteUserIs
<1>3. n \notin Known /\ n # None /\ n # Dir
  BY <1>a, <1>1, EditsAreNew
<1>4. \A t \in {local, remote, tracked, saved, scanned, listed}, q \in Paths :
         t[q] # n /\ (t[q] \in Contents \/ t[q] = None \/ t[q] = Dir)
  BY <1>a, <1>3, SixTrees
<1> HIDE DEF n
<1>5. /\ plan' = plan /\ phase' = phase /\ scanned' = scanned /\ listed' = listed /\ stamped' = stamped
      /\ tracked' = tracked /\ saved' = saved /\ forgetful' = forgetful
  BY <1>1 DEF passVars, stateVars
<1>6. CopyInv'
  <2>1. \A c \in Copies : c \notin Folders \cup Files /\ c \in Paths
    BY CopiesAssumption, CopiesAreLeaves
  <2>2. \A c \in Copies \ stamped : remote'[c] = None
    BY <1>2, <1>a, <2>1 DEF EditOf, CopyInv
  <2> QED
    BY <1>a, <1>1, <1>5, <2>2 DEF CopyInv
<1>7. FitInv'
  <2>1. Hanging(remote') /\ Hanging(local')
    BY <1>a, <1>1, <1>2 DEF EditOf, FitInv
  <2>2. Hanging(local)' /\ Hanging(remote)' /\ Apart(local)' /\ Apart(scanned)'
    BY <1>a, <1>1, <1>5, <2>1 DEF Hanging, Apart, FitInv
  <2> QED
    BY <1>a, <1>1, <1>5, <2>2 DEF FitInv, Above
<1>8. PlaceInv'
  <2>1. \A q \in Paths :
           /\ local'[q] \in {local[q], remote[q]} \/ local'[q] \notin Contents \/ (q = p /\ local'[q] = n)
           /\ remote'[q] \in {local[q], remote[q]} \/ remote'[q] \notin Contents \/ (q = p /\ remote'[q] = n)
    BY <1>1, <1>2 DEF EditOf, n
  <2>2. Placed(local', remote')
    <3>1. \A q \in Paths : local[q] # n /\ remote[q] # n
      BY <1>4
    <3>2. Placed(local, remote)
      BY <1>a DEF PlaceInv
    <3> QED
      BY <2>1, <3>1, <3>2, PlaceKept
  <2> QED
    BY <2>2 DEF PlaceInv, Placed
<1>s. Spent' = Spent \cup gone
  BY <1>1, <1>2 DEF Spent
<1>r. \A q \in Paths : remote[q] \in Contents => remote'[q] = remote[q] \/ remote[q] \in Spent'
  BY <1>2, <1>s DEF EditOf
<1>9. PendingInv'
  <2>1. \A q \in Paths : remote'[q] = remote[q] \/ remote'[q] \notin Contents
                         \/ (remote'[q] # scanned[q] /\ remote'[q] # tracked[q])
    BY <1>2, <1>4 DEF EditOf, n
  <2>2. ASSUME NEW i \in DOMAIN plan
        PROVE  LET a == plan[i] q == a.path IN
               Due(a.do, local[q], remote'[q], tracked[q], scanned[q], listed[q], Spent')
    <3> DEFINE a == plan[i] q == a.path
    <3>1. q \in Paths
      <4>1. a \in PlannedActions
        BY <1>a DEF TypeInv
      <4> QED
        BY <4>1 DEF PlannedActions
    <3>2. Due(a.do, local[q], remote[q], tracked[q], scanned[q], listed[q], Spent)
      BY <1>a DEF PendingInv
    <3>3. Spent \subseteq Spent'
      BY <1>s
    <3> HIDE DEF a
    <3>4. Due(a.do, local[q], remote'[q], tracked[q], scanned[q], listed[q], Spent')
      BY <2>1, <3>1, <3>2, <3>3, DueKept
    <3> QED
      BY <3>4 DEF a
  <2>3. \A i \in DOMAIN plan : LET a == plan[i] IN
           a.do = "SendCopy" =>
                /\ local[a.copy] = scanned[a.path] /\ tracked[a.copy] = None
                /\ \A j \in DOMAIN plan : plan[j].path # a.copy
    BY <1>a DEF PendingInv
  <2>4. ASSUME phase = "applying", NEW q \in Paths
        PROVE  /\ listed[q] \in Contents => remote'[q] = listed[q] \/ listed[q] \in Spent'
               /\ scanned[q] = Dir /\ listed[q] = Dir =>
                     local[q] \notin Contents /\ (remote'[q] \in Contents => remote'[q] # tracked[q])
    <3>1. /\ listed[q] \in Contents => remote[q] = listed[q] \/ listed[q] \in Spent
          /\ scanned[q] = Dir /\ listed[q] = Dir =>
                local[q] \notin Contents /\ (remote[q] \in Contents => remote[q] # tracked[q])
      BY <1>a, <2>4 DEF PendingInv
    <3> QED
      BY <1>r, <1>s, <2>1, <3>1
  <2> QED
    BY <1>1, <1>5, <2>2, <2>3, <2>4 DEF PendingInv
<1>10. AgreedInv' /\ NothingOverwritten'
  BY <1>a, <1>t, <1>1, <1>2, <1>5, <1>r, <1>s, ContentsKept
<1>11. \A c : c \in SeenThere' => c \in SeenThere \/ c = n
  <2>1. \A c \in gone : c \in Contents /\ \E q \in Paths : remote[q] = c
    BY <1>2 DEF EditOf
  <2>2. \A c \in HeldIn(remote') : c = n \/ (c \in Contents /\ \E q \in Paths : remote[q] = c)
    BY <1>2 DEF EditOf, HeldIn, n
  <2> QED
    BY <1>a, <1>2, <2>1, <2>2, SeenIs DEF SeenThere
<1>12. SeenHere' = SeenHere
  BY <1>1, <1>2 DEF SeenHere
<1>13. SeenInv'
  <2> SUFFICES ASSUME ~forgetful', NEW q \in Paths
               PROVE  /\ remote'[q] \in SeenHere' => tracked'[q] = remote'[q]
                      /\ local'[q] \in SeenThere' => tracked'[q] = local'[q]
    BY DEF SeenInv
  <2>2. remote[q] \in SeenHere => tracked[q] = remote[q]
    BY <1>a, <1>5 DEF SeenInv
  <2>3. local[q] \in SeenThere => tracked[q] = local[q]
    BY <1>a, <1>5 DEF SeenInv
  <2>4. remote'[q] \in SeenHere => remote'[q] = remote[q]
    <3>1. SeenHere \subseteq Contents /\ n \notin SeenHere
      BY <1>a, <1>3, SeenIs, EntriesApart
    <3> QED
      BY <1>2, <3>1 DEF EditOf, n
  <2> QED
    BY <1>1, <1>4, <1>5, <1>11, <1>12, <2>2, <2>3, <2>4
<1>14. Stays
  <2>1. \A c \in HeldIn(remote') : c = n \/ c \in HeldIn(remote)
    BY <1>2 DEF EditOf, HeldIn, n
  <2>2. n \notin bygone["remote"]
    BY <1>a, <1>3, SeenIs
  <2> QED
    BY <1>1, <2>1, <2>2 DEF Stays, HeldIn
<1> QED
  BY <1>t, <1>6, <1>7, <1>8, <1>9, <1>10, <1>13, <1>14 DEF SyncInv

-----------------------------------------------------------------------------
(* The beginning and the end of a pass.                                    *)

(* The name of a copy is a path.                                           *)
LEMMA CopiesArePaths == Copies \subseteq Paths
<1> SUFFICES ASSUME NEW c \in Copies PROVE c \in Paths
  OBVIOUS
<1>1. PICK p \in Paths : c \in Range(CopiesOf[p])
  BY DEF Copies
<1> QED
  BY <1>1, CopyOf

(* What neither side nor the state file is touched by.                     *)
LEMMA Untouched ==
    ASSUME SyncInv, TypeInv', UNCHANGED <<folderVars, userVars>>,
           \A q \in Paths : tracked'[q] \in {tracked[q], saved[q]} \/ tracked'[q] = Dir,
           saved' = saved \/ saved' = tracked',
           ~forgetful' => /\ ~forgetful
                          /\ \A q \in Paths : \/ tracked'[q] = tracked[q]
                                              \/ /\ local[q] \notin Contents
                                                 /\ remote[q] \in Contents => remote[q] # tracked[q]
    PROVE  PlaceInv' /\ AgreedInv' /\ NothingOverwritten' /\ SeenInv' /\ Stays
<1>a. TypeInv /\ PlaceInv /\ AgreedInv /\ SeenInv /\ NothingOverwritten
  BY DEF SyncInv
<1>1. local' = local /\ remote' = remote /\ trash' = trash /\ bygone' = bygone /\ written' = written
  BY DEF folderVars, userVars
<1>2. PlaceInv'
  BY <1>a, <1>1 DEF PlaceInv, Placed
<1>3. Spent' = Spent
  BY <1>1 DEF Spent
<1>4. AgreedInv' /\ NothingOverwritten'
  <2>1. \A q \in Paths : tracked'[q] \in {tracked[q], saved[q]} \/ tracked'[q] \notin Contents
    BY BoundsAssumption
  <2> QED
    BY <1>a, <1>1, <1>3, <2>1, ContentsKept
<1>5. SeenHere' = SeenHere /\ SeenThere' = SeenThere
  BY <1>1 DEF SeenHere, SeenThere
<1>6. SeenInv'
  <2> SUFFICES ASSUME ~forgetful', NEW q \in Paths
               PROVE  /\ remote'[q] \in SeenHere' => tracked'[q] = remote'[q]
                      /\ local'[q] \in SeenThere' => tracked'[q] = local'[q]
    BY DEF SeenInv
  <2>1. SeenHere \subseteq Contents /\ SeenThere \subseteq Contents
    BY <1>a, SeenIs, EntriesApart
  <2>2. /\ remote[q] \in SeenHere => tracked[q] = remote[q]
        /\ local[q] \in SeenThere => tracked[q] = local[q]
    BY <1>a DEF SeenInv
  <2> QED
    BY <1>1, <1>5, <2>1, <2>2
<1>7. Stays
  BY <1>1 DEF Stays
<1> QED
  BY <1>2, <1>4, <1>6, <1>7

(* A pass that has ended has nothing to do, and has recorded directories.  *)
LEMMA EndKeeps ==
    ASSUME SyncInv, Finish \/ SaveFails \/ ListFails \/ DirectoryGone \/ Crash
    PROVE  SyncInv' /\ Stays
<1>a. TypeInv /\ FitInv /\ PlanInv /\ CopyInv /\ PendingInv
  BY DEF SyncInv
<1>t. TypeInv' /\ PlanInv'
  <2>1. Next
    BY DEF Next, Steps, Disturbed, Walks
  <2> QED
    BY <1>a, <2>1, TypesStay, PlanStays
<1>1. /\ phase' = "idle" /\ scanned' = Nothing /\ listed' = Nothing /\ plan' = <<>>
      /\ local' = local /\ remote' = remote /\ stamped' = stamped
      /\ UNCHANGED <<folderVars, userVars>>
  BY DEF Finish, SaveFails, ListFails, DirectoryGone, Crash, EndPass, folderVars
<1>2. /\ \A q \in Paths : tracked'[q] \in {tracked[q], saved[q]} \/ tracked'[q] = Dir
      /\ saved' = saved \/ saved' = tracked'
      /\ \A q \in Paths : tracked[q] = None /\ saved[q] = None => tracked'[q] = None \/ scanned[q] = Dir
      /\ ~forgetful' => /\ ~forgetful
                        /\ \A q \in Paths : \/ tracked'[q] = tracked[q]
                                            \/ /\ local[q] \notin Contents
                                               /\ remote[q] \in Contents => remote[q] # tracked[q]
  <2>1. CASE ListFails \/ DirectoryGone
    BY <2>1 DEF ListFails, DirectoryGone, stateVars
  <2>2. CASE Crash
    BY <2>2 DEF Crash
  <2>3. CASE Finish \/ SaveFails
    <3>1. /\ \A q \in Paths : tracked'[q] = IF scanned[q] = Dir /\ listed[q] = Dir THEN Dir ELSE tracked[q]
          /\ saved' = saved \/ saved' = tracked'
          /\ forgetful' = forgetful /\ phase = "applying"
      BY <2>3 DEF Finish, SaveFails, record_agreed_directories
    <3>2. \A q \in Paths : scanned[q] = Dir /\ listed[q] = Dir =>
             local[q] \notin Contents /\ (remote[q] \in Contents => remote[q] # tracked[q])
      BY <1>a, <3>1 DEF PendingInv
    <3> QED
      BY <3>1, <3>2
  <2> QED
    BY <2>1, <2>2, <2>3
<1>3. CopyInv'
  <2>1. \A c \in Copies : c \in Paths /\ Nothing[c] = None
    BY CopiesArePaths DEF Nothing
  <2>2. \A c \in Copies \ stamped : tracked'[c] = None /\ saved'[c] = None
    <3> TAKE c \in Copies \ stamped
    <3>1. c \in Paths /\ tracked[c] = None /\ saved[c] = None /\ scanned[c] # Dir
      BY <1>a, <2>1, BoundsAssumption DEF CopyInv
    <3> QED
      BY <1>2, <3>1
  <2> QED
    BY <1>a, <1>1, <2>1, <2>2 DEF CopyInv
<1>4. FitInv'
  <2>1. Apart(Nothing)
    BY DEF Apart, Nothing
  <2>2. Hanging(local)' /\ Hanging(remote)' /\ Apart(local)' /\ Apart(scanned)'
    BY <1>a, <1>1, <2>1 DEF Hanging, Apart, FitInv
  <2> QED
    BY <1>1, <2>2 DEF FitInv
<1>5. PendingInv'
  BY <1>1 DEF PendingInv
<1>6. PlaceInv' /\ AgreedInv' /\ NothingOverwritten' /\ SeenInv' /\ Stays
  BY <1>t, <1>1, <1>2, Untouched
<1> QED
  BY <1>t, <1>3, <1>4, <1>5, <1>6 DEF SyncInv

(* What is found in the folder is what is in it.                           *)
LEMMA ScanKeeps ==
    ASSUME SyncInv, Scan
    PROVE  SyncInv' /\ Stays
<1>a. TypeInv /\ FitInv /\ PlanInv /\ CopyInv /\ PendingInv
  BY DEF SyncInv
<1>t. TypeInv' /\ PlanInv'
  <2>1. Next
    BY DEF Next, Steps
  <2> QED
    BY <1>a, <2>1, TypesStay, PlanStays
<1>1. /\ phase' = "listing" /\ scanned' = local /\ plan' = <<>>
      /\ local' = local /\ remote' = remote /\ stamped' = stamped /\ tracked' = tracked /\ saved' = saved
      /\ forgetful' = forgetful /\ UNCHANGED <<folderVars, userVars>>
  BY <1>a DEF Scan, PlanInv, folderVars, stateVars
<1>3. CopyInv'
  BY <1>a, <1>1 DEF CopyInv
<1>4. FitInv'
  <2>2. Hanging(local)' /\ Hanging(remote)' /\ Apart(local)' /\ Apart(scanned)'
    BY <1>a, <1>1 DEF Hanging, Apart, FitInv
  <2> QED
    BY <1>1, <2>2 DEF FitInv
<1>5. PendingInv'
  BY <1>1 DEF PendingInv
<1>6. PlaceInv' /\ AgreedInv' /\ NothingOverwritten' /\ SeenInv' /\ Stays
  BY <1>t, <1>1, Untouched
<1> QED
  BY <1>t, <1>3, <1>4, <1>5, <1>6 DEF SyncInv

-----------------------------------------------------------------------------
(* The walk.  Users of the server act between two of its requests: what it *)
(* has listed was there when its directory was asked for, and a content    *)
(* that came since is one that neither the folder nor the state has.       *)

(* A directory that is still to be listed is above it, or it is at the top *)
(* of what is.                                                             *)
Coming(p) == \E d \in ahead : d = 0 \/ d \in Above(p)
WalkInv ==
    phase = "listing" =>
        /\ Hanging(listed)
        /\ \A d \in ahead : d # 0 => d \in Paths /\ listed[d] = Dir
        /\ \A p \in Paths :
              /\ Coming(p) => listed[p] = None
              /\ listed[p] \in Contents => remote[p] = listed[p] \/ listed[p] \in Spent
              /\ \/ Coming(p)
                 \/ remote[p] = listed[p] \/ remote[p] \notin Contents
                 \/ remote[p] # scanned[p] /\ remote[p] # tracked[p]
        /\ \A c \in Copies \ stamped : listed[c] = None

(* Between a directory and what is below it is an entry of the directory.  *)
LEMMA Between ==
    ASSUME NEW p \in Paths, NEW d, d = 0 \/ d \in Above(p)
    PROVE  \E c \in Paths : Parent[c] = d /\ (c = p \/ c \in Above(p))
<1> USE ParentBefore
<1> DEFINE Bad == {x \in Paths : /\ d = 0 \/ d \in Above(x)
                                 /\ \A c \in Paths : Parent[c] = d => c # x /\ c \notin Above(x)}
<1> SUFFICES ASSUME Bad # {} PROVE FALSE
  OBVIOUS
<1>1. Bad \subseteq Paths /\ Bad \subseteq Nat
  OBVIOUS
<1> HIDE DEF Bad
<1>2. PICK x \in Bad : \A y \in Bad : x <= y
  BY <1>1, LeastNatural
<1>x. x \in Paths
  BY <1>1
<1> USE DEF Bad
<1>3. Parent[x] # d
  BY <1>2, <1>x
<1>4. Above(x) = IF Parent[x] = 0 THEN {} ELSE {Parent[x]} \cup Above(Parent[x])
  BY <1>x, AboveIs
<1>5. Parent[x] \in Paths /\ Parent[x] < x /\ (d = 0 \/ d \in Above(Parent[x]))
  BY <1>x, <1>2, <1>3, <1>4
<1>6. Parent[x] \notin Bad
  BY <1>x, <1>2, <1>5
<1>7. PICK c \in Paths : Parent[c] = d /\ (c = Parent[x] \/ c \in Above(Parent[x]))
  BY <1>5, <1>6
<1>8. c \in Above(x)
  BY <1>4, <1>5, <1>7
<1> QED
  BY <1>2, <1>7, <1>8

(* Nothing is listed when the walk begins ...                              *)
LEMMA WalkStarts ==
    ASSUME TypeInv, Scan
    PROVE  WalkInv'
<1>1. listed' = Nothing /\ ahead' = {0}
  BY DEF Scan
<1>2. \A p \in Paths : listed'[p] = None
  BY <1>1 DEF Nothing
<1>3. \A p \in Paths : Coming(p)'
  BY <1>1 DEF Coming
<1>4. Hanging(listed)'
  BY <1>2 DEF Hanging
<1> QED
  BY <1>1, <1>2, <1>3, <1>4, BoundsAssumption, CopiesArePaths DEF WalkInv

(* ... a directory's entries are listed at once ...                        *)
LEMMA WalkGoesOn ==
    ASSUME SyncInv, WalkInv, List
    PROVE  WalkInv'
<1>a. TypeInv /\ FitInv /\ CopyInv
  BY DEF SyncInv
<1>1. PICK d \in 0 .. PathCount :
         /\ ComesNext(d)
         /\ d # 0 => remote[d] = Dir
         /\ listed' = [p \in Paths |-> IF Parent[p] = d THEN remote[p] ELSE listed[p]]
         /\ ahead' = (ahead \ {d}) \cup {p \in Paths : Parent[p] = d /\ remote[p] = Dir}
  BY DEF List
<1>2. /\ phase' = phase /\ scanned' = scanned /\ remote' = remote /\ tracked' = tracked
      /\ stamped' = stamped /\ Spent' = Spent
  BY DEF List, folderVars, stateVars, userVars, Spent
<1>3. phase = "listing" /\ d \in ahead
  BY <1>1 DEF ComesNext
<1>4. /\ Hanging(listed)
      /\ \A e \in ahead : e # 0 => e \in Paths /\ listed[e] = Dir
      /\ \A p \in Paths : Coming(p) => listed[p] = None
  BY <1>3 DEF WalkInv
<1>5. \A p \in Paths : listed'[p] = IF Parent[p] = d THEN remote[p] ELSE listed[p]
  BY <1>1
<1>b. None # Dir /\ None \notin Contents /\ Dir \notin Contents
  BY BoundsAssumption
<1>6. \A p \in Paths : /\ Above(p) = IF Parent[p] = 0 THEN {} ELSE {Parent[p]} \cup Above(Parent[p])
                       /\ p \notin Above(p) /\ Above(p) \subseteq Paths /\ p # 0
  BY AboveIs, NotAboveItself, ParentBefore
<1>7. \A p \in Paths : Parent[p] = d => Coming(p) /\ listed[p] = None
  <2> TAKE p \in Paths
  <2>1. Parent[p] = d => d = 0 \/ d \in Above(p)
    BY <1>6
  <2> QED
    BY <1>3, <1>4, <2>1 DEF Coming
<1>8. Hanging(listed)'
  <2> SUFFICES ASSUME NEW p \in Paths, listed'[p] # None, NEW q \in Above(p)
               PROVE  listed'[q] = Dir
    BY DEF Hanging
  <2>1. q \in Paths
    BY <1>6
  <2>2. listed[q] = Dir
    <3>1. CASE Parent[p] = d
      <4>1. d # 0 /\ (q = d \/ q \in Above(d))
        BY <1>6, <3>1
      <4>2. d \in Paths /\ listed[d] = Dir
        BY <1>3, <1>4, <4>1
      <4> QED
        BY <1>4, <1>b, <4>1, <4>2 DEF Hanging
    <3>2. CASE Parent[p] # d
      BY <1>4, <1>5, <3>2 DEF Hanging
    <3> QED
      BY <3>1, <3>2
  <2> QED
    BY <1>5, <1>7, <1>b, <2>1, <2>2
<1>9. ASSUME NEW e \in ahead', e # 0
      PROVE  e \in Paths /\ listed'[e] = Dir
  <2>1. CASE e \in ahead
    BY <1>4, <1>5, <1>7, <1>9, <1>b, <2>1
  <2>2. CASE e \in Paths /\ Parent[e] = d /\ remote[e] = Dir
    BY <1>5, <2>2
  <2> QED
    BY <1>1, <2>1, <2>2
<1>10. ASSUME NEW p \in Paths, Coming(p)'
       PROVE  listed'[p] = None
  <2>1. PICK e \in ahead' : e = 0 \/ e \in Above(p)
    BY <1>10 DEF Coming, Above
  <2>2. CASE e \in ahead /\ e # d
    <3>1. Coming(p)
      BY <2>1, <2>2 DEF Coming
    <3>2. ASSUME Parent[p] = d PROVE FALSE
      <4>1. d # 0
        <5> SUFFICES ASSUME d = 0 PROVE FALSE
          OBVIOUS
        <5>1. Above(p) = {} /\ e = 0
          BY <1>6, <2>1, <3>2
        <5> QED
          BY <2>2, <5>1
      <4>2. d \in Paths /\ listed[d] = Dir
        BY <1>3, <1>4, <4>1
      <4>3. e = 0 \/ e \in Above(d)
        BY <1>6, <2>1, <2>2, <3>2, <4>1
      <4>4. Coming(d)
        BY <2>2, <4>3 DEF Coming
      <4> QED
        BY <1>4, <1>b, <4>2, <4>4
    <3> QED
      BY <1>4, <1>5, <3>1, <3>2
  <2>3. CASE e \in Paths /\ Parent[e] = d
    <3>1. e \in Above(p)
      BY <1>6, <2>1, <2>3
    <3>2. Parent[p] # d
      <4> SUFFICES ASSUME Parent[p] = d PROVE FALSE
        OBVIOUS
      <4>1. d # 0 /\ (e = d \/ e \in Above(d))
        BY <1>6, <3>1
      <4>2. d \in Above(e) /\ d \in Paths
        BY <1>3, <1>4, <1>6, <2>3, <4>1
      <4>3. d \in Above(d)
        BY <2>3, <4>1, <4>2, AboveTransitive
      <4> QED
        BY <1>6, <4>2, <4>3
    <3>3. Coming(p)
      <4>1. d = 0 \/ d \in Above(p)
        BY <1>6, <2>3, <3>1, AboveTransitive
      <4> QED
        BY <1>3, <4>1 DEF Coming
    <3> QED
      BY <1>4, <1>5, <3>2, <3>3
  <2> QED
    BY <1>1, <2>1, <2>2, <2>3
<1>11. ASSUME NEW p \in Paths, listed'[p] \in Contents
       PROVE  remote[p] = listed'[p] \/ listed'[p] \in Spent
  BY <1>3, <1>5, <1>11 DEF WalkInv
<1>12. ASSUME NEW p \in Paths, ~(Coming(p)'), remote[p] # listed'[p], remote[p] \in Contents
       PROVE  remote[p] # scanned[p] /\ remote[p] # tracked[p]
  <2>0. Parent[p] # d
    BY <1>5, <1>12
  <2>1. ~Coming(p)
    <3> SUFFICES ASSUME Coming(p) PROVE FALSE
      OBVIOUS
    <3>1. PICK e \in ahead : e = 0 \/ e \in Above(p)
      BY DEF Coming
    <3>2. e = d
      <4> SUFFICES ASSUME e # d PROVE FALSE
        OBVIOUS
      <4>1. e \in ahead'
        BY <1>1
      <4> QED
        BY <1>12, <3>1, <4>1 DEF Coming, Above
    <3>3. PICK c \in Paths : Parent[c] = d /\ (c = p \/ c \in Above(p))
      BY <3>1, <3>2, Between
    <3>4. c \in Above(p)
      BY <2>0, <3>3
    <3>5. remote[c] = Dir
      BY <1>a, <1>12, <1>b, <3>4 DEF FitInv, Hanging
    <3>6. c \in ahead'
      BY <1>1, <3>3, <3>5
    <3> QED
      BY <1>12, <3>4, <3>6 DEF Coming, Above
  <2> QED
    BY <1>3, <1>5, <1>12, <2>0, <2>1 DEF WalkInv
<1>13. ASSUME NEW c \in Copies \ stamped PROVE listed'[c] = None
  <2>1. c \in Paths /\ listed[c] = None /\ remote[c] = None
    BY <1>a, <1>3, CopiesArePaths DEF WalkInv, CopyInv
  <2> QED
    BY <1>5, <2>1
<1> QED
  BY <1>2, <1>8, <1>9, <1>10, <1>11, <1>12, <1>13 DEF WalkInv

(* ... and users of the server act in between.                             *)
LEMMA WalkWithUsers ==
    ASSUME SyncInv, WalkInv, RemoteUser
    PROVE  WalkInv'
<1>a. TypeInv /\ FitInv /\ PlaceInv
  BY DEF SyncInv
<1>1. /\ trash' = trash /\ edits < MaxEdits /\ edits' = edits + 1
      /\ UNCHANGED <<stateVars, passVars, forgetful>>
  BY <1>a, RemoteUserIs
<1>2. PICK p \in Paths, gone \in SUBSET Contents :
         /\ EditOf(remote, remote', p, gone)
         /\ bygone'["remote"] = bygone["remote"] \cup gone /\ bygone'["local"] = bygone["local"]
  BY <1>a, RemoteUserIs
<1>3. \A q \in Paths : scanned[q] # edits + 1 /\ tracked[q] # edits + 1
  BY <1>a, <1>1, EditsAreNew, SixTrees
<1>4. /\ phase' = phase /\ scanned' = scanned /\ listed' = listed /\ stamped' = stamped
      /\ ahead' = ahead /\ tracked' = tracked
  BY <1>1 DEF passVars, stateVars
<1>5. Spent' = Spent \cup gone
  BY <1>1, <1>2 DEF Spent
<1>6. \A q \in Paths : remote[q] \in Contents => remote'[q] = remote[q] \/ remote[q] \in Spent'
  BY <1>2, <1>5 DEF EditOf
<1>7. \A q \in Paths : remote'[q] = remote[q] \/ remote'[q] \notin Contents
                       \/ (remote'[q] # scanned[q] /\ remote'[q] # tracked[q])
  BY <1>2, <1>3 DEF EditOf
<1>8. \A q \in Paths : Coming(q)' <=> Coming(q)
  BY <1>4 DEF Coming, Above
<1>9. Hanging(listed)' <=> Hanging(listed)
  BY <1>4 DEF Hanging
<1>10. ASSUME phase = "listing", NEW q \in Paths
       PROVE  /\ listed[q] \in Contents => remote'[q] = listed[q] \/ listed[q] \in Spent'
              /\ \/ Coming(q)
                 \/ remote'[q] = listed[q] \/ remote'[q] \notin Contents
                 \/ remote'[q] # scanned[q] /\ remote'[q] # tracked[q]
  BY <1>5, <1>6, <1>7, <1>10 DEF WalkInv
<1> QED
  BY <1>4, <1>8, <1>9, <1>10 DEF WalkInv

(* No other step is one of a walk.                                         *)
LEMMA WalkStays ==
    ASSUME EditsDuringPass = FALSE, SyncInv, WalkInv, [Next]_vars
    PROVE  WalkInv'
<1>a. TypeInv /\ FitInv /\ PlaceInv
  BY DEF SyncInv
<1>1. CASE LocalUser
  <2>1. phase' = "idle"
    BY <1>a, <1>1, LocalUserIs DEF passVars
  <2> QED
    BY <2>1 DEF WalkInv
<1>2. CASE RemoteUser
  BY <1>2, WalkWithUsers
<1>3. CASE List
  BY <1>3, WalkGoesOn
<1>4. CASE Scan
  BY <1>a, <1>4, WalkStarts
<1>5. CASE Finish \/ SaveFails \/ ListFails \/ DirectoryGone \/ Crash \/ MakePlan
  <2>1. phase' # "listing"
    BY <1>5 DEF Finish, SaveFails, ListFails, DirectoryGone, Crash, EndPass, MakePlan
  <2> QED
    BY <2>1 DEF WalkInv
<1>6. CASE \/ ServerDoes \/ AnswerLost
           \/ ServerRefuses \/ RequestFails \/ CreateLocalDirectory \/ RemoveLocalDirectory
           \/ DeleteLocal \/ ForgetPath \/ Download \/ MakeWay
  <2>1. phase' # "listing"
    BY <1>6 DEF ServerDoes, AnswerLost, ServerRefuses, RequestFails, CreateLocalDirectory,
       RemoveLocalDirectory, DeleteLocal, ForgetPath, Download, MakeWay, Does, Skip
  <2> QED
    BY <2>1 DEF WalkInv
<1>7. CASE UNCHANGED vars
  <2>1. /\ phase' = phase /\ scanned' = scanned /\ listed' = listed /\ stamped' = stamped
        /\ ahead' = ahead /\ tracked' = tracked /\ remote' = remote
        /\ trash' = trash /\ bygone' = bygone
    BY <1>7 DEF vars
  <2>2. Spent' = Spent /\ \A q \in Paths : Coming(q)' <=> Coming(q)
    BY <2>1 DEF Spent, Coming, Above
  <2> QED
    BY <2>1, <2>2 DEF WalkInv, Hanging
<1> QED
  BY <1>1, <1>2, <1>3, <1>4, <1>5, <1>6, <1>7 DEF Next, Steps, Disturbed, Walks

(* What a walk lists changes nothing else.                                 *)
LEMMA ListKeeps ==
    ASSUME SyncInv, List
    PROVE  SyncInv' /\ Stays
<1>a. TypeInv /\ FitInv /\ PlanInv /\ CopyInv
  BY DEF SyncInv
<1>t. TypeInv' /\ PlanInv'
  <2>1. Next
    BY DEF Next, Walks
  <2> QED
    BY <1>a, <2>1, TypesStay, PlanStays
<1>1. /\ phase = "listing" /\ phase' = "listing" /\ scanned' = scanned /\ plan' = <<>>
      /\ local' = local /\ remote' = remote /\ stamped' = stamped /\ tracked' = tracked /\ saved' = saved
      /\ forgetful' = forgetful /\ UNCHANGED <<folderVars, userVars>>
  BY <1>a DEF List, ComesNext, PlanInv, folderVars, stateVars
<1>3. CopyInv'
  BY <1>a, <1>1 DEF CopyInv
<1>4. FitInv'
  <2>2. Hanging(local)' /\ Hanging(remote)' /\ Apart(local)' /\ Apart(scanned)'
    BY <1>a, <1>1 DEF Hanging, Apart, FitInv
  <2> QED
    BY <1>a, <1>1, <2>2 DEF FitInv
<1>5. PendingInv'
  BY <1>1 DEF PendingInv
<1>6. PlaceInv' /\ AgreedInv' /\ NothingOverwritten' /\ SeenInv' /\ Stays
  BY <1>t, <1>1, Untouched
<1> QED
  BY <1>t, <1>3, <1>4, <1>5, <1>6 DEF SyncInv

-----------------------------------------------------------------------------
(* The plan is made.                                                       *)

(* What is left of a listing has all that is above it, and no twin.        *)
LEMMA ListedFits ==
    ASSUME TypeInv, Hanging(listed), MakePlan, NEW p \in Paths, listed'[p] # None
    PROVE  /\ \A q \in Above(p) : listed'[q] # None
           /\ \A q \in Paths \ {p} : Folded[p] = Folded[q] => scanned[q] = None /\ listed'[q] = None
<1> DEFINE dropped == unfit(scanned, listed)
           folders == Refused(listed) \cup Clashing(scanned, listed)
<1>1. \A q \in Paths : listed'[q] = IF q \in dropped THEN None ELSE listed[q]
  BY MakePlanIs
<1>2. \A q \in Paths : q \in dropped <=>
         q \in folders \/ ((scanned[q] # None \/ listed[q] # None) /\ \E f \in folders : f \in Above(q))
  BY DEF unfit, Inside, Clashing, Refused
<1>3. \A x \in Paths :
         (\E y \in Paths \ {x} :
             /\ Folded[x] = Folded[y]
             /\ scanned[x] # None \/ listed[x] # None
             /\ scanned[y] # None \/ listed[y] # None)
         => x \in folders
  BY DEF Clashing
<1> HIDE DEF dropped, folders
<1>4. p \notin dropped /\ listed[p] # None
  BY <1>1
<1>5. ASSUME NEW q \in Above(p) PROVE listed'[q] # None
  <2>1. q \in Paths /\ listed[q] = Dir
    BY <1>4, NotAboveItself DEF Hanging
  <2>2. q \notin dropped
    <3>1. Above(q) \subseteq Above(p)
      BY AboveTransitive
    <3> QED
      BY <1>2, <1>4, <2>1, <3>1
  <2> QED
    BY <1>1, <2>1, <2>2, BoundsAssumption
<1>6. ASSUME NEW q \in Paths \ {p}, Folded[p] = Folded[q]
      PROVE  scanned[q] = None /\ listed'[q] = None
  <2>1. p \notin folders
    BY <1>2, <1>4
  <2>2. scanned[q] = None /\ listed[q] = None
    BY <1>3, <1>4, <1>6, <2>1
  <2> QED
    BY <1>1, <2>2
<1> QED
  BY <1>5, <1>6

(* A plan is due when it is made: nobody touched the folder since the      *)
(* scan, and what came to the server since it was listed is new.           *)
LEMMA MakePlanKeeps ==
    ASSUME SyncInv, WalkInv, MakePlan
    PROVE  SyncInv' /\ Stays
<1>a. TypeInv /\ FitInv /\ PlanInv /\ CopyInv /\ PendingInv /\ AgreedInv
  BY DEF SyncInv
<1>t. TypeInv' /\ PlanInv'
  <2>1. Next
    BY DEF Next
  <2> QED
    BY <1>a, <2>1, TypesStay, PlanStays
<1>1. /\ scanned' = scanned /\ local' = local /\ remote' = remote /\ stamped' = stamped
      /\ tracked' = tracked /\ saved' = saved /\ trash' = trash /\ bygone' = bygone
      /\ forgetful' = forgetful /\ UNCHANGED <<folderVars, userVars>>
  BY DEF MakePlan, folderVars, stateVars, userVars
<1>2. phase = "listing" /\ phase' = "applying" /\ scanned = local /\ ahead = {}
  BY <1>a, MakePlanIs DEF FitInv
<1>w. /\ Hanging(listed) /\ \A c \in Copies \ stamped : listed[c] = None
      /\ \A p \in Paths :
            /\ listed[p] \in Contents => remote[p] = listed[p] \/ listed[p] \in Spent
            /\ \/ remote[p] = listed[p] \/ remote[p] \notin Contents
               \/ remote[p] # scanned[p] /\ remote[p] # tracked[p]
  BY <1>2 DEF WalkInv, Coming
<1> DEFINE dropped == unfit(scanned, listed)
<1>3. \A p \in Paths : listed'[p] = IF p \in dropped THEN None ELSE listed[p]
  BY <1>a, MakePlanIs
<1>4. \A i \in DOMAIN plan' :
         LET a == plan'[i] p == a.path IN
         /\ p \in Paths /\ p \notin dropped /\ a.do \in Deeds /\ a.do # "SendCopy"
         /\ Says(IF a.do = "SetAside" THEN "KeepBoth" ELSE a.do, scanned[p], listed'[p], tracked[p])
         /\ a.do \in Conflicts => a.copy \in Range(CopiesOf[p]) \ stamped
  BY <1>a, MakePlanIs
<1> HIDE DEF dropped
<1>b. None \notin Contents /\ Dir \notin Contents /\ None # Dir
  BY BoundsAssumption
<1>5. CopyInv'
  <2>1. ASSUME NEW i \in DOMAIN plan'
        PROVE  /\ plan'[i].path \notin Copies \ stamped
               /\ plan'[i].do \in {"KeepBoth", "SetAside"} => plan'[i].copy \notin stamped
    <3> DEFINE a == plan'[i] p == a.path
    <3>1. ~(scanned[p] = None /\ listed'[p] = None /\ tracked[p] = None) /\ p \in Paths
      BY <1>4 DEF Says
    <3>2. ~(scanned[p] = None /\ listed[p] = None /\ tracked[p] = None)
      BY <1>3, <3>1
    <3>3. p \notin Copies \ stamped
      BY <1>a, <1>w, <3>2 DEF CopyInv
    <3> QED
      BY <1>4, <3>3 DEF Conflicts
  <2> QED
    BY <1>a, <1>1, <2>1 DEF CopyInv
<1>6. FitInv'
  <2>1. Hanging(local)' /\ Hanging(remote)' /\ Apart(local)' /\ Apart(scanned)'
    BY <1>a, <1>1 DEF Hanging, Apart, FitInv
  <2>2. ASSUME NEW i \in DOMAIN plan', plan'[i].do \in Conflicts \cup {"CreateLocalDirectory", "Download"}
        PROVE  listed'[plan'[i].path] # None
    <3> DEFINE a == plan'[i]
    <3>1. Says(IF a.do = "SetAside" THEN "KeepBoth" ELSE a.do, scanned[a.path], listed'[a.path], tracked[a.path])
          /\ a.do # "SendCopy"
      BY <1>4
    <3>2. a.do \in {"KeepBoth", "SetAside", "CreateLocalDirectory", "Download"}
      BY <2>2, <3>1 DEF Conflicts
    <3> HIDE DEF a
    <3>3. listed'[a.path] # None
      BY <1>b, <3>1, <3>2 DEF Says
    <3> QED
      BY <3>3 DEF a
  <2>3. \A p \in Paths : listed'[p] # None =>
           /\ \A q \in Above(p) : listed'[q] # None
           /\ \A q \in Paths \ {p} : Folded[p] = Folded[q] => scanned[q] = None /\ listed'[q] = None
    BY <1>a, <1>w, ListedFits
  <2> QED
    BY <1>1, <1>2, <2>1, <2>2, <2>3 DEF FitInv, Above
<1>7. PendingInv'
  <2>s. Spent' = Spent
    BY <1>1 DEF Spent
  <2>1. ASSUME NEW i \in DOMAIN plan'
        PROVE  LET a == plan'[i] p == a.path IN
               Due(a.do, local[p], remote[p], tracked[p], scanned[p], listed'[p], Spent)
    <3> DEFINE a == plan'[i] p == a.path
    <3>1. /\ p \in Paths /\ p \notin dropped /\ a.do \in Deeds /\ a.do # "SendCopy"
          /\ Says(IF a.do = "SetAside" THEN "KeepBoth" ELSE a.do, scanned[p], listed'[p], tracked[p])
      BY <1>4
    <3> HIDE DEF a
    <3>2. listed'[p] = listed[p] /\ scanned[p] = local[p]
      BY <1>2, <1>3, <3>1
    <3>3. tracked[p] \in Contents => tracked[p] \in Spent \/ (local[p] = tracked[p] /\ listed[p] = tracked[p])
      BY <1>a, <1>w, <3>1 DEF AgreedInv, Agreed
    <3>5. Due(a.do, local[p], listed[p], tracked[p], scanned[p], listed'[p], Spent)
      BY <1>b, <3>1, <3>2, <3>3 DEF Due, Says, Deeds
    <3>6. remote[p] = listed[p] \/ remote[p] \notin Contents
          \/ (remote[p] # scanned[p] /\ remote[p] # tracked[p])
      BY <1>w, <3>1
    <3>4. Due(a.do, local[p], remote[p], tracked[p], scanned[p], listed'[p], Spent)
      BY <3>5, <3>6, DueKept
    <3> QED
      BY <3>4 DEF a
  <2>2. ASSUME NEW p \in Paths
        PROVE  /\ listed'[p] \in Contents => remote[p] = listed'[p] \/ listed'[p] \in Spent
               /\ scanned[p] = Dir /\ listed'[p] = Dir =>
                     local[p] \notin Contents /\ (remote[p] \in Contents => remote[p] # tracked[p])
    BY <1>b, <1>w, <1>2, <1>3
  <2> QED
    BY <1>1, <1>4, <2>s, <2>1, <2>2 DEF PendingInv
<1>8. PlaceInv' /\ AgreedInv' /\ NothingOverwritten' /\ SeenInv' /\ Stays
  BY <1>t, <1>1, Untouched
<1> QED
  BY <1>t, <1>5, <1>6, <1>7, <1>8 DEF SyncInv

-----------------------------------------------------------------------------
(* What the server does for a pass.                                        *)

(* Contents that stay at their path stay at one path.                      *)
LEMMA PlaceSame ==
    ASSUME NEW here, NEW there, NEW here2, NEW there2, Placed(here, there),
           \A q \in Paths :
              /\ here2[q] \in {here[q], there[q]} \/ here2[q] \notin Contents
              /\ there2[q] \in {here[q], there[q]} \/ there2[q] \notin Contents
    PROVE  Placed(here2, there2)
<1> SUFFICES ASSUME NEW p \in Paths, NEW q \in Paths, p # q
             PROVE  /\ here2[p] \in Contents => here2[q] # here2[p] /\ there2[q] # here2[p]
                    /\ there2[p] \in Contents => there2[q] # there2[p]
  BY DEF Placed
<1>1. \A e \in Contents : e \in {here[p], there[p]} => e \notin {here[q], there[q]}
  BY DEF Placed
<1> QED
  BY <1>1

(* The first entry of the plan is due.                                     *)
LEMMA HeadIsDue ==
    ASSUME SyncInv, plan # <<>>
    PROVE  LET a == Action p == a.path c == a.copy IN
           /\ p \in Paths /\ p \notin Copies \ stamped
           /\ Due(a.do, local[p], remote[p], tracked[p], scanned[p], listed[p], Spent)
           /\ a.do \in Conflicts => c \in Paths /\ c \in Copies /\ c # p /\ Above(c) = Above(p)
           /\ a.do \in {"KeepBoth", "SetAside"} => c \notin stamped
           /\ a.do = "SendCopy" => /\ local[c] = scanned[p] /\ tracked[c] = None /\ c \in stamped
                                   /\ scanned[p] \in Contents
           /\ \A b \in Others : b.path # p /\ (a.do \in Conflicts => b.path # c)
<1>a. TypeInv /\ PlanInv /\ CopyInv /\ PendingInv
  BY DEF SyncInv
<1> DEFINE a == Action p == a.path c == a.copy
<1>1. /\ 1 \in DOMAIN plan /\ a = plan[1] /\ p \in Paths
      /\ a.do \in Conflicts => c \in Paths /\ c \in Copies /\ Above(c) = Above(p)
  BY <1>a, PlanHead
<1> HIDE DEF a
<1>2. /\ p \notin Copies \ stamped
      /\ a.do \in {"KeepBoth", "SetAside"} => c \notin stamped
  BY <1>a, <1>1 DEF CopyInv
<1>3. /\ Due(a.do, local[p], remote[p], tracked[p], scanned[p], listed[p], Spent)
      /\ a.do = "SendCopy" => /\ local[c] = scanned[p] /\ tracked[c] = None
                              /\ \A j \in DOMAIN plan : plan[j].path # c
  BY <1>a, <1>1 DEF PendingInv
<1>4. a.do = "SendCopy" => scanned[p] \in Contents
  BY <1>3 DEF Due
<1>5. a.do = "SendCopy" => c \in stamped
  <2>1. a.do = "SendCopy" => c \in Copies /\ local[c] # None
    BY <1>1, <1>3, <1>4, BoundsAssumption DEF Conflicts
  <2> QED
    BY <1>a, <2>1 DEF CopyInv
<1>6. \A b \in Others : b.path # p /\ \E j \in DOMAIN plan : b = plan[j]
  BY <1>a, OthersDiffer DEF a
<1>7. a.do \in Conflicts => c # p /\ \A b \in Others : b.path # c
  <2>1. CASE a.do = "SendCopy"
    BY <1>1, <1>3, <1>6, <2>1
  <2>2. CASE a.do \in {"KeepBoth", "SetAside"}
    <3>1. c \in Copies \ stamped
      BY <1>1, <1>2, <2>2 DEF Conflicts
    <3>2. \A j \in DOMAIN plan : plan[j].path \notin Copies \ stamped
      BY <1>a DEF CopyInv
    <3> QED
      BY <1>2, <1>6, <3>1, <3>2
  <2> QED
    BY <2>1, <2>2 DEF Conflicts
<1> QED
  BY <1>1, <1>2, <1>3, <1>4, <1>5, <1>6, <1>7 DEF a

(* A plan without its first entry is of the others alone.                  *)
LEMMA TailIsOthers ==
    ASSUME TypeInv, PlanInv, plan # <<>>, plan' = Tail(plan), 1 \in DOMAIN plan'
    PROVE  ~Turned(plan'[1])
<1>1. plan'[1] = plan[1 + 1] /\ 1 + 1 \in DOMAIN plan /\ 1 + 1 # 1
  BY PlanHead
<1>2. plan'[1] \in Others
  BY <1>1 DEF Others
<1>3. plan'[1].path # Action.path
  BY <1>2, OthersDiffer
<1> QED
  BY <1>3 DEF Turned

(* Where the server's tree changes, and to what.                           *)
Target == IF Action.do = "SendCopy" THEN Action.copy ELSE Action.path
Sending == Action.do \in {"Upload", "SendCopy"}
LEMMA ServeEffect ==
    ASSUME SyncInv, Does(OnServer), Serve(Action), bygone' = bygone
    PROVE  LET x == Target IN
           /\ x \in Paths /\ x \notin Copies \ stamped
           /\ ~(scanned[x] = Dir /\ listed[x] = Dir)
           /\ \A q \in Paths \ {x} : remote'[q] = remote[q] \/ remote'[q] = None \/ remote'[q] = Dir
           /\ Sending => /\ remote'[x] = local[x] /\ local[x] \in Contents
                         /\ tracked[x] # local[x]
           /\ ~Sending => remote'[x] \in {None, Dir} /\ local[x] \notin Contents
           /\ \A q \in Paths : remote[q] \in Contents => remote'[q] = remote[q] \/ remote[q] \in Spent'
           /\ Spent \subseteq Spent'
           /\ Hanging(remote')
           /\ \A c \in Copies \ stamped : remote'[c] = None
<1> DEFINE p == Action.path c == Action.copy x == Target
<1>a. TypeInv /\ FitInv /\ PlaceInv /\ CopyInv /\ PendingInv
  BY DEF SyncInv
<1>b. None \notin Contents /\ Dir \notin Contents /\ None # Dir
  BY BoundsAssumption
<1>0. plan # <<>> /\ phase = "applying" /\ Action.do \in OnServer
  BY DEF Does
<1>1. /\ p \in Paths /\ p \notin Copies \ stamped
      /\ Due(Action.do, local[p], remote[p], tracked[p], scanned[p], listed[p], Spent)
      /\ Action.do = "SendCopy" => /\ local[c] = scanned[p] /\ tracked[c] = None /\ c \in stamped
                                   /\ scanned[p] \in Contents /\ c \in Paths /\ c \in Copies
  BY <1>0, HeadIsDue DEF Conflicts
<1>2. x \in Paths /\ x \notin Copies \ stamped
  BY <1>1 DEF Target
<1>3. ~(scanned[x] = Dir /\ listed[x] = Dir)
  <2>1. CASE Action.do = "SendCopy"
    <3>1. local[x] \in Contents
      BY <1>1, <2>1 DEF Target
    <3> QED
      BY <1>a, <1>0, <1>2, <3>1 DEF PendingInv
  <2>2. CASE Action.do # "SendCopy"
    BY <1>1, <2>2 DEF Due, Target
  <2> QED
    BY <2>1, <2>2
<1>4. \A k \in Copies : \A q \in Paths : k \notin Above(q) /\ k \in Paths
  BY CopiesAreLeaves
<1>5. \A k \in Copies \ stamped : remote[k] = None /\ k # x
  BY <1>a, <1>2 DEF CopyInv
<1>6. \/ /\ Sending /\ Put(remote, remote', x, local[x]) /\ local[x] \in Contents
         /\ tracked[x] # local[x] /\ trash' = trash /\ remote[x] # Dir
         /\ remote[x] \in Contents => remote[x] \in Spent
      \/ /\ ~Sending /\ Put(remote, remote', x, Dir) /\ local[x] \notin Contents
         /\ trash' = trash /\ remote[x] = None
      \/ /\ ~Sending /\ Taken(remote, remote', x) /\ local[x] \notin Contents
         /\ trash' = trash \cup (HeldIn(remote) \ HeldIn(remote'))
  <2>1. CASE Action.do = "Upload"
    <3>1. /\ Put(remote, remote', p, local[p]) /\ local[p] \in Contents /\ trash' = trash
          /\ remote[p] = (IF listed[p] \in Contents THEN listed[p] ELSE None)
      BY <1>a, <2>1, ServeIs
    <3>2. tracked[p] # local[p] /\ (listed[p] \in Contents => listed[p] \in Spent)
      BY <1>1, <2>1 DEF Due
    <3>3. x = p
      BY <2>1 DEF Target
    <3> QED
      BY <1>b, <2>1, <3>1, <3>2, <3>3 DEF Sending
  <2>2. CASE Action.do = "SendCopy"
    <3>1. /\ Put(remote, remote', c, local[c]) /\ local[c] \in Contents /\ trash' = trash
          /\ remote[c] = None
      BY <1>a, <2>2, ServeIs
    <3>2. x = c
      BY <2>2 DEF Target
    <3> QED
      BY <1>b, <1>1, <2>2, <3>1, <3>2 DEF Sending
  <2>3. CASE Action.do = "CreateRemoteDirectory"
    <3>1. Put(remote, remote', p, Dir) /\ remote[p] = None /\ trash' = trash
      BY <1>a, <2>3, ServeIs
    <3> QED
      BY <1>1, <2>3, <3>1 DEF Due, Target, Sending
  <2>4. CASE Action.do \in {"DeleteRemote", "RemoveRemoteDirectory"}
    <3>1. Taken(remote, remote', p) /\ trash' = trash \cup (HeldIn(remote) \ HeldIn(remote'))
      BY <1>a, <2>4, ServeIs
    <3> QED
      BY <1>1, <2>4, <3>1 DEF Due, Target, Sending
  <2> QED
    BY <1>0, <2>1, <2>2, <2>3, <2>4 DEF OnServer
<1> HIDE DEF x
<1>7. Spent \subseteq Spent'
  BY <1>6 DEF Spent
<1>8. Hanging(remote)
  BY <1>a DEF FitInv
<1>10. CASE /\ Sending /\ Put(remote, remote', x, local[x]) /\ local[x] \in Contents
            /\ tracked[x] # local[x] /\ trash' = trash /\ remote[x] # Dir
            /\ remote[x] \in Contents => remote[x] \in Spent
  <2>1. Hanging(remote')
    BY <1>2, <1>8, <1>10, PutHangs
  <2>2. remote'[x] = local[x]
    BY <1>2, <1>10 DEF Put
  <2>3. \A k \in Copies \ stamped : remote'[k] = None
    BY <1>2, <1>4, <1>5, <1>10 DEF Put
  <2>4. \A q \in Paths : remote[q] \in Contents => remote'[q] = remote[q] \/ (q = x /\ remote[q] \in Spent)
    BY <1>10 DEF Put
  <2>5. \A q \in Paths \ {x} : remote'[q] = remote[q] \/ remote'[q] = None \/ remote'[q] = Dir
    BY <1>10 DEF Put
  <2> QED
    BY <1>2, <1>3, <1>7, <1>10, <2>1, <2>2, <2>3, <2>4, <2>5 DEF x
<1>11. CASE /\ ~Sending /\ Put(remote, remote', x, Dir) /\ local[x] \notin Contents
            /\ trash' = trash /\ remote[x] = None
  <2>1. Hanging(remote')
    BY <1>2, <1>8, <1>11, PutHangs
  <2>2. remote'[x] = Dir
    BY <1>2, <1>11 DEF Put
  <2>3. \A k \in Copies \ stamped : remote'[k] = None
    BY <1>2, <1>4, <1>5, <1>11 DEF Put
  <2>4. \A q \in Paths : remote[q] \in Contents => remote'[q] = remote[q]
    BY <1>b, <1>11 DEF Put
  <2>5. \A q \in Paths \ {x} : remote'[q] = remote[q] \/ remote'[q] = None \/ remote'[q] = Dir
    BY <1>11 DEF Put
  <2> QED
    BY <1>2, <1>3, <1>7, <1>11, <2>1, <2>2, <2>3, <2>4, <2>5 DEF x
<1>12. CASE /\ ~Sending /\ Taken(remote, remote', x) /\ local[x] \notin Contents
            /\ trash' = trash \cup (HeldIn(remote) \ HeldIn(remote'))
  <2>1. Hanging(remote')
    BY <1>2, <1>8, <1>12, TakenHangs
  <2>2. remote'[x] = None
    BY <1>2, <1>12 DEF Taken
  <2>3. \A k \in Copies \ stamped : remote'[k] = None
    BY <1>2, <1>4, <1>5, <1>12 DEF Taken
  <2>4. ASSUME NEW q \in Paths, remote[q] \in Contents, remote'[q] # remote[q] PROVE remote[q] \in Spent'
    <3>1. remote'[q] = None
      BY <1>12, <2>4 DEF Taken
    <3>2. \A y \in Paths : remote'[y] # remote[q]
      BY <1>a, <1>b, <1>12, <2>4, <3>1 DEF Taken, PlaceInv, Placed
    <3> QED
      BY <1>12, <2>4, <3>2 DEF HeldIn, Spent
  <2>5. \A q \in Paths \ {x} : remote'[q] = remote[q] \/ remote'[q] = None \/ remote'[q] = Dir
    BY <1>12 DEF Taken
  <2> QED
    BY <1>2, <1>3, <1>7, <1>12, <2>1, <2>2, <2>3, <2>4, <2>5 DEF x
<1> QED
  BY <1>6, <1>10, <1>11, <1>12

(* It leaves all that is spent, and brings nothing back, when what it did  *)
(* is recorded.                                                            *)
LEMMA ServeKeeps ==
    ASSUME SyncInv, TypeInv', PlanInv', Does(OnServer), Serve(Action), Onward, local' = local,
           UNCHANGED <<saved, phase, scanned, listed, stamped, userVars>>,
           \A q \in Paths \ {Target, Action.path} :
              tracked'[q] = tracked[q] \/ (tracked'[q] = Dir /\ q \in Above(Action.path) /\ Sending),
           \/ tracked'[Target] = tracked[Target]
           \/ ~Sending /\ tracked'[Target] \in {None, Dir}
           \/ Sending /\ tracked'[Target] = local[Target],
           Target # Action.path => tracked'[Action.path] \in {tracked[Action.path], None},
           1 \in DOMAIN plan' /\ Turned(plan'[1]) =>
              Action.do = "SendCopy" /\ plan'[1].do = "Download" /\ tracked'[Action.path] = None,
           ~forgetful' => ~forgetful /\ (Sending => tracked'[Target] = local[Target])
    PROVE  SyncInv' /\ Stays
<1> DEFINE p == Action.path c == Action.copy x == Target
<1>a. TypeInv /\ PlanInv /\ CopyInv /\ FitInv /\ PlaceInv /\ PendingInv /\ AgreedInv /\ SeenInv
      /\ NothingOverwritten
  BY DEF SyncInv
<1>b. None \notin Contents /\ Dir \notin Contents /\ None # Dir
  BY BoundsAssumption
<1>0. plan # <<>> /\ phase = "applying" /\ Action.do \in OnServer
  BY DEF Does
<1>u. bygone' = bygone /\ written' = written
  BY DEF userVars
<1>1. /\ p \in Paths /\ p \notin Copies \ stamped
      /\ Due(Action.do, local[p], remote[p], tracked[p], scanned[p], listed[p], Spent)
      /\ \A b \in Others : b.path # p /\ b.path # x
      /\ Above(x) = Above(p)
      /\ Action.do = "SendCopy" => c # p
  BY <1>0, HeadIsDue DEF Conflicts, Target
<1>2. /\ x \in Paths /\ x \notin Copies \ stamped
      /\ ~(scanned[x] = Dir /\ listed[x] = Dir)
      /\ \A q \in Paths \ {x} : remote'[q] = remote[q] \/ remote'[q] = None \/ remote'[q] = Dir
      /\ Sending => /\ remote'[x] = local[x] /\ local[x] \in Contents
                    /\ tracked[x] # local[x]
      /\ ~Sending => remote'[x] \in {None, Dir} /\ local[x] \notin Contents
      /\ \A q \in Paths : remote[q] \in Contents => remote'[q] = remote[q] \/ remote[q] \in Spent'
      /\ Spent \subseteq Spent'
      /\ Hanging(remote')
      /\ \A k \in Copies \ stamped : remote'[k] = None
  BY <1>u, ServeEffect
<1>x. ~Sending => x = p
  BY DEF Sending, Target
<1>3. /\ \A q \in Paths \ {x, p} : tracked'[q] = tracked[q] \/ (tracked'[q] = Dir /\ q \in Above(p) /\ Sending)
      /\ \/ tracked'[x] = tracked[x]
         \/ ~Sending /\ tracked'[x] \in {None, Dir}
         \/ Sending /\ tracked'[x] = local[x]
      /\ x # p => tracked'[p] \in {tracked[p], None}
      /\ ~forgetful' => ~forgetful /\ (Sending => tracked'[x] = local[x])
  OBVIOUS
<1> HIDE DEF x
<1>4. CopyInv'
  <2>1. ASSUME NEW k \in Copies \ stamped PROVE local'[k] = None /\ remote'[k] = None /\ tracked'[k] = None
    <3>1. k \in Paths /\ k \notin Above(p) /\ k # x /\ k # p /\ tracked[k] = None /\ local[k] = None
      BY <1>a, <1>1, <1>2, CopiesAreLeaves DEF CopyInv
    <3> QED
      BY <1>2, <1>3, <3>1
  <2> QED
    BY <1>a, <1>0, <2>1, CopyOnward
<1>5. FitInv'
  <2>1. Hanging(local')
    BY <1>a DEF FitInv
  <2> QED
    BY <1>a, <1>0, <1>2, <2>1, FitOnward
<1>6. PlaceInv'
  <2>1. \A q \in Paths :
           /\ local'[q] \in {local[q], remote[q]}
           /\ remote'[q] \in {local[q], remote[q]} \/ remote'[q] \notin Contents
    BY <1>b, <1>2
  <2>2. Placed(local', remote')
    BY <1>a, <2>1, PlaceSame DEF PlaceInv
  <2> QED
    BY <2>2 DEF PlaceInv, Placed
<1>7. PendingInv'
  <2> DEFINE X == {x, p}
  <2>1. X \in SUBSET Paths /\ (\A b \in Others : b.path \notin X)
    BY <1>1, <1>2
  <2>2. \A q \in X : ~(scanned[q] = Dir /\ listed[q] = Dir)
    BY <1>1, <1>2 DEF Due
  <2>3. \A q \in Paths \ X :
           /\ local'[q] = local[q]
           /\ remote'[q] = remote[q] \/ remote'[q] \notin Contents
           /\ tracked'[q] = tracked[q] \/ tracked'[q] \notin Contents
    BY <1>b, <1>2, <1>3
  <2>4. ASSUME 1 \in DOMAIN plan', Turned(plan'[1])
        PROVE  /\ Due(plan'[1].do, local'[p], remote'[p], tracked'[p], scanned[p], listed[p], Spent')
               /\ plan'[1].do # "SendCopy"
    <3>1. Action.do = "SendCopy" /\ plan'[1].do = "Download" /\ tracked'[p] = None
      BY <2>4
    <3>2. local'[p] = None /\ ~(scanned[p] = Dir /\ listed[p] = Dir)
      BY <1>1, <3>1 DEF Due
    <3> QED
      BY <1>b, <3>1, <3>2 DEF Due
  <2> HIDE DEF X
  <2> QED
    BY <1>a, <1>0, <1>2, <2>1, <2>2, <2>3, <2>4, PendingOnward
<1>8. AgreedInv' /\ NothingOverwritten'
  <2>1. \A q \in Paths :
           \/ tracked'[q] \in {tracked[q], saved[q]} \/ tracked'[q] \notin Contents
           \/ (local'[q] = tracked'[q] /\ remote'[q] = tracked'[q])
    BY <1>b, <1>2, <1>3
  <2> QED
    BY <1>a, <1>u, <1>2, <2>1, ContentsKept
<1>9. SeenHere' = SeenHere
  BY <1>u DEF SeenHere
<1>10. \A e : e \in SeenThere' => e \in SeenThere \/ (Sending /\ e = local[x])
  <2>1. \A e \in HeldIn(remote') : e \in HeldIn(remote) \/ (Sending /\ e = local[x])
    BY <1>b, <1>2 DEF HeldIn
  <2> QED
    BY <1>u, <2>1 DEF SeenThere
<1>11. SeenHere \subseteq Contents /\ SeenThere \subseteq Contents
  BY <1>a, SeenIs, EntriesApart
<1>12. Sending => \A q \in Above(p) : local[q] = Dir /\ remote'[q] = Dir
  <2>1. Sending => local[x] # None /\ remote'[x] # None
    BY <1>b, <1>2
  <2> QED
    BY <1>a, <1>1, <1>2, <2>1 DEF FitInv, Hanging
<1>13. SeenInv'
  <2> SUFFICES ASSUME ~forgetful', NEW q \in Paths
               PROVE  /\ remote'[q] \in SeenHere' => tracked'[q] = remote'[q]
                      /\ local'[q] \in SeenThere' => tracked'[q] = local'[q]
    BY DEF SeenInv
  <2>1. /\ remote[q] \in SeenHere => tracked[q] = remote[q]
        /\ local[q] \in SeenThere => tracked[q] = local[q]
    BY <1>a, <1>3 DEF SeenInv
  <2>2. CASE q = x
    BY <1>b, <1>2, <1>3, <1>9, <1>10, <1>11, <2>2
  <2>3. CASE q # x /\ q = p
    <3>1. Sending /\ Action.do = "SendCopy"
      BY <1>x, <2>3 DEF x, Target, Sending
    <3>2. local[p] = None /\ (remote[p] \in Contents => remote[p] # tracked[p])
      BY <1>1, <3>1 DEF Due
    <3>3. remote'[p] \notin SeenHere
      BY <1>b, <1>2, <1>11, <2>1, <2>3, <3>2
    <3>4. local[p] \notin SeenThere'
      BY <1>b, <1>2, <1>10, <1>11, <3>1, <3>2
    <3> QED
      BY <1>9, <2>3, <3>3, <3>4
  <2>4. CASE q # x /\ q # p
    <3>1. Sending => local[q] # local[x]
      BY <1>a, <1>2, <2>4 DEF PlaceInv, Placed
    <3>2. local'[q] \in SeenThere' => local[q] \in SeenThere
      BY <1>10, <3>1
    <3>3. CASE tracked'[q] = tracked[q]
      BY <1>b, <1>2, <1>9, <1>11, <2>1, <2>4, <3>2, <3>3
    <3>4. CASE tracked'[q] = Dir /\ q \in Above(p) /\ Sending
      BY <1>b, <1>9, <1>11, <1>12, <3>2, <3>4
    <3> QED
      BY <1>3, <2>4, <3>3, <3>4
  <2> QED
    BY <2>2, <2>3, <2>4
<1>14. Stays
  <2> SUFFICES ASSUME ~forgetful'
               PROVE  /\ bygone["local"] \cap HeldIn(local') \subseteq HeldIn(local)
                      /\ bygone["remote"] \cap HeldIn(remote') \subseteq HeldIn(remote)
    BY DEF Stays, HeldIn
  <2>1. \A e \in HeldIn(remote') : e \in HeldIn(remote) \/ (Sending /\ e = local[x])
    BY <1>b, <1>2 DEF HeldIn
  <2>2. local[x] \in SeenThere => tracked[x] = local[x]
    BY <1>a, <1>2, <1>3 DEF SeenInv
  <2>3. Sending => local[x] \notin bygone["remote"]
    BY <1>2, <2>2 DEF SeenThere
  <2> QED
    BY <2>1, <2>3
<1> QED
  BY <1>4, <1>5, <1>6, <1>7, <1>8, <1>13, <1>14 DEF SyncInv

(* A request whose answer comes back.                                      *)
LEMMA ServerDoesKeeps ==
    ASSUME SyncInv, ServerDoes
    PROVE  SyncInv' /\ Stays
<1> DEFINE p == Action.path c == Action.copy x == Target
<1>a. TypeInv /\ PlanInv
  BY DEF SyncInv
<1>t. TypeInv' /\ PlanInv'
  <2>1. Next
    BY DEF Next, Steps
  <2> QED
    BY <1>a, <2>1, TypesStay, PlanStays
<1>1. /\ Does(OnServer) /\ Serve(Action) /\ local' = local /\ tracked' = Recorded(Action)
      /\ plan' = Continued(Action)
      /\ forgetful' = (forgetful \/ (Action.do = "Upload" /\ local[p] # scanned[p]))
      /\ UNCHANGED <<saved, phase, scanned, listed, stamped, userVars>>
  BY DEF ServerDoes
<1>0. plan # <<>> /\ phase = "applying" /\ Action.do \in OnServer
  BY <1>1 DEF Does
<1>2. /\ p \in Paths
      /\ Due(Action.do, local[p], remote[p], tracked[p], scanned[p], listed[p], Spent)
      /\ Action.do = "SendCopy" => c \in Paths /\ c # p /\ local[c] = scanned[p]
  BY <1>0, HeadIsDue DEF Conflicts
<1>3. Onward
  BY <1>1 DEF Continued, Onward
<1>4. tracked \in [Paths -> KnownEntries] /\ scanned[p] \in KnownEntries
      /\ None \in KnownEntries /\ Dir \in KnownEntries
  BY <1>a, <1>2, SixTrees
<1>5. ASSUME 1 \in DOMAIN plan', Turned(plan'[1])
      PROVE  Action.do = "SendCopy" /\ plan'[1].do = "Download"
  <2>1. Action.do = "SendCopy"
    BY <1>a, <1>0, <1>1, <1>5, TailIsOthers DEF Continued
  <2> QED
    BY <1>5, <2>1 DEF Turned
<1>6. /\ \A q \in Paths \ {x, p} :
            tracked'[q] = tracked[q] \/ (tracked'[q] = Dir /\ q \in Above(p) /\ Sending)
      /\ ~Sending => tracked'[x] \in {None, Dir}
      /\ Sending => tracked'[x] = local[x]
      /\ x # p => tracked'[p] = None
      /\ Action.do = "SendCopy" => tracked'[p] = None
  <2>1. CASE Action.do = "Upload"
    <3>1. tracked' = With(tracked, p, scanned[p]) /\ x = p /\ Sending
      BY <1>1, <2>1 DEF Recorded, Target, Sending
    <3>2. \A q \in Paths : With(tracked, p, scanned[p])[q]
             = IF q = p THEN scanned[p] ELSE IF q \in Above(p) THEN Dir ELSE tracked[q]
      BY <1>2, <1>4, TreeOps
    <3>3. local[p] = scanned[p]
      BY <1>2, <2>1 DEF Due
    <3> QED
      BY <1>2, <2>1, <3>1, <3>2, <3>3
  <2>2. CASE Action.do = "SendCopy"
    <3>1. tracked' = [tracked EXCEPT ![c] = scanned[p], ![p] = None] /\ x = c /\ Sending
      BY <1>1, <2>2 DEF Recorded, Target, Sending
    <3> QED
      BY <1>2, <1>4, <2>2, <3>1
  <2>3. CASE Action.do = "CreateRemoteDirectory"
    <3>1. tracked' = [tracked EXCEPT ![p] = Dir] /\ x = p /\ ~Sending
      BY <1>1, <2>3 DEF Recorded, Target, Sending
    <3> QED
      BY <1>2, <1>4, <2>3, <3>1
  <2>4. CASE Action.do \in {"DeleteRemote", "RemoveRemoteDirectory"}
    <3>1. tracked' = [tracked EXCEPT ![p] = None] /\ x = p /\ ~Sending
      BY <1>1, <2>4 DEF Recorded, Target, Sending
    <3> QED
      BY <1>2, <1>4, <2>4, <3>1
  <2> QED
    BY <1>0, <2>1, <2>2, <2>3, <2>4 DEF OnServer
<1> HIDE DEF x
<1> QED
  BY <1>t, <1>1, <1>3, <1>5, <1>6, ServeKeeps DEF x

(* One whose answer is lost.                                               *)
LEMMA AnswerLostKeeps ==
    ASSUME SyncInv, AnswerLost
    PROVE  SyncInv' /\ Stays
<1>a. TypeInv /\ PlanInv
  BY DEF SyncInv
<1>t. TypeInv' /\ PlanInv'
  <2>1. Next
    BY DEF Next, Disturbed
  <2> QED
    BY <1>a, <2>1, TypesStay, PlanStays
<1>1. /\ Does(OnServer) /\ Serve(Action) /\ local' = local /\ tracked' = tracked
      /\ plan' = Tail(plan) /\ forgetful' = TRUE
      /\ UNCHANGED <<saved, phase, scanned, listed, stamped, userVars>>
  BY DEF AnswerLost, Skip
<1>2. plan # <<>> /\ Onward
  BY <1>1 DEF Does, Onward
<1>3. 1 \in DOMAIN plan' => ~Turned(plan'[1])
  BY <1>a, <1>1, <1>2, TailIsOthers
<1> QED
  BY <1>t, <1>1, <1>2, <1>3, ServeKeeps

-----------------------------------------------------------------------------
(* What a pass does to the folder.                                         *)

(* One path changes, and directories above it appear; what is replaced is  *)
(* spent, and what comes has been listed, and is recorded or forgotten.    *)
LEMMA FolderKeeps ==
    ASSUME SyncInv, TypeInv', PlanInv', plan # <<>>, phase = "applying", plan' = Tail(plan),
           remote' = remote, trash' = trash, Hanging(local'),
           UNCHANGED <<saved, phase, scanned, listed, stamped, userVars>>,
           \A q \in Paths \ {Action.path} :
              \/ local'[q] = local[q]
              \/ /\ local[q] \notin Contents /\ local'[q] = Dir
                 /\ q \in Above(Action.path) /\ listed[Action.path] # None,
           local'[Action.path] # None => local[Action.path] # None \/ listed[Action.path] # None,
           local'[Action.path] \in Contents /\ local'[Action.path] # local[Action.path] =>
              remote[Action.path] = local'[Action.path] /\ remote[Action.path] # tracked[Action.path],
           local[Action.path] \in Contents =>
              local'[Action.path] = local[Action.path] \/ local[Action.path] \in Spent,
           \A q \in Paths \ {Action.path} : tracked'[q] = tracked[q],
           \/ tracked'[Action.path] \in {tracked[Action.path], None, Dir}
           \/ local'[Action.path] = remote[Action.path] /\ tracked'[Action.path] = listed[Action.path],
           ~forgetful' =>
              /\ ~forgetful
              /\ \/ /\ tracked'[Action.path] = tracked[Action.path]
                    /\ local'[Action.path] = local[Action.path] \/ local'[Action.path] \notin Contents
                 \/ /\ local'[Action.path] \notin Contents
                    /\ remote[Action.path] \in Contents => remote[Action.path] # tracked[Action.path]
                 \/ local'[Action.path] = remote[Action.path] /\ tracked'[Action.path] = remote[Action.path]
    PROVE  SyncInv' /\ Stays
<1> DEFINE p == Action.path
<1>a. TypeInv /\ PlanInv /\ CopyInv /\ FitInv /\ PlaceInv /\ PendingInv /\ AgreedInv /\ SeenInv
      /\ NothingOverwritten
  BY DEF SyncInv
<1>b. None \notin Contents /\ Dir \notin Contents /\ None # Dir
  BY BoundsAssumption
<1>u. bygone' = bygone /\ written' = written /\ Spent' = Spent
  BY DEF userVars, Spent
<1>o. Onward
  BY DEF Onward
<1>1. /\ p \in Paths /\ p \notin Copies \ stamped
      /\ ~(scanned[p] = Dir /\ listed[p] = Dir)
      /\ \A b \in Others : b.path # p
  BY HeadIsDue DEF Due
<1>2. /\ \A q \in Paths \ {p} :
            local'[q] = local[q] \/ (local[q] \notin Contents /\ local'[q] = Dir
                                     /\ q \in Above(p) /\ listed[p] # None)
      /\ local'[p] # None => local[p] # None \/ listed[p] # None
      /\ local'[p] \in Contents /\ local'[p] # local[p] => remote[p] = local'[p] /\ remote[p] # tracked[p]
      /\ local[p] \in Contents => local'[p] = local[p] \/ local[p] \in Spent
      /\ \A q \in Paths \ {p} : tracked'[q] = tracked[q]
      /\ \/ tracked'[p] \in {tracked[p], None, Dir}
         \/ local'[p] = remote[p] /\ tracked'[p] = listed[p]
      /\ ~forgetful' =>
            /\ ~forgetful
            /\ \/ /\ tracked'[p] = tracked[p]
                  /\ local'[p] = local[p] \/ local'[p] \notin Contents
               \/ /\ local'[p] \notin Contents
                  /\ remote[p] \in Contents => remote[p] # tracked[p]
               \/ local'[p] = remote[p] /\ tracked'[p] = remote[p]
  OBVIOUS
<1> HIDE DEF p
<1>4. CopyInv'
  <2>1. ASSUME NEW k \in Copies \ stamped PROVE local'[k] = None /\ remote'[k] = None /\ tracked'[k] = None
    <3>1. k \in Paths /\ k \notin Above(p) /\ k # p /\ tracked[k] = None /\ local[k] = None /\ remote[k] = None
      BY <1>a, <1>1, CopiesAreLeaves DEF CopyInv
    <3> QED
      BY <1>2, <3>1
  <2> QED
    BY <1>a, <1>o, <2>1, CopyOnward
<1>5. FitInv'
  <2>1. listed[p] # None => \A q \in Above(p) : listed[q] # None
    BY <1>a, <1>1 DEF FitInv
  <2>2. \A q \in Paths : local'[q] # None => local[q] # None \/ listed[q] # None
    BY <1>2, <2>1
  <2>3. Hanging(remote')
    BY <1>a DEF FitInv
  <2> QED
    BY <1>a, <1>o, <2>2, <2>3, FitOnward
<1>6. PlaceInv'
  <2>1. \A q \in Paths :
           /\ local'[q] \in {local[q], remote[q]} \/ local'[q] \notin Contents
           /\ remote'[q] \in {local[q], remote[q]}
    BY <1>b, <1>2
  <2>2. Placed(local', remote')
    BY <1>a, <2>1, PlaceSame DEF PlaceInv
  <2> QED
    BY <2>2 DEF PlaceInv, Placed
<1>7. PendingInv'
  <2> DEFINE X == {p}
  <2>1. /\ X \in SUBSET Paths /\ (\A b \in Others : b.path \notin X)
        /\ \A q \in X : ~(scanned[q] = Dir /\ listed[q] = Dir)
    BY <1>1
  <2>2. \A q \in Paths \ X :
           /\ local'[q] = local[q] \/ (local[q] \notin Contents /\ local'[q] \notin Contents)
           /\ remote'[q] = remote[q]
           /\ tracked'[q] = tracked[q]
    BY <1>b, <1>2
  <2>3. 1 \in DOMAIN plan' => ~Turned(plan'[1])
    BY <1>a, TailIsOthers
  <2> HIDE DEF X
  <2> QED
    BY <1>a, <1>o, <1>u, <2>1, <2>2, <2>3, PendingOnward
<1>8. AgreedInv' /\ NothingOverwritten'
  <2>1. listed[p] \in Contents => remote[p] = listed[p] \/ listed[p] \in Spent
    BY <1>a, <1>1 DEF PendingInv
  <2>2. \A q \in Paths :
           \/ tracked'[q] \in {tracked[q], saved[q]} \/ tracked'[q] \notin Contents
           \/ tracked'[q] \in Spent' \/ (local'[q] = tracked'[q] /\ remote'[q] = tracked'[q])
    BY <1>b, <1>u, <1>2, <2>1
  <2>3. \A q \in Paths : local[q] \in Contents => local'[q] = local[q] \/ local[q] \in Spent'
    BY <1>u, <1>2
  <2> QED
    BY <1>a, <1>u, <2>2, <2>3, ContentsKept
<1>9. SeenThere' = SeenThere
  BY <1>u DEF SeenThere
<1>10. \A e \in HeldIn(local') : \/ e \in HeldIn(local)
                                 \/ e = remote[p] /\ local'[p] = e /\ remote[p] # tracked[p]
  BY <1>b, <1>2 DEF HeldIn
<1>11. SeenHere \subseteq Contents /\ SeenThere \subseteq Contents
  BY <1>a, SeenIs, EntriesApart
<1>12. \A e : e \in SeenHere' => e \in SeenHere \/ (e = remote[p] /\ local'[p] = e /\ e \in Contents
                                                    /\ remote[p] # tracked[p])
  <2>1. HeldIn(local') \subseteq Contents
    BY DEF HeldIn
  <2> QED
    BY <1>u, <1>10, <2>1 DEF SeenHere
<1>13. SeenInv'
  <2> SUFFICES ASSUME ~forgetful', NEW q \in Paths
               PROVE  /\ remote'[q] \in SeenHere' => tracked'[q] = remote'[q]
                      /\ local'[q] \in SeenThere' => tracked'[q] = local'[q]
    BY DEF SeenInv
  <2>1. /\ remote[q] \in SeenHere => tracked[q] = remote[q]
        /\ local[q] \in SeenThere => tracked[q] = local[q]
    BY <1>a, <1>2 DEF SeenInv
  <2>2. CASE q = p
    <3>1. CASE local'[p] = remote[p] /\ tracked'[p] = remote[p]
      BY <2>2, <3>1
    <3>2. CASE /\ local'[p] \notin Contents
               /\ remote[p] \in Contents => remote[p] # tracked[p]
      BY <1>9, <1>11, <1>12, <2>1, <2>2, <3>2
    <3>3. CASE /\ tracked'[p] = tracked[p]
               /\ local'[p] = local[p] \/ local'[p] \notin Contents
      <4>1. remote[p] \in SeenHere' => remote[p] \in SeenHere
        <5>1. CASE local'[p] = remote[p] /\ remote[p] \in Contents
          <6>1. local[p] = remote[p]
            BY <3>3, <5>1
          <6> QED
            BY <1>a, <1>1, <5>1, <6>1, SeenIs
        <5>2. CASE ~(local'[p] = remote[p] /\ remote[p] \in Contents)
          BY <1>12, <5>2
        <5> QED
          BY <5>1, <5>2
      <4> QED
        BY <1>9, <1>11, <2>1, <2>2, <3>3, <4>1
    <3> QED
      BY <1>2, <3>1, <3>2, <3>3
  <2>3. CASE q # p
    <3>1. remote[p] \in Contents => remote[q] # remote[p]
      BY <1>a, <1>1, <2>3 DEF PlaceInv, Placed
    <3>2. remote'[q] \in SeenHere' => remote[q] \in SeenHere
      BY <1>12, <3>1
    <3>3. local'[q] \in SeenThere => local'[q] = local[q]
      BY <1>b, <1>2, <1>11, <2>3
    <3> QED
      BY <1>2, <1>9, <2>1, <2>3, <3>2, <3>3
  <2> QED
    BY <2>2, <2>3
<1>14. Stays
  <2> SUFFICES ASSUME ~forgetful'
               PROVE  /\ bygone["local"] \cap HeldIn(local') \subseteq HeldIn(local)
                      /\ bygone["remote"] \cap HeldIn(remote') \subseteq HeldIn(remote)
    BY DEF Stays, HeldIn
  <2>1. remote[p] \in SeenHere => tracked[p] = remote[p]
    BY <1>a, <1>1, <1>2 DEF SeenInv
  <2>2. remote[p] # tracked[p] => remote[p] \notin bygone["local"]
    BY <2>1 DEF SeenHere
  <2> QED
    BY <1>10, <2>2
<1> QED
  BY <1>4, <1>5, <1>6, <1>7, <1>8, <1>13, <1>14 DEF SyncInv

(* The directories a download makes before it asks for the file.           *)
LEMMA ParentsAppear ==
    ASSUME SyncInv, plan # <<>>, phase = "applying", Action.do = "Download" \/ local' = local,
           local' = (IF ParentsFit(local, Action.path) THEN WithParents(local, Action.path) ELSE local)
           \/ local' = local
    PROVE  /\ Hanging(local') /\ local'[Action.path] = local[Action.path]
           /\ \A q \in Paths \ {Action.path} :
                 \/ local'[q] = local[q]
                 \/ /\ local[q] \notin Contents /\ local'[q] = Dir
                    /\ q \in Above(Action.path) /\ listed[Action.path] # None
<1> DEFINE p == Action.path
<1>a. TypeInv /\ FitInv
  BY DEF SyncInv
<1>1. CASE local' = local
  BY <1>a, <1>1 DEF FitInv
<1>2. CASE local' # local
  <2>1. ParentsFit(local, p) /\ local' = WithParents(local, p) /\ Action.do = "Download"
    BY <1>2
  <2>2. p \in Paths /\ 1 \in DOMAIN plan /\ Action = plan[1]
    BY <1>a, PlanHead
  <2>3. local \in [Paths -> KnownEntries] /\ None \in KnownEntries /\ Dir \in KnownEntries
    BY <1>a, SixTrees
  <2>4. \A q \in Paths : WithParents(local, p)[q] = IF q \in Above(p) THEN Dir ELSE local[q]
    BY <2>2, <2>3, TreeOps
  <2>5. p \notin Above(p)
    BY <2>2, NotAboveItself
  <2>6. Put(local, local', p, local[p])
    BY <2>1, <2>4, <2>5 DEF Put, ParentsFit, IsFile
  <2>7. Hanging(local')
    BY <1>a, <2>2, <2>6, PutHangs DEF FitInv
  <2>8. listed[p] # None
    BY <1>a, <2>1, <2>2 DEF FitInv
  <2> HIDE DEF p
  <2> QED
    BY <2>2, <2>5, <2>6, <2>7, <2>8 DEF Put, p
<1> QED
  BY <1>1, <1>2

(* An action that is refused, or fails, before it changes anything else.   *)
LEMMA SkipKeeps ==
    ASSUME SyncInv, TypeInv', PlanInv', plan # <<>>, phase = "applying", Skip,
           remote' = remote, trash' = trash, tracked' = tracked, forgetful' = forgetful,
           Action.do = "Download" \/ local' = local,
           local' = (IF ParentsFit(local, Action.path) THEN WithParents(local, Action.path) ELSE local)
           \/ local' = local
    PROVE  SyncInv' /\ Stays
<1>1. /\ Hanging(local') /\ local'[Action.path] = local[Action.path]
      /\ \A q \in Paths \ {Action.path} :
            \/ local'[q] = local[q]
            \/ /\ local[q] \notin Contents /\ local'[q] = Dir
               /\ q \in Above(Action.path) /\ listed[Action.path] # None
  BY ParentsAppear
<1>2. plan' = Tail(plan) /\ UNCHANGED <<saved, phase, scanned, listed, stamped, userVars>>
  BY DEF Skip
<1> QED
  BY <1>1, <1>2, FolderKeeps

(* A directory is made, or a file is brought.                              *)
LEMMA FetchKeeps ==
    ASSUME SyncInv, TypeInv', PlanInv', plan # <<>>, phase = "applying", Skip,
           remote' = remote, trash' = trash, ParentsFit(local, Action.path),
           \/ /\ Action.do = "CreateLocalDirectory" /\ local[Action.path] \notin Contents
              /\ local' = With(local, Action.path, Dir)
              /\ tracked' = [tracked EXCEPT ![Action.path] = Dir] /\ forgetful' = forgetful
           \/ /\ Action.do = "Download" /\ local[Action.path] # Dir /\ remote[Action.path] \in Contents
              /\ local' = With(local, Action.path, remote[Action.path])
              /\ tracked' = [tracked EXCEPT ![Action.path] = listed[Action.path]]
              /\ forgetful' = (forgetful \/ remote[Action.path] # listed[Action.path])
    PROVE  SyncInv' /\ Stays
<1> DEFINE p == Action.path
<1>a. TypeInv /\ FitInv
  BY DEF SyncInv
<1>b. None \notin Contents /\ Dir \notin Contents /\ None # Dir
  BY BoundsAssumption
<1>1. /\ p \in Paths /\ 1 \in DOMAIN plan /\ Action = plan[1]
      /\ Due(Action.do, local[p], remote[p], tracked[p], scanned[p], listed[p], Spent)
  BY <1>a, PlanHead, HeadIsDue
<1>2. listed[p] # None
  BY <1>a, <1>1 DEF FitInv
<1>3. local \in [Paths -> KnownEntries] /\ None \in KnownEntries /\ Dir \in KnownEntries
      /\ remote[p] \in KnownEntries /\ tracked \in [Paths -> KnownEntries]
  BY <1>a, <1>1, SixTrees
<1>4. ASSUME NEW e \in KnownEntries
      PROVE  \A q \in Paths :
                With(local, p, e)[q] = IF q = p THEN e ELSE IF q \in Above(p) THEN Dir ELSE local[q]
  BY DEF With, WithParents
<1>5. plan' = Tail(plan) /\ UNCHANGED <<saved, phase, scanned, listed, stamped, userVars>>
  BY DEF Skip
<1>6. ASSUME NEW e \in KnownEntries, local' = With(local, p, e), e = Dir \/ local[p] # Dir
      PROVE  /\ Hanging(local') /\ local'[p] = e
             /\ \A q \in Paths \ {p} :
                  \/ local'[q] = local[q]
                  \/ /\ local[q] \notin Contents /\ local'[q] = Dir
                     /\ q \in Above(p) /\ listed[p] # None
  <2>1. Put(local, local', p, e)
    BY <1>4, <1>6 DEF Put, ParentsFit, IsFile
  <2>2. Hanging(local')
    <3>1. Hanging(local)
      BY <1>a DEF FitInv
    <3> QED
      BY <1>1, <1>6, <2>1, <3>1, PutHangs
  <2> QED
    BY <1>1, <1>2, <2>1, <2>2 DEF Put
<1>7. CASE /\ Action.do = "CreateLocalDirectory" /\ local[p] \notin Contents
           /\ local' = With(local, p, Dir)
           /\ tracked' = [tracked EXCEPT ![p] = Dir] /\ forgetful' = forgetful
  <2>1. /\ Hanging(local') /\ local'[p] = Dir
        /\ \A q \in Paths \ {p} :
              \/ local'[q] = local[q]
              \/ /\ local[q] \notin Contents /\ local'[q] = Dir
                 /\ q \in Above(p) /\ listed[p] # None
    BY <1>3, <1>6, <1>7
  <2>2. remote[p] \in Contents => remote[p] # tracked[p]
    BY <1>1, <1>7 DEF Due
  <2>3. tracked'[p] = Dir /\ \A q \in Paths \ {p} : tracked'[q] = tracked[q]
    BY <1>1, <1>3, <1>7
  <2> QED
    BY <1>b, <1>2, <1>5, <1>7, <2>1, <2>2, <2>3, FolderKeeps
<1>8. CASE /\ Action.do = "Download" /\ local[p] # Dir /\ remote[p] \in Contents
           /\ local' = With(local, p, remote[p])
           /\ tracked' = [tracked EXCEPT ![p] = listed[p]]
           /\ forgetful' = (forgetful \/ remote[p] # listed[p])
  <2>1. /\ Hanging(local') /\ local'[p] = remote[p]
        /\ \A q \in Paths \ {p} :
              \/ local'[q] = local[q]
              \/ /\ local[q] \notin Contents /\ local'[q] = Dir
                 /\ q \in Above(p) /\ listed[p] # None
    BY <1>3, <1>6, <1>8
  <2>2. remote[p] # tracked[p] /\ (local[p] \in Contents => local[p] \in Spent)
    BY <1>1, <1>8 DEF Due
  <2>3. tracked'[p] = listed[p] /\ \A q \in Paths \ {p} : tracked'[q] = tracked[q]
    BY <1>1, <1>3, <1>8
  <2> QED
    BY <1>b, <1>2, <1>5, <1>8, <2>1, <2>2, <2>3, FolderKeeps
<1> QED
  BY <1>7, <1>8

(* A file or an empty directory goes, or is forgotten.                     *)
LEMMA DropKeeps ==
    ASSUME SyncInv, TypeInv', PlanInv', plan # <<>>, phase = "applying", Skip,
           remote' = remote, trash' = trash, forgetful' = forgetful,
           tracked' = [tracked EXCEPT ![Action.path] = None],
           \/ /\ Action.do = "RemoveLocalDirectory"
              /\ \A q \in Paths : Inside(q, Action.path) => local[q] = None
              /\ local' = [local EXCEPT ![Action.path] = None]
           \/ /\ Action.do = "DeleteLocal" /\ local[Action.path] # Dir
              /\ local' = [local EXCEPT ![Action.path] = None]
           \/ Action.do = "Forget" /\ local' = local
    PROVE  SyncInv' /\ Stays
<1> DEFINE p == Action.path
<1>a. TypeInv /\ FitInv
  BY DEF SyncInv
<1>b. None \notin Contents /\ Dir \notin Contents /\ None # Dir
  BY BoundsAssumption
<1>1. /\ p \in Paths
      /\ Due(Action.do, local[p], remote[p], tracked[p], scanned[p], listed[p], Spent)
  BY HeadIsDue
<1>3. local \in [Paths -> KnownEntries] /\ tracked \in [Paths -> KnownEntries]
  BY <1>a, SixTrees
<1>5. plan' = Tail(plan) /\ UNCHANGED <<saved, phase, scanned, listed, stamped, userVars>>
  BY DEF Skip
<1>6. tracked'[p] = None /\ \A q \in Paths \ {p} : tracked'[q] = tracked[q]
  BY <1>1, <1>3
<1>7. /\ remote[p] \in Contents => remote[p] # tracked[p]
      /\ Action.do # "DeleteLocal" => local[p] \notin Contents
      /\ Action.do = "DeleteLocal" => local[p] \in Spent
  BY <1>1 DEF Due
<1>8. CASE Action.do = "Forget" /\ local' = local
  <2>1. Hanging(local')
    BY <1>a, <1>8 DEF FitInv
  <2> QED
    BY <1>5, <1>6, <1>7, <1>8, <2>1, FolderKeeps
<1>9. CASE /\ local' = [local EXCEPT ![p] = None]
           /\ local[p] # Dir \/ \A q \in Paths : p \in Above(q) => local[q] = None
  <2>1. Changed(local, local', p, None)
    BY <1>1, <1>3, <1>9 DEF Changed
  <2>2. Hanging(local')
    BY <1>a, <1>1, <1>9, <2>1, ChangedHangs DEF FitInv
  <2>3. local'[p] = None /\ \A q \in Paths \ {p} : local'[q] = local[q]
    BY <1>1, <2>1 DEF Changed
  <2> QED
    BY <1>b, <1>5, <1>6, <1>7, <1>9, <2>2, <2>3, FolderKeeps
<1> QED
  BY <1>8, <1>9 DEF Inside

(* The local file of a conflict makes way under a name nothing has.        *)
LEMMA MakeWayKeeps ==
    ASSUME SyncInv, TypeInv', PlanInv', MakeWay, local[Action.path] \in Contents
    PROVE  SyncInv' /\ Stays
<1> DEFINE p == Action.path c == Action.copy
<1>a. TypeInv /\ PlanInv /\ CopyInv /\ FitInv /\ PlaceInv /\ PendingInv /\ AgreedInv /\ SeenInv
      /\ NothingOverwritten
  BY DEF SyncInv
<1>b. None \notin Contents /\ Dir \notin Contents /\ None # Dir
  BY BoundsAssumption
<1>0. plan # <<>> /\ phase = "applying" /\ Action.do \in {"KeepBoth", "SetAside"}
  BY DEF MakeWay, Does
<1>1. /\ local' = [local EXCEPT ![c] = local[p], ![p] = None]
      /\ stamped' = stamped \cup {c}
      /\ \/ /\ Action.do = "KeepBoth" /\ tracked' = tracked
            /\ plan' = <<[Action EXCEPT !.do = "SendCopy"]>> \o Tail(plan)
         \/ /\ Action.do = "SetAside" /\ tracked' = [tracked EXCEPT ![p] = None]
            /\ plan' = <<[Action EXCEPT !.do = "Download"]>> \o Tail(plan)
      /\ remote' = remote /\ trash' = trash /\ saved' = saved /\ phase' = phase
      /\ scanned' = scanned /\ listed' = listed /\ forgetful' = forgetful
      /\ bygone' = bygone /\ written' = written
  BY <1>0 DEF MakeWay, IsFile, Forget, Record, userVars
<1>o. Onward
  BY <1>1 DEF Onward
<1>2. /\ p \in Paths /\ p \notin Copies \ stamped
      /\ Due(Action.do, local[p], remote[p], tracked[p], scanned[p], listed[p], Spent)
      /\ c \in Paths /\ c \in Copies /\ c # p /\ Above(c) = Above(p) /\ c \notin stamped
      /\ \A b \in Others : b.path # p /\ b.path # c
  BY <1>0, HeadIsDue DEF Conflicts
<1>3. /\ ~(scanned[p] = Dir /\ listed[p] = Dir) /\ scanned[p] \in Contents /\ local[p] = scanned[p]
      /\ tracked[p] # scanned[p] /\ remote[p] # scanned[p]
      /\ remote[p] \in Contents => remote[p] # tracked[p]
  BY <1>0, <1>2 DEF Due
<1>4. local[c] = None /\ remote[c] = None /\ scanned[c] = None /\ tracked[c] = None /\ saved[c] = None
  BY <1>a, <1>2 DEF CopyInv
<1>5. local \in [Paths -> KnownEntries] /\ tracked \in [Paths -> KnownEntries]
  BY <1>a, SixTrees
<1>6. /\ \A q \in Paths : local'[q] = IF q = p THEN None ELSE IF q = c THEN local[p] ELSE local[q]
      /\ \A q \in Paths \ {p} : tracked'[q] = tracked[q]
      /\ Action.do = "KeepBoth" => tracked'[p] = tracked[p]
      /\ Action.do = "SetAside" => tracked'[p] = None
  BY <1>1, <1>2, <1>5
<1>s. Spent' = Spent
  BY <1>1 DEF Spent
<1>7. 1 \in DOMAIN plan' /\ Turned(plan'[1])
      => \/ plan'[1].do = "SendCopy" /\ Action.do = "KeepBoth"
         \/ plan'[1].do = "Download" /\ Action.do \in {"KeepBoth", "SetAside"}
  BY <1>0 DEF Turned
<1> HIDE DEF p, c
<1>8. CopyInv'
  <2>1. ASSUME NEW k \in Copies \ stamped' PROVE local'[k] = None /\ remote'[k] = None /\ tracked'[k] = None
    <3>1. k \in Paths /\ k # p /\ k # c /\ tracked[k] = None /\ local[k] = None /\ remote[k] = None
      BY <1>a, <1>1, <1>2, CopiesArePaths DEF CopyInv
    <3> QED
      BY <1>1, <1>6, <3>1
  <2>2. Action.do \in {"KeepBoth", "SetAside"} /\ stamped' = stamped \cup {Action.copy}
    BY <1>0, <1>1 DEF c
  <2> QED
    BY <1>a, <1>0, <1>1, <1>o, <2>1, <2>2, CopyOnward
<1>9. FitInv'
  <2>1. Hanging(local')
    <3> SUFFICES ASSUME NEW x \in Paths, local'[x] # None, NEW y \in Above(x) PROVE local'[y] = Dir
      BY DEF Hanging
    <3>0. y \in Paths /\ y # c
      BY <1>2, NotAboveItself, CopiesAreLeaves
    <3>1. CASE x = c
      <4>1. y \in Above(p) /\ y # p
        BY <1>2, <3>1, NotAboveItself
      <4>2. local[y] = Dir
        BY <1>a, <1>b, <1>2, <1>3, <4>1 DEF FitInv, Hanging
      <4> QED
        BY <1>6, <3>0, <4>1, <4>2
    <3>2. CASE x # c
      <4>1. x # p /\ local[x] # None
        BY <1>6, <3>2
      <4>2. local[y] = Dir
        BY <1>a, <4>1 DEF FitInv, Hanging
      <4>3. y # p
        BY <1>b, <1>3, <4>2
      <4> QED
        BY <1>6, <3>0, <4>2, <4>3
    <3> QED
      BY <3>1, <3>2
  <2>2. Hanging(remote')
    BY <1>a, <1>1 DEF FitInv
  <2>3. \A q \in Paths : local'[q] # None => local[q] # None \/ q \in Copies
    BY <1>2, <1>6
  <2> QED
    BY <1>a, <1>0, <1>1, <1>o, <2>1, <2>2, <2>3, FitOnward
<1>10. PlaceInv'
  <2>1. ASSUME NEW x \in Paths, NEW y \in Paths, x # y
        PROVE  /\ local'[x] \in Contents => local'[y] # local'[x] /\ remote[y] # local'[x]
               /\ remote[x] \in Contents => remote[y] # remote[x]
    <3>1. /\ \A q \in Paths \ {p} : local[q] # local[p] /\ remote[q] # local[p]
          /\ remote[p] # local[p]
      BY <1>a, <1>2, <1>3 DEF PlaceInv, Placed
    <3>2. /\ local[x] \in Contents => local[y] # local[x] /\ remote[y] # local[x]
          /\ remote[x] \in Contents => remote[y] # remote[x]
      BY <1>a, <2>1 DEF PlaceInv, Placed
    <3> QED
      BY <1>b, <1>2, <1>3, <1>6, <2>1, <3>1, <3>2
  <2> QED
    BY <1>1, <2>1 DEF PlaceInv, Placed
<1>11. PendingInv'
  <2> DEFINE X == {p, c}
  <2>1. /\ X \in SUBSET Paths /\ (\A b \in Others : b.path \notin X)
        /\ \A q \in X : ~(scanned[q] = Dir /\ listed[q] = Dir)
    BY <1>b, <1>2, <1>3, <1>4
  <2>2. \A q \in Paths \ X : local'[q] = local[q] /\ remote'[q] = remote[q] /\ tracked'[q] = tracked[q]
    BY <1>1, <1>6
  <2>3. ASSUME 1 \in DOMAIN plan', Turned(plan'[1])
        PROVE  /\ Due(plan'[1].do, local'[p], remote'[p], tracked'[p], scanned[p], listed[p], Spent')
               /\ plan'[1].do = "SendCopy" => /\ local'[c] = scanned[p] /\ tracked'[c] = None
                                              /\ c # p /\ \A o \in Others : o.path # c
    <3>1. local'[p] = None /\ remote'[p] = remote[p] /\ local'[c] = scanned[p] /\ tracked'[c] = None
      BY <1>1, <1>2, <1>3, <1>4, <1>6
    <3>2. tracked'[p] = tracked[p] \/ tracked'[p] = None
      BY <1>0, <1>6
    <3>3. plan'[1].do = "SendCopy" \/ plan'[1].do = "Download"
      BY <1>7, <2>3
    <3>4. Due(plan'[1].do, None, remote[p], tracked'[p], scanned[p], listed[p], Spent')
      BY <1>b, <1>3, <3>2, <3>3 DEF Due
    <3> QED
      BY <1>2, <3>1, <3>4
  <2> HIDE DEF X
  <2>4. 1 \in DOMAIN plan' /\ Turned(plan'[1]) =>
              LET b == plan'[1] IN
              /\ Due(b.do, local'[Action.path], remote'[Action.path], tracked'[Action.path],
                     scanned[Action.path], listed[Action.path], Spent')
              /\ b.do = "SendCopy" => /\ local'[Action.copy] = scanned[Action.path]
                                      /\ tracked'[Action.copy] = None
                                      /\ Action.copy # Action.path /\ \A o \in Others : o.path # Action.copy
    BY <2>3 DEF p, c
  <2> QED
    BY <1>a, <1>0, <1>1, <1>o, <1>s, <2>1, <2>2, <2>4, PendingOnward
<1>12. AgreedInv' /\ NothingOverwritten'
  <2>1. \A q \in Paths : local[q] \in Contents =>
           \/ local'[q] = local[q] \/ local[q] \in Spent'
           \/ remote[q] # local[q] /\ \E y \in Paths : local'[y] = local[q]
    <3> TAKE q \in Paths
    <3>1. CASE q = p
      <4>1. local'[c] = local[p] /\ remote[p] # local[p]
        BY <1>2, <1>3, <1>6
      <4> QED
        BY <1>2, <3>1, <4>1
    <3>2. CASE q # p
      BY <1>b, <1>4, <1>6, <3>2
    <3> QED
      BY <3>1, <3>2
  <2>2. \A q \in Paths : tracked'[q] \in {tracked[q], saved[q]} \/ tracked'[q] \notin Contents
    BY <1>0, <1>b, <1>6
  <2> QED
    BY <1>a, <1>1, <1>s, <2>1, <2>2, ContentsKept
<1>13. HeldIn(local') \subseteq HeldIn(local) /\ SeenThere' = SeenThere
  BY <1>1, <1>b, <1>2, <1>6 DEF HeldIn, SeenThere
<1>14. SeenHere' \subseteq SeenHere
  BY <1>1, <1>13 DEF SeenHere
<1>15. SeenInv'
  <2> SUFFICES ASSUME ~forgetful', NEW q \in Paths
               PROVE  /\ remote'[q] \in SeenHere' => tracked'[q] = remote'[q]
                      /\ local'[q] \in SeenThere' => tracked'[q] = local'[q]
    BY DEF SeenInv
  <2>1. /\ \A y \in Paths : remote[y] \in SeenHere => tracked[y] = remote[y]
        /\ \A y \in Paths : local[y] \in SeenThere => tracked[y] = local[y]
    BY <1>a, <1>1 DEF SeenInv
  <2>2. SeenHere \subseteq Contents /\ SeenThere \subseteq Contents
    BY <1>a, SeenIs, EntriesApart
  <2>3. remote[p] \notin SeenHere /\ local[p] \notin SeenThere
    BY <1>2, <1>3, <2>1, <2>2
  <2>r. remote'[q] = remote[q] /\ SeenThere' = SeenThere
    BY <1>1, <1>13
  <2>h. remote[q] \in SeenHere' => remote[q] \in SeenHere
    BY <1>14
  <2>n. None \notin SeenThere /\ None \notin SeenHere
    BY <1>b, <2>2
  <2>4. CASE q = p
    <3>1. local'[q] = None
      BY <1>6, <2>4
    <3> QED
      BY <2>3, <2>4, <2>r, <2>h, <2>n, <3>1
  <2>5. CASE q = c
    <3>1. local'[q] = local[p] /\ remote[q] = None
      BY <1>2, <1>4, <1>6, <2>5
    <3> QED
      BY <2>3, <2>r, <2>h, <2>n, <3>1
  <2>6. CASE q # p /\ q # c
    <3>1. local'[q] = local[q] /\ tracked'[q] = tracked[q]
      BY <1>6, <2>6
    <3> QED
      BY <2>1, <2>r, <2>h, <3>1
  <2> QED
    BY <2>4, <2>5, <2>6
<1>16. Stays
  BY <1>1, <1>13 DEF Stays, HeldIn
<1> QED
  BY <1>8, <1>9, <1>10, <1>11, <1>12, <1>15, <1>16 DEF SyncInv

(* What a pass does to the folder, each of its actions.                    *)
LEMMA FolderActionsKeep ==
    ASSUME SyncInv,
           \/ ServerRefuses \/ RequestFails \/ CreateLocalDirectory \/ RemoveLocalDirectory
           \/ DeleteLocal \/ ForgetPath \/ Download \/ MakeWay
    PROVE  SyncInv' /\ Stays
<1> DEFINE p == Action.path
<1>a. TypeInv /\ PlanInv
  BY DEF SyncInv
<1>t. TypeInv' /\ PlanInv'
  <2>1. Next
    BY DEF Next, Steps, Disturbed
  <2> QED
    BY <1>a, <2>1, TypesStay, PlanStays
<1>0. plan # <<>> /\ phase = "applying"
  BY DEF ServerRefuses, RequestFails, CreateLocalDirectory, RemoveLocalDirectory, DeleteLocal,
     ForgetPath, Download, MakeWay, Does
<1>1. CASE ServerRefuses
  BY <1>t, <1>0, <1>1, SkipKeeps DEF ServerRefuses, folderVars
<1>2. CASE RequestFails
  <2>1. Skip /\ remote' = remote /\ trash' = trash /\ tracked' = tracked /\ forgetful' = forgetful
    BY <1>2 DEF RequestFails
  <2>2. /\ Action.do = "Download" \/ local' = local
        /\ \/ local' = (IF ParentsFit(local, p) THEN WithParents(local, p) ELSE local)
           \/ local' = local
    BY <1>2 DEF RequestFails
  <2> QED
    BY <1>t, <1>0, <2>1, <2>2, SkipKeeps
<1>3. CASE CreateLocalDirectory
  <2>0. Skip /\ remote' = remote /\ trash' = trash /\ forgetful' = forgetful
        /\ Action.do = "CreateLocalDirectory"
    BY <1>3 DEF CreateLocalDirectory, Does
  <2>1. CASE ParentsFit(local, p) /\ ~IsFile(local[p])
    <3>1. local' = With(local, p, Dir) /\ tracked' = [tracked EXCEPT ![p] = Dir]
      BY <1>3, <2>1 DEF CreateLocalDirectory, Record
    <3> QED
      BY <1>t, <1>0, <2>0, <2>1, <3>1, FetchKeeps DEF IsFile
  <2>2. CASE ~(ParentsFit(local, p) /\ ~IsFile(local[p]))
    <3>1. local' = local /\ tracked' = tracked
      BY <1>3, <2>2 DEF CreateLocalDirectory
    <3> QED
      BY <1>t, <1>0, <2>0, <3>1, SkipKeeps
  <2> QED
    BY <2>1, <2>2
<1>4. CASE RemoveLocalDirectory
  <2>0. Skip /\ remote' = remote /\ trash' = trash /\ forgetful' = forgetful
        /\ Action.do = "RemoveLocalDirectory"
    BY <1>4 DEF RemoveLocalDirectory, Does
  <2>1. CASE local[p] = Dir /\ \A q \in Paths : Inside(q, p) => local[q] = None
    <3>1. local' = [local EXCEPT ![p] = None] /\ tracked' = [tracked EXCEPT ![p] = None]
      BY <1>4, <2>1 DEF RemoveLocalDirectory, Forget, Record
    <3> QED
      BY <1>t, <1>0, <2>0, <2>1, <3>1, DropKeeps
  <2>2. CASE ~(local[p] = Dir /\ \A q \in Paths : Inside(q, p) => local[q] = None)
    <3>1. local' = local /\ tracked' = tracked
      BY <1>4, <2>2 DEF RemoveLocalDirectory
    <3> QED
      BY <1>t, <1>0, <2>0, <3>1, SkipKeeps
  <2> QED
    BY <2>1, <2>2
<1>5. CASE DeleteLocal
  <2>0. Skip /\ remote' = remote /\ trash' = trash /\ forgetful' = forgetful
        /\ Action.do = "DeleteLocal"
    BY <1>5 DEF DeleteLocal, Does
  <2>1. CASE local[p] # Dir
    <3>1. local' = [local EXCEPT ![p] = None] /\ tracked' = [tracked EXCEPT ![p] = None]
      BY <1>5, <2>1 DEF DeleteLocal, Forget, Record
    <3> QED
      BY <1>t, <1>0, <2>0, <2>1, <3>1, DropKeeps
  <2>2. CASE local[p] = Dir
    <3>1. local' = local /\ tracked' = tracked
      BY <1>5, <2>2 DEF DeleteLocal
    <3> QED
      BY <1>t, <1>0, <2>0, <3>1, SkipKeeps
  <2> QED
    BY <2>1, <2>2
<1>6. CASE ForgetPath
  <2>0. Skip /\ local' = local /\ remote' = remote /\ trash' = trash /\ forgetful' = forgetful
        /\ Action.do = "Forget" /\ tracked' = [tracked EXCEPT ![p] = None]
    BY <1>6 DEF ForgetPath, Does, Forget, Record, folderVars
  <2> QED
    BY <1>t, <1>0, <2>0, DropKeeps
<1>7. CASE Download
  <2>0. Skip /\ remote' = remote /\ trash' = trash /\ Action.do = "Download"
    BY <1>7 DEF Download, Does
  <2>1. CASE IsFile(remote[p]) /\ local[p] # Dir /\ ParentsFit(local, p)
    <3>1. /\ local' = With(local, p, remote[p]) /\ tracked' = [tracked EXCEPT ![p] = listed[p]]
          /\ forgetful' = (forgetful \/ remote[p] # listed[p])
      BY <1>7, <2>1 DEF Download, Record
    <3> QED
      BY <1>t, <1>0, <2>0, <2>1, <3>1, FetchKeeps DEF IsFile
  <2>2. CASE ~(IsFile(remote[p]) /\ local[p] # Dir /\ ParentsFit(local, p))
    <3>1. /\ local' = (IF ParentsFit(local, p) THEN WithParents(local, p) ELSE local)
          /\ tracked' = tracked /\ forgetful' = forgetful
      BY <1>7, <2>2 DEF Download
    <3> QED
      BY <1>t, <1>0, <2>0, <3>1, SkipKeeps
  <2> QED
    BY <2>1, <2>2
<1>8. CASE MakeWay
  <2>1. CASE IsFile(local[p])
    BY <1>t, <1>8, <2>1, MakeWayKeeps DEF IsFile
  <2>2. CASE ~IsFile(local[p])
    <3>1. /\ plan' = Tail(plan) /\ local' = local /\ stamped' = stamped /\ tracked' = tracked
          /\ remote' = remote /\ trash' = trash /\ forgetful' = forgetful
          /\ UNCHANGED <<saved, phase, scanned, ahead, listed, userVars>>
      BY <1>8, <2>2 DEF MakeWay
    <3>2. Skip
      BY <3>1 DEF Skip
    <3> QED
      BY <1>t, <1>0, <3>1, <3>2, SkipKeeps
  <2> QED
    BY <2>1, <2>2
<1> QED
  BY <1>1, <1>2, <1>3, <1>4, <1>5, <1>6, <1>7, <1>8

-----------------------------------------------------------------------------
(* All of it holds when a pass has run and both sides agree ...            *)
LEMMA SyncBegins == Init => SyncInv
<1> SUFFICES ASSUME Init PROVE SyncInv
  OBVIOUS
<1>t. TypeInv /\ PlanInv
  BY TypesBegin, PlanBegins
<1>1. /\ local \in Starts /\ remote = local /\ tracked = local /\ saved = local /\ trash = {}
      /\ phase = "idle" /\ scanned = Nothing /\ listed = Nothing /\ plan = <<>> /\ stamped = {}
      /\ written = HeldIn(local) /\ bygone["local"] = {} /\ bygone["remote"] = {}
  BY DEF Init
<1>2. DOMAIN plan = {}
  BY <1>1
<1>3. \A p \in Paths : scanned[p] = None
  BY <1>1 DEF Nothing
<1>4. \A p \in Paths : local[p] \in Contents \/ local[p] = None \/ local[p] = Dir
  BY <1>t, SixTrees
<1>5. None \notin Contents /\ Dir \notin Contents /\ None # Dir
  BY BoundsAssumption
<1>6. \A p \in Paths : local[p] # None =>
        /\ \A q \in Above(p) : local[q] = Dir
        /\ local[p] # Dir => \A q \in Paths \ {p} : local[q] # local[p]
        /\ \A q \in Paths \ {p} : Folded[q] = Folded[p] => local[q] = None
  BY <1>1, StartsAssumption
<1>7. CopyInv
  <2>1. \A c \in Copies : local[c] = None
    BY <1>1, CopiesAssumption
  <2> QED
    BY <1>1, <1>2, <1>3, <2>1, CopiesArePaths DEF CopyInv
<1>8. FitInv
  <2>1. Hanging(local)
    BY <1>6 DEF Hanging
  <2>2. Apart(local)
    BY <1>6 DEF Apart
  <2>3. Apart(scanned)
    BY <1>3 DEF Apart
  <2> QED
    BY <1>1, <1>2, <2>1, <2>2, <2>3 DEF FitInv
<1>9. PlaceInv
  BY <1>1, <1>5, <1>6 DEF PlaceInv, Placed
<1>10. PendingInv
  BY <1>1, <1>2 DEF PendingInv
<1>11. AgreedInv
  BY <1>1 DEF AgreedInv, Agreed
<1>12. SeenInv
  BY <1>1 DEF SeenInv
<1>13. NothingOverwritten
  BY <1>1 DEF NothingOverwritten
<1> QED
  BY <1>t, <1>7, <1>8, <1>9, <1>10, <1>11, <1>12, <1>13 DEF SyncInv

LEMMA WalkBegins == Init => WalkInv
BY DEF Init, WalkInv

(* ... and after every step, if the folder rests while a pass runs.        *)
LEMMA SyncStays ==
    ASSUME EditsDuringPass = FALSE
    PROVE  SyncInv /\ WalkInv /\ [Next]_vars => SyncInv' /\ WalkInv' /\ [Stays]_vars
<1> SUFFICES ASSUME SyncInv, WalkInv, [Next]_vars PROVE SyncInv' /\ [Stays]_vars
  BY WalkStays
<1>1. CASE LocalUser
  BY <1>1, LocalUserKeeps
<1>2. CASE RemoteUser
  BY <1>2, RemoteUserKeeps
<1>3. CASE List
  BY <1>3, ListKeeps
<1>10. CASE MakePlan
  BY <1>10, MakePlanKeeps
<1>4. CASE Scan
  BY <1>4, ScanKeeps
<1>5. CASE Finish \/ SaveFails \/ ListFails \/ DirectoryGone \/ Crash
  BY <1>5, EndKeeps
<1>6. CASE ServerDoes
  BY <1>6, ServerDoesKeeps
<1>7. CASE AnswerLost
  BY <1>7, AnswerLostKeeps
<1>8. CASE \/ ServerRefuses \/ RequestFails \/ CreateLocalDirectory \/ RemoveLocalDirectory
           \/ DeleteLocal \/ ForgetPath \/ Download \/ MakeWay
  BY <1>8, FolderActionsKeep
<1>9. CASE UNCHANGED vars
  <2>0. UNCHANGED <<local, remote, trash, tracked, saved, phase, scanned, listed, plan,
                    stamped, edits, trouble, written, bygone, forgetful>>
    BY <1>9 DEF vars
  <2>1. TypeInv' /\ PlanInv'
    BY TypesStay, PlanStays DEF SyncInv
  <2>2. Spent' = Spent /\ SeenHere' = SeenHere /\ SeenThere' = SeenThere
    BY <2>0 DEF Spent, SeenHere, SeenThere, HeldIn
  <2>3. CopyInv' /\ PlaceInv' /\ AgreedInv' /\ SeenInv' /\ NothingOverwritten'
    <3>1. CopyInv'
      BY <2>0 DEF SyncInv, CopyInv
    <3>2. PlaceInv'
      BY <2>0 DEF SyncInv, PlaceInv
    <3>3. AgreedInv'
      BY <2>0, <2>2 DEF SyncInv, AgreedInv, Agreed
    <3>4. SeenInv'
      BY <2>0, <2>2 DEF SyncInv, SeenInv
    <3>5. NothingOverwritten'
      BY <2>0 DEF SyncInv, NothingOverwritten
    <3> QED
      BY <3>1, <3>2, <3>3, <3>4, <3>5
  <2>4. FitInv'
    BY <2>0 DEF SyncInv, FitInv
  <2>5. PendingInv'
    BY <2>0, <2>2 DEF SyncInv, PendingInv
  <2>6. SyncInv'
    BY <2>1, <2>3, <2>4, <2>5 DEF SyncInv
  <2> QED
    BY <1>9, <2>6
<1> QED
  BY <1>1, <1>2, <1>3, <1>4, <1>5, <1>6, <1>7, <1>8, <1>9, <1>10
  DEF Next, Steps, Disturbed, Walks

(* Whatever is refused, fails or is killed on the way, a content somebody  *)
(* saved and nobody replaced or removed is in the folder, in the account   *)
(* or in its trash (Engine::apply, Expect::Etag, KeepBoth), for any tree   *)
(* of paths and any number of edits and failures.                          *)
THEOREM SyncNothingOverwritten ==
    ASSUME EditsDuringPass = FALSE
    PROVE  Spec => []NothingOverwritten
<1>1. SyncInv /\ WalkInv /\ [Next]_vars => SyncInv' /\ WalkInv'
  BY SyncStays
<1>2. SyncInv => NothingOverwritten
  BY DEF SyncInv
<1> QED
  BY <1>1, <1>2, SyncBegins, WalkBegins, PTL DEF Spec

(* A pass brings no name the folder cannot hold: it is left out of the     *)
(* plan with what is in it, and the copy of a conflict is named after a    *)
(* file the folder holds.                                                  *)
NamesInv ==
    /\ \A p \in WindowsNames : local[p] = None
    /\ phase = "applying" => \A p \in WindowsNames : listed[p] = None

(* The first entry of the plan brings what was listed and what is above.   *)
LEMMA BroughtIsListed ==
    ASSUME SyncInv, NamesInv, phase = "applying", plan # <<>>,
           Action.do \in Conflicts \cup {"CreateLocalDirectory", "Download"},
           NEW w \in WindowsNames
    PROVE  w # Action.path /\ w \notin Above(Action.path)
<1>1. Action.path \in Paths /\ listed[Action.path] # None
  BY PlanHead DEF SyncInv, FitInv
<1>2. \A q \in Above(Action.path) : listed[q] # None
  BY <1>1 DEF SyncInv, FitInv
<1> QED
  BY <1>1, <1>2 DEF NamesInv

(* What a deed of the pass does to such a name in the folder.              *)
LEMMA NamesUntouched ==
    ASSUME SyncInv, NamesInv, Steps \/ Disturbed, NEW w \in WindowsNames
    PROVE  local'[w] = None
<1>t. /\ TypeInv /\ local[w] = None /\ w \in Paths
  BY PathsAssumption DEF SyncInv, NamesInv
<1>l. local \in [Paths -> KnownEntries] /\ None \in KnownEntries /\ Dir \in KnownEntries
      /\ \A p \in Paths : remote[p] \in KnownEntries
  BY <1>t, SixTrees
<1> DEFINE p == Action.path
<1>p. ASSUME phase = "applying", plan # <<>>
      PROVE  p \in Paths
  BY <1>t, <1>p, PlanHead
<1>1. CASE local' = local
  BY <1>t, <1>1
<1>2. CASE CreateLocalDirectory
  <2>1. /\ phase = "applying" /\ plan # <<>> /\ Action.do = "CreateLocalDirectory"
        /\ local' = local \/ local' = With(local, p, Dir)
    BY <1>2 DEF CreateLocalDirectory, Does
  <2>2. w # p /\ w \notin Above(p) /\ p \in Paths
    BY <1>p, <2>1, BroughtIsListed
  <2> QED
    BY <1>t, <1>l, <2>1, <2>2, TreeOps
<1>3. CASE Download \/ RequestFails
  <2>1. CASE local' # local
    <3>1. /\ phase = "applying" /\ plan # <<>> /\ Action.do = "Download"
          /\ \/ local' = With(local, p, remote[p])
             \/ local' = WithParents(local, p)
      BY <1>3, <2>1 DEF Download, RequestFails, Does
    <3>2. w # p /\ w \notin Above(p) /\ p \in Paths
      BY <1>p, <3>1, BroughtIsListed
    <3>3. With(local, p, remote[p])[w] = local[w] /\ WithParents(local, p)[w] = local[w]
      BY <1>t, <1>l, <3>2, TreeOps
    <3> QED
      BY <1>t, <3>1, <3>3
  <2> QED
    BY <1>1, <2>1
<1>4. CASE RemoveLocalDirectory \/ DeleteLocal
  <2>1. /\ phase = "applying" /\ plan # <<>>
        /\ local' = local \/ local' = [local EXCEPT ![p] = None]
    BY <1>4 DEF RemoveLocalDirectory, DeleteLocal, Does
  <2> QED
    BY <1>t, <1>l, <2>1
<1>5. CASE MakeWay
  <2>1. /\ phase = "applying" /\ plan # <<>> /\ Action.do \in {"KeepBoth", "SetAside"}
        /\ local' = local \/ local' = [local EXCEPT ![Action.copy] = local[p], ![p] = None]
    BY <1>5 DEF MakeWay, Does
  <2>2. Action.copy \in Copies
    BY <1>t, <2>1, PlanHead DEF Conflicts
  <2>3. w # Action.copy
    BY <2>2, CopiesAssumption
  <2> QED
    BY <1>t, <1>l, <2>1, <2>3
<1>6. CASE ~(\/ CreateLocalDirectory \/ Download \/ RequestFails \/ RemoveLocalDirectory
             \/ DeleteLocal \/ MakeWay)
  <2>1. local' = local
    BY <1>6 DEF Steps, Disturbed, Scan, Finish, ServerDoes, ServerRefuses, ForgetPath,
       ListFails, AnswerLost, SaveFails, Crash, EndPass, folderVars
  <2> QED
    BY <1>1, <2>1
<1> QED
  BY <1>2, <1>3, <1>4, <1>5, <1>6

(* The names hold after every step.                                        *)
LEMMA NamesStay ==
    ASSUME EditsDuringPass = FALSE, SyncInv, NamesInv, [Next]_vars
    PROVE  NamesInv'
<1>t. TypeInv /\ FitInv /\ PlaceInv
  BY DEF SyncInv
<1>w. WindowsNames \subseteq Paths
  BY PathsAssumption
<1>1. CASE LocalUser
  <2>1. PICK p \in Paths, gone \in SUBSET Contents :
           /\ EditOf(local, local', p, gone)
           /\ local'[p] # None => NameFits(p)
    BY <1>t, <1>1, LocalUserIs
  <2>2. phase' = "idle"
    BY <1>t, <1>1, LocalUserIs DEF passVars
  <2>3. \A w \in WindowsNames : local'[w] = None
    BY <1>w, <2>1 DEF EditOf, NameFits, NamesInv
  <2> QED
    BY <2>2, <2>3 DEF NamesInv
<1>2. CASE RemoteUser \/ UNCHANGED vars
  <2>1. local' = local /\ phase' = phase /\ listed' = listed
    BY <1>t, <1>2, RemoteUserIs DEF passVars, vars
  <2> QED
    BY <2>1 DEF NamesInv
<1>3. CASE Walks
  <2>1. local' = local /\ phase' # "applying"
    BY <1>3 DEF Walks, List, ComesNext, DirectoryGone, EndPass, folderVars
  <2> QED
    BY <2>1 DEF NamesInv
<1>4. CASE MakePlan
  <2>1. local' = local
    BY <1>4 DEF MakePlan, folderVars
  <2>2. \A p \in Paths : listed'[p] = IF p \in unfit(scanned, listed) THEN None ELSE listed[p]
    BY <1>t, <1>4, MakePlanIs
  <2>3. \A w \in WindowsNames : listed[w] # None => w \in unfit(scanned, listed)
    BY <1>w DEF unfit, Refused
  <2> QED
    BY <1>w, <2>1, <2>2, <2>3 DEF NamesInv
<1>5. CASE Steps \/ Disturbed
  <2>1. \A w \in WindowsNames : local'[w] = None
    BY <1>5, NamesUntouched
  <2>2. phase' = "applying" => phase = "applying" /\ listed' = listed
    BY <1>5 DEF Steps, Disturbed, Scan, Finish, ServerDoes, ServerRefuses, CreateLocalDirectory,
       RemoveLocalDirectory, DeleteLocal, ForgetPath, Download, MakeWay, ListFails, RequestFails,
       AnswerLost, SaveFails, Crash, EndPass, Does, Skip
  <2> QED
    BY <2>1, <2>2 DEF NamesInv
<1> QED
  BY <1>1, <1>2, <1>3, <1>4, <1>5 DEF Next

(* No pass makes the folder hold a name it cannot hold or two it cannot    *)
(* tell apart: what it brings was compared with all that was found on both *)
(* sides (fit.rs), and what it takes for a copy is like no other name.     *)
THEOREM SyncNamesFit ==
    ASSUME EditsDuringPass = FALSE
    PROVE  Spec => []NamesFit
<1>1. SyncInv /\ WalkInv /\ [Next]_vars => SyncInv' /\ WalkInv'
  BY SyncStays
<1>2. SyncInv /\ NamesInv /\ [Next]_vars => NamesInv'
  BY NamesStay
<1>3. SyncInv /\ NamesInv => NamesFit
  BY DEF SyncInv, FitInv, Apart, NamesInv, NamesFit
<1>4. Init => NamesInv
  <2> SUFFICES ASSUME Init PROVE NamesInv
    OBVIOUS
  <2>1. local \in Starts /\ phase = "idle"
    BY DEF Init
  <2>2. \A w \in WindowsNames : w \in Paths
    BY PathsAssumption
  <2> QED
    BY <2>1, <2>2, StartsAssumption DEF NamesInv
<1> QED
  BY <1>1, <1>2, <1>3, <1>4, SyncBegins, WalkBegins, PTL DEF Spec

(* As long as every pass recorded what it did, what a user replaced or     *)
(* removed on a side is not brought back to it (SyncState, for_file).      *)
THEOREM SyncDeletionsStay ==
    ASSUME EditsDuringPass = FALSE
    PROVE  Spec => DeletionsStayWhileRecorded
<1>1. SyncInv /\ WalkInv /\ [Next]_vars => SyncInv' /\ WalkInv' /\ [Stays]_vars
  BY SyncStays
<1>2. [Stays]_vars
      => [~forgetful' =>
            /\ bygone["local"] \cap HeldIn(local)' \subseteq HeldIn(local)
            /\ bygone["remote"] \cap HeldIn(remote)' \subseteq HeldIn(remote)]_vars
  BY DEF Stays
<1> QED
  BY <1>1, <1>2, SyncBegins, WalkBegins, PTL DEF Spec, DeletionsStayWhileRecorded
=============================================================================
