------------------------------ MODULE SyncEngine ------------------------------
(***************************************************************************)
(* The sync client (crates/client/src/sync): a folder, the account's tree  *)
(* on the server, and passes that reconcile the two against what the last  *)
(* pass left in .stashden-sync.json.                                       *)
(*                                                                         *)
(* A pass (Engine::sync_once) scans the folder, lists the server directory *)
(* by directory, plans, and carries out the plan one action at a time;     *)
(* users of either side may act in between, an action may fail, its answer *)
(* may be lost, and the client may be killed.  The state file is written   *)
(* once, at the end.                                                       *)
(*                                                                         *)
(* Abstracted: a file is its content and an edit is a content nobody saved *)
(* before; an edit changes a file's size or its time, so that the scan's   *)
(* cache by size and time reports what the file holds; ignored names,      *)
(* symbolic links and what a report says are left out.  The copy a         *)
(* conflict makes is named after the second it is planned in: passes are   *)
(* more than a second apart, and a copy takes a name not taken before.     *)
(***************************************************************************)
EXTENDS Integers, Sequences, FiniteSets, SequencesExt

CONSTANTS
    PathCount,    \* paths are numbered from 1, in the order of BTreeMap
    Parent,       \* the folder a path is in, 0 for the synced folder itself
    Folders,      \* paths a user makes a folder at
    Files,        \* paths a user saves a file at
    CopiesOf,     \* the names a conflict on a path may give to the local copy
    Folded,       \* a path under the folder's idea of equal names
    WindowsNames, \* paths whose name the folder cannot hold; none but on Windows
    Shelf,        \* "Shared with me"
    Mounts,       \* what is shared with this account
    ReadOnly,     \* the mounts it may only read
    Starts,       \* what the two sides agree on to begin with
    None,         \* no entry
    Dir,          \* Entry::Directory
    MaxEdits,     \* bound on what users do
    MaxTrouble,   \* bound on failures, lost answers and crashes
    EditsDuringPass \* whether the user of the folder acts while a pass runs

Paths == 1 .. PathCount
Ordered == [p \in Paths |-> p]
Contents == -PathCount .. MaxEdits  \* edits are numbered from 1; the rest was there before
Entries == Contents \cup {None, Dir}
Nothing == [p \in Paths |-> None]

(* The directories above a path. *)
Ancestry[p \in Paths] ==
    IF Parent[p] = 0 THEN {} ELSE {Parent[p]} \cup Ancestry[Parent[p]]
Above(p) == Ancestry[p]
Copies == UNION {Range(CopiesOf[p]) : p \in Paths}

ASSUME PathsAssumption ==
    /\ PathCount \in Nat
    /\ Parent \in [Paths -> 0 .. PathCount] /\ \A p \in Paths : Parent[p] < p
    /\ Folders \cup Files \cup Mounts \subseteq Paths
    /\ ReadOnly \subseteq Mounts
    /\ CopiesOf \in [Paths -> Seq(Paths)]
    /\ Folded \in [Paths -> Paths] /\ WindowsNames \subseteq Paths
    /\ Starts \subseteq [Paths -> (-PathCount .. 0) \cup {None, Dir}]
ASSUME BoundsAssumption ==
    /\ MaxEdits \in Nat /\ MaxTrouble \in Nat /\ EditsDuringPass \in BOOLEAN
    /\ None \notin Contents /\ Dir \notin Contents /\ None # Dir
(* Held::from_mounts puts every mount on the shelf, which is at the top.   *)
ASSUME SharesAssumption ==
    \A m \in Mounts : Parent[m] = Shelf /\ Shelf # 0 /\ Parent[Shelf] = 0
(* What is there to begin with is a tree, of files that differ, under      *)
(* names the folder tells apart.                                           *)
ASSUME StartsAssumption ==
    \A s \in Starts, p \in Paths : s[p] # None =>
        /\ \A q \in Above(p) : s[q] = Dir
        /\ s[p] # Dir => \A q \in Paths \ {p} : s[q] # s[p]
        /\ \A q \in Paths \ {p} : Folded[q] = Folded[p] => s[q] = None
        /\ p \notin WindowsNames
(* The name of a copy, which the time of the conflict is part of, is one   *)
(* beside the file's own and like no other; nobody else makes it.          *)
ASSUME CopiesAssumption ==
    /\ \A p \in Paths, c \in Copies : c \in Range(CopiesOf[p]) =>
          Parent[c] = Parent[p] /\ \A q \in Paths \ {p} : c \notin Range(CopiesOf[q])
    /\ \A c \in Copies :
          /\ c \notin Folders \cup Files \cup WindowsNames
          /\ \A q \in Paths : Parent[q] # c
          /\ \A q \in Paths \ {c} : Folded[q] # Folded[c]
          /\ \A s \in Starts : s[c] = None

VARIABLES
    local,     \* the folder
    remote,    \* the account's tree
    trash,     \* contents the server moved to the trash for this client
    tracked,   \* SyncState in memory: the entry each path was last agreed to have
    saved,     \* SyncState on disk
    phase,     \* where the pass is
    scanned,   \* what it found in the folder
    ahead,     \* directories of the server it has yet to list; 0 is the top
    listed,    \* what it found on the server
    plan,      \* what it has left to do
    stamped,   \* conflict copies' names that were taken
    edits,
    trouble,
    written,   \* contents users saved
    bygone,    \* contents a user of the side replaced or removed there
    forgetful  \* whether what was done and what is recorded came apart

folderVars == <<local, remote, trash>>
stateVars == <<tracked, saved>>
passVars == <<phase, scanned, ahead, listed, plan, stamped>>
userVars == <<edits, written, bygone>>
vars == <<local, remote, trash, tracked, saved, phase, scanned, ahead, listed, plan,
          stamped, edits, trouble, written, bygone, forgetful>>
-----------------------------------------------------------------------------
IsFile(entry) == entry \in Contents
Inside(p, directory) == directory \in Above(p)
Below(p) == {q \in Paths : q = p \/ Inside(q, p)}
HeldIn(tree) == {tree[p] : p \in Paths} \cap Contents

(* What is at p and inside it is gone. *)
Without(tree, p) == [q \in Paths |-> IF q \in Below(p) THEN None ELSE tree[q]]

(* Every directory above p is there, which takes that none is a file. *)
WithParents(tree, p) == [q \in Paths |-> IF q \in Above(p) THEN Dir ELSE tree[q]]
ParentsFit(tree, p) == \A q \in Above(p) : ~IsFile(tree[q])
With(tree, p, entry) == [WithParents(tree, p) EXCEPT ![p] = entry]
-----------------------------------------------------------------------------
(* Names of the server's that Windows cannot hold, or that have one in     *)
(* them, and names the folder cannot hold beside another.                  *)
Refused(r) == {p \in Paths : r[p] # None /\ \E q \in WindowsNames : q = p \/ Inside(p, q)}
Clashing(l, r) ==
    {p \in Paths : \E q \in Paths \ {p} :
        /\ Folded[p] = Folded[q]
        /\ l[p] # None \/ r[p] # None
        /\ l[q] # None \/ r[q] # None}
(* Mutant: only the folder's own names are compared. *)
unfitHere(l, r) == Clashing(l, l)
(* These, and what is inside them.                                         *)
unfit(l, r) ==
    LET folders == Refused(r) \cup Clashing(l, r) IN
    folders \cup {p \in Paths : /\ l[p] # None \/ r[p] # None
                                /\ \E f \in folders : Inside(p, f)}
Retain(tree, dropped) == [p \in Paths |-> IF p \in dropped THEN None ELSE tree[p]]

holds_only_what_was_synced(r, base, directory) ==
    \A p \in Paths : Inside(p, directory) /\ r[p] # None => base[p] = r[p]

(* Mutant: a name that is not parsed again. *)
conflict_copyUnparsed(p) == PathCount + p
(* The first of the path's copies that is free stands for the name with    *)
(* the time in it; None when no name can be made (conflict_copy's None).   *)
conflict_copy(p) ==
    LET i == SelectInSeq(CopiesOf[p], LAMBDA c : c \notin stamped) IN
    IF i = 0 THEN None ELSE CopiesOf[p][i]

(* Mutants: a file that is gone from the server is always new; a conflict  *)
(* waits for an answer.                                                    *)
for_fileAlwaysNew(p, l, r, b) ==
    CASE l = r    -> "nothing"
      [] r = None -> "Upload"
      [] l = None -> IF b = r THEN "DeleteRemote" ELSE "Download"
      [] OTHER    -> IF b = l THEN "Download" ELSE IF b = r THEN "Upload" ELSE "KeepBoth"
for_fileWaits(p, l, r, b) ==
    CASE l = r    -> "nothing"
      [] r = None -> IF b = l THEN "DeleteLocal" ELSE "Upload"
      [] l = None -> IF b = r THEN "DeleteRemote" ELSE "Download"
      [] OTHER    -> IF b = l THEN "Download" ELSE IF b = r THEN "Upload" ELSE "nothing"
for_file(p, l, r, b) ==
    CASE l = r    -> "nothing"
      [] r = None -> IF b = l THEN "DeleteLocal" ELSE "Upload"
      [] l = None -> IF b = r THEN "DeleteRemote" ELSE "Download"
      [] OTHER    -> CASE b = l -> "Download"
                       [] b = r -> "Upload"
                       [] OTHER -> IF conflict_copy(p) = None
                                   THEN "nothing" ELSE "KeepBoth"

(* What reconcile does about one path. *)
Verdict(p, l, r, base) ==
    LET b == base[p] IN
    CASE l[p] = None /\ r[p] = None -> IF b = None THEN "nothing" ELSE "Forget"
      [] l[p] = Dir /\ r[p] = Dir   -> "nothing"
      [] l[p] = None /\ r[p] = Dir  ->
            IF b = None THEN "CreateLocalDirectory"
            ELSE IF holds_only_what_was_synced(r, base, p)
                 THEN "RemoveRemoteDirectory" ELSE "nothing"
      [] l[p] = Dir /\ r[p] = None  ->
            IF b = None THEN "CreateRemoteDirectory" ELSE "RemoveLocalDirectory"
      [] (l[p] = Dir /\ IsFile(r[p])) \/ (IsFile(l[p]) /\ r[p] = Dir) -> "blocked"
      [] OTHER                      -> for_file(p, l[p], r[p], b)

(* What a loop that pushes the members of S leaves of a sequence.          *)
Kept(s, S) ==
    LET kept[n \in 0 .. Len(s)] ==
            IF n = 0 THEN <<>>
            ELSE IF s[n] \in S THEN Append(kept[n - 1], s[n]) ELSE kept[n - 1]
    IN  kept[Len(s)]

reconcile(l, r, base) ==
    LET Planned(verdicts) ==
            LET chosen == Kept(Ordered, {p \in Paths : Verdict(p, l, r, base) \in verdicts})
            IN  [i \in DOMAIN chosen |->
                    [do |-> Verdict(chosen[i], l, r, base), path |-> chosen[i],
                     copy |-> conflict_copy(chosen[i])]]
    IN  Planned({"CreateLocalDirectory", "CreateRemoteDirectory"})
        \o Planned({"Download", "Upload", "KeepBoth"})
        \o Planned({"DeleteLocal", "DeleteRemote"})
        \o Reverse(Planned({"RemoveRemoteDirectory"}))
        \o Reverse(Planned({"RemoveLocalDirectory"}))
        \o Planned({"Forget"})
-----------------------------------------------------------------------------
(* What is held back because it would write where the account may not.     *)
WithinMount(p, mounts) == \E mount \in mounts : p = mount \/ Inside(p, mount)
read_only(p) == WithinMount(p, ReadOnly)
fixed(p) == p = Shelf \/ p \in Mounts
loose_on_the_shelf(p) == p = Shelf \/ (Inside(p, Shelf) /\ ~WithinMount(p, Mounts))
(* Mutant: what a share allows is not asked. *)
refuses_uploadLoose(p) == loose_on_the_shelf(p)
refuses_upload(p) == read_only(p) \/ loose_on_the_shelf(p)

holding(action, uprooted) ==
    CASE action.do \in {"Upload", "CreateRemoteDirectory"} -> refuses_upload(action.path)
      [] action.do \in {"DeleteRemote", "RemoveRemoteDirectory"} ->
            \/ read_only(action.path)
            \/ fixed(action.path)
            \/ \E root \in uprooted : Inside(action.path, root)
      [] OTHER -> FALSE

HeldApply(actions) ==
    LET uprooted == {a.path : a \in {b \in ToSet(actions) :
                        b.do = "RemoveRemoteDirectory" /\ fixed(b.path)}}
        allowed == Kept(actions, {a \in ToSet(actions) : ~holding(a, uprooted)})
    IN  [i \in DOMAIN allowed |->
            IF allowed[i].do = "KeepBoth" /\ refuses_upload(allowed[i].copy)
            THEN [allowed[i] EXCEPT !.do = "SetAside"] ELSE allowed[i]]
-----------------------------------------------------------------------------
(* A pass has run, and both sides and the state file agree. *)
Init ==
    /\ local \in Starts /\ remote = local
    /\ trash = {}
    /\ tracked = local /\ saved = local
    /\ phase = "idle" /\ scanned = Nothing /\ ahead = {} /\ listed = Nothing /\ plan = <<>>
    /\ stamped = {}
    /\ edits = 0 /\ trouble = 0 /\ written = HeldIn(local)
    /\ bygone = [side \in {"local", "remote"} |-> {}]
    /\ forgetful = FALSE

(* --- The users ------------------------------------------------------- *)
MayEdit(side) ==
    /\ edits < MaxEdits
    /\ side = "local" => phase = "idle" \/ EditsDuringPass
InPlace(tree, p) == p \in Folders \cup Files /\ \A q \in Above(p) : tree[q] = Dir
Edited(side, replaced, saves) ==
    /\ edits' = edits + 1
    /\ written' = written \cup saves
    /\ bygone' = [bygone EXCEPT ![side] = @ \cup replaced]
    /\ UNCHANGED <<trash, stateVars, passVars, trouble, forgetful>>

(* The folder can hold the name, beside those it holds. *)
NameFits(p) ==
    /\ p \notin WindowsNames
    /\ \A q \in Paths \ {p} : Folded[q] = Folded[p] => local[q] = None

LocalSave(p) ==
    /\ MayEdit("local") /\ p \in Files /\ InPlace(local, p) /\ NameFits(p) /\ local[p] # Dir
    /\ local' = [local EXCEPT ![p] = edits + 1]
    /\ Edited("local", {local[p]} \cap Contents, {edits + 1})
    /\ UNCHANGED remote
LocalMkdir(p) ==
    /\ MayEdit("local") /\ p \in Folders /\ InPlace(local, p) /\ NameFits(p) /\ local[p] = None
    /\ local' = [local EXCEPT ![p] = Dir]
    /\ Edited("local", {}, {})
    /\ UNCHANGED remote
LocalRemove(p) ==
    /\ MayEdit("local") /\ local[p] # None
    /\ local' = Without(local, p)
    /\ Edited("local", HeldIn(local) \ HeldIn(local'), {})
    /\ UNCHANGED remote
RemoteSave(p) ==
    /\ MayEdit("remote") /\ p \in Files /\ InPlace(remote, p) /\ remote[p] # Dir
    /\ remote' = [remote EXCEPT ![p] = edits + 1]
    /\ Edited("remote", {remote[p]} \cap Contents, {edits + 1})
    /\ UNCHANGED local
RemoteMkdir(p) ==
    /\ MayEdit("remote") /\ p \in Folders /\ InPlace(remote, p) /\ remote[p] = None
    /\ remote' = [remote EXCEPT ![p] = Dir]
    /\ Edited("remote", {}, {})
    /\ UNCHANGED local
RemoteRemove(p) ==
    /\ MayEdit("remote") /\ remote[p] # None /\ ~fixed(p)
    /\ remote' = Without(remote, p)
    /\ Edited("remote", HeldIn(remote) \ HeldIn(remote'), {})
    /\ UNCHANGED local

LocalUser == \E p \in Paths : LocalSave(p) \/ LocalMkdir(p) \/ LocalRemove(p)
RemoteUser == \E p \in Paths : RemoteSave(p) \/ RemoteMkdir(p) \/ RemoteRemove(p)

(* --- A pass ---------------------------------------------------------- *)
Scan ==
    /\ phase = "idle"
    /\ phase' = "listing" /\ scanned' = local
    /\ listed' = Nothing /\ ahead' = {0}
    /\ UNCHANGED <<folderVars, stateVars, plan, stamped, userVars, trouble, forgetful>>

(* walk asks for one directory after the other: the last one it knows of.  *)
ComesNext(d) == phase = "listing" /\ d \in ahead /\ \A e \in ahead : e <= d
List ==
    \E d \in 0 .. PathCount :
        /\ ComesNext(d)
        /\ d # 0 => remote[d] = Dir
        /\ listed' = [p \in Paths |-> IF Parent[p] = d THEN remote[p] ELSE listed[p]]
        /\ ahead' = (ahead \ {d}) \cup {p \in Paths : Parent[p] = d /\ remote[p] = Dir}
        /\ UNCHANGED <<folderVars, stateVars, phase, scanned, plan, stamped, userVars, trouble,
                       forgetful>>

MakePlan ==
    /\ phase = "listing" /\ ahead = {}
    /\ LET dropped == unfit(scanned, listed)
           l == Retain(scanned, dropped)
           r == Retain(listed, dropped)
       IN  /\ listed' = r
           /\ plan' = HeldApply(reconcile(l, r, Retain(tracked, dropped)))
    /\ phase' = "applying"
    /\ UNCHANGED <<folderVars, stateVars, scanned, ahead, stamped, userVars, trouble, forgetful>>

Action == Head(plan)
Does(verdicts) == phase = "applying" /\ plan # <<>> /\ Action.do \in verdicts
OnServer == {"Upload", "SendCopy", "CreateRemoteDirectory", "DeleteRemote", "RemoveRemoteDirectory"}
Record(p, entry) == tracked' = [tracked EXCEPT ![p] = entry]
Forget(p) == Record(p, None)
Skip ==
    /\ plan' = Tail(plan)
    /\ UNCHANGED <<phase, scanned, ahead, listed, stamped, saved, userVars>>

(* Mutant: an upload names no version. *)
AcceptsAnyVersion(a) ==
    CASE a.do = "Upload" -> IsFile(local[a.path]) /\ ParentsFit(remote, a.path)
      [] a.do = "SendCopy" -> IsFile(local[a.copy]) /\ ParentsFit(remote, a.copy)
      [] a.do = "CreateRemoteDirectory" -> remote[a.path] = None /\ ParentsFit(remote, a.path)
      [] OTHER -> remote[a.path] # None
(* The server's side of an action.  An upload, a request or (for a large   *)
(* file) a session of UploadSession, carries Expect::Etag or               *)
(* Expect::Absent; a removal has no precondition and takes all inside.     *)
Accepts(a) ==
    CASE a.do = "Upload" ->
            /\ IsFile(local[a.path]) /\ ParentsFit(remote, a.path)
            /\ remote[a.path] = IF IsFile(listed[a.path]) THEN listed[a.path] ELSE None
      [] a.do = "SendCopy" ->
            IsFile(local[a.copy]) /\ remote[a.copy] = None /\ ParentsFit(remote, a.copy)
      [] a.do = "CreateRemoteDirectory" -> remote[a.path] = None /\ ParentsFit(remote, a.path)
      [] OTHER -> remote[a.path] # None
Served(a) ==
    CASE a.do = "Upload" -> With(remote, a.path, local[a.path])
      [] a.do = "SendCopy" -> With(remote, a.copy, local[a.copy])
      [] a.do = "CreateRemoteDirectory" -> With(remote, a.path, Dir)
      [] OTHER -> Without(remote, a.path)
Recorded(a) ==
    CASE a.do = "Upload" -> With(tracked, a.path, scanned[a.path])
      [] a.do = "SendCopy" -> [tracked EXCEPT ![a.copy] = scanned[a.path], ![a.path] = None]
      [] a.do = "CreateRemoteDirectory" -> [tracked EXCEPT ![a.path] = Dir]
      [] OTHER -> [tracked EXCEPT ![a.path] = None]
(* A copy that is on the server is followed by the download KeepBoth ends with. *)
Continued(a) ==
    IF a.do = "SendCopy" THEN <<[a EXCEPT !.do = "Download"]>> \o Tail(plan) ELSE Tail(plan)

Serve(a) ==
    /\ Accepts(a)
    /\ remote' = Served(a)
    /\ trash' = trash \cup (IF a.do \in {"DeleteRemote", "RemoveRemoteDirectory"}
                           THEN HeldIn(remote) \ HeldIn(remote') ELSE {})
ServerDoes ==
    /\ Does(OnServer) /\ Serve(Action)
    /\ tracked' = Recorded(Action)
    /\ plan' = Continued(Action)
    /\ forgetful' = (forgetful \/ (Action.do = "Upload" /\ local[Action.path] # scanned[Action.path]))
    /\ UNCHANGED <<local, saved, phase, scanned, ahead, listed, stamped, userVars, trouble>>
ServerRefuses ==
    /\ Does(OnServer) /\ ~Accepts(Action)
    /\ Skip
    /\ UNCHANGED <<folderVars, tracked, trouble, forgetful>>

CreateLocalDirectory ==
    /\ Does({"CreateLocalDirectory"}) /\ Skip
    /\ IF ParentsFit(local, Action.path) /\ ~IsFile(local[Action.path])
       THEN local' = With(local, Action.path, Dir) /\ Record(Action.path, Dir)
       ELSE UNCHANGED <<local, tracked>>
    /\ UNCHANGED <<remote, trash, trouble, forgetful>>

(* remove_dir takes an empty directory only. *)
RemoveLocalDirectory ==
    /\ Does({"RemoveLocalDirectory"}) /\ Skip
    /\ IF local[Action.path] = Dir /\ \A q \in Paths : Inside(q, Action.path) => local[q] = None
       THEN local' = [local EXCEPT ![Action.path] = None] /\ Forget(Action.path)
       ELSE UNCHANGED <<local, tracked>>
    /\ UNCHANGED <<remote, trash, trouble, forgetful>>

(* What is not there counts as deleted. *)
DeleteLocal ==
    /\ Does({"DeleteLocal"}) /\ Skip
    /\ IF local[Action.path] # Dir
       THEN local' = [local EXCEPT ![Action.path] = None] /\ Forget(Action.path)
       ELSE UNCHANGED <<local, tracked>>
    /\ UNCHANGED <<remote, trash, trouble, forgetful>>

ForgetPath ==
    /\ Does({"Forget"}) /\ Skip
    /\ Forget(Action.path)
    /\ UNCHANGED <<folderVars, trouble, forgetful>>

(* The bytes the server has now, under the entry that was listed.          *)
Download ==
    /\ Does({"Download"}) /\ Skip
    /\ LET p == Action.path IN
       IF IsFile(remote[p]) /\ local[p] # Dir /\ ParentsFit(local, p)
       THEN /\ local' = With(local, p, remote[p])
            /\ Record(p, listed[p])
            /\ forgetful' = (forgetful \/ remote[p] # listed[p])
       ELSE /\ local' = IF ParentsFit(local, p) THEN WithParents(local, p) ELSE local
            /\ UNCHANGED <<tracked, forgetful>>
    /\ UNCHANGED <<remote, trash, trouble>>

(* The local file makes way; what follows is the upload of the copy and    *)
(* the download, or (SetAside) the download alone.                         *)
MakeWay ==
    /\ Does({"KeepBoth", "SetAside"})
    /\ LET a == Action IN
       IF IsFile(local[a.path])
       THEN /\ local' = [local EXCEPT ![a.copy] = local[a.path], ![a.path] = None]
            /\ stamped' = stamped \cup {a.copy}
            /\ IF a.do = "KeepBoth"
               THEN /\ plan' = <<[a EXCEPT !.do = "SendCopy"]>> \o Tail(plan)
                    /\ UNCHANGED tracked
               ELSE /\ plan' = <<[a EXCEPT !.do = "Download"]>> \o Tail(plan)
                    /\ Forget(a.path)
       ELSE plan' = Tail(plan) /\ UNCHANGED <<local, stamped, tracked>>
    /\ UNCHANGED <<remote, trash, saved, phase, scanned, ahead, listed, userVars, trouble,
                   forgetful>>

EndPass ==
    /\ phase' = "idle" /\ scanned' = Nothing /\ ahead' = {} /\ listed' = Nothing /\ plan' = <<>>
    /\ UNCHANGED <<folderVars, stamped, userVars>>
record_agreed_directories ==
    tracked' = [p \in Paths |-> IF scanned[p] = Dir /\ listed[p] = Dir THEN Dir ELSE tracked[p]]

Finish ==
    /\ phase = "applying" /\ plan = <<>>
    /\ record_agreed_directories
    /\ saved' = tracked'
    /\ EndPass
    /\ UNCHANGED <<trouble, forgetful>>

(* A directory that was listed in the one it is in has gone since: that is *)
(* an error, and the pass ends.                                            *)
DirectoryGone ==
    /\ \E d \in Paths : ComesNext(d) /\ remote[d] # Dir
    /\ EndPass
    /\ UNCHANGED <<stateVars, trouble, forgetful>>

(* --- What goes wrong ------------------------------------------------- *)
Trouble == trouble < MaxTrouble /\ trouble' = trouble + 1

(* The listing fails, and with it the pass. *)
ListFails ==
    /\ phase = "listing" /\ Trouble
    /\ EndPass
    /\ UNCHANGED <<stateVars, forgetful>>
(* A request does not reach the server. *)
RequestFails ==
    /\ Does(OnServer \cup {"Download"}) /\ Trouble
    /\ Skip
    /\ local' = IF Action.do = "Download" /\ ParentsFit(local, Action.path)
                THEN WithParents(local, Action.path) ELSE local
    /\ UNCHANGED <<remote, trash, tracked, forgetful>>
(* A request is carried out and its answer does not come back. *)
AnswerLost ==
    /\ Does(OnServer) /\ Trouble
    /\ Serve(Action)
    /\ Skip
    /\ forgetful' = TRUE
    /\ UNCHANGED <<local, tracked>>
(* SyncState::save fails; what is in memory stays. *)
SaveFails ==
    /\ phase = "applying" /\ plan = <<>> /\ Trouble
    /\ record_agreed_directories
    /\ EndPass
    /\ UNCHANGED <<saved, forgetful>>
(* The client is killed, and opened again on what was saved. *)
Crash ==
    /\ Trouble
    /\ tracked' = saved
    /\ forgetful' = (forgetful \/ tracked # saved)
    /\ EndPass
    /\ UNCHANGED saved

Steps == \/ Scan \/ Finish
         \/ ServerDoes \/ ServerRefuses
         \/ CreateLocalDirectory \/ RemoveLocalDirectory \/ DeleteLocal
         \/ ForgetPath \/ Download \/ MakeWay
Disturbed == ListFails \/ RequestFails \/ AnswerLost \/ SaveFails \/ Crash
Walks == List \/ DirectoryGone
Next == LocalUser \/ RemoteUser \/ Walks \/ MakePlan \/ Steps \/ Disturbed
Spec == Init /\ [][Next]_vars

(* Passes follow one another: watch runs one every minute.  Only MakePlan  *)
(* takes a pass from "listing" to "applying", and it can when the walk is  *)
(* over.                                                                   *)
Plans == phase = "listing" /\ ahead = {} /\ phase' = "applying"
FairSpec == Spec /\ WF_vars(Walks \/ Steps) /\ WF_phase(Plans)
-----------------------------------------------------------------------------
TypeOK ==
    /\ {local, remote, tracked, saved, scanned, listed} \subseteq [Paths -> Entries]
    /\ trash \subseteq Contents /\ written \subseteq Contents
    /\ phase \in {"idle", "listing", "applying"} /\ ahead \subseteq 0 .. PathCount
    /\ \A i \in DOMAIN plan : plan[i].path \in Paths /\ plan[i].copy \in Paths \cup {None}
    /\ stamped \subseteq Paths
    /\ edits \in 0 .. MaxEdits /\ trouble \in 0 .. MaxTrouble
    /\ bygone \in [{"local", "remote"} -> SUBSET Contents]
    /\ forgetful \in BOOLEAN

(* "Nothing is overwritten": a content somebody saved, and nobody replaced *)
(* or removed where they could see it, is in the folder, in the account or *)
(* in the account's trash, whatever pass was killed or refused on the way. *)
NothingOverwritten ==
    written \ (bygone["local"] \cup bygone["remote"])
        \subseteq HeldIn(local) \cup HeldIn(remote) \cup trash

(* What a user replaced or removed on a side, a pass does not bring back   *)
(* to it (the state file "tells a deletion apart from a file that was      *)
(* never there").                                                          *)
DeletionsAreToldApart ==
    [][/\ bygone["local"] \cap HeldIn(local)' \subseteq HeldIn(local)
       /\ bygone["remote"] \cap HeldIn(remote)' \subseteq HeldIn(remote)]_vars

(* The same, as long as every pass recorded what it did.                   *)
DeletionsStayWhileRecorded ==
    [][~forgetful' =>
        /\ bygone["local"] \cap HeldIn(local)' \subseteq HeldIn(local)
        /\ bygone["remote"] \cap HeldIn(remote)' \subseteq HeldIn(remote)]_vars

(* Whatever the folder's user does, a pass neither adds to, changes nor    *)
(* removes what is in a share the account may only read (held.rs).         *)
ReadOnlySharesUntouched ==
    [][RemoteUser \/ \A p \in Paths : read_only(p) => remote'[p] = remote[p]]_vars

(* Removing a share from the folder leaves all the owner has in it: a pass *)
(* that did not find the share removes nothing inside it.                  *)
RemovedSharesKeepTheirFiles ==
    [][\/ RemoteUser
       \/ \A m \in Mounts, p \in Paths :
            /\ phase = "applying" /\ scanned[m] = None
            /\ Inside(p, m) /\ remote[p] # None
            => remote'[p] # None]_vars

(* No pass makes the folder hold a name it cannot hold, or two it cannot   *)
(* tell apart (fit.rs).                                                    *)
NamesFit ==
    /\ \A p \in WindowsNames : local[p] = None
    /\ \A p, q \in Paths :
          p # q /\ Folded[p] = Folded[q] => local[p] = None \/ local[q] = None

(* Once users and failures stop, the folder comes to hold what the account *)
(* holds, but for names left alone and for what is shared with it.         *)
Settled ==
    LET left_alone == unfit(local, remote) IN
    \A p \in Paths :
        \/ local[p] = remote[p]
        \/ p \in left_alone
        \/ (local[p] = Dir /\ IsFile(remote[p])) \/ (IsFile(local[p]) /\ remote[p] = Dir)
        \/ p = Shelf \/ Inside(p, Shelf)
Converges == <>[]Settled
=============================================================================
