---------------------------- MODULE UploadSession ----------------------------
(***************************************************************************)
(* A resumable upload (api/src/uploads.rs, api/src/routes/uploads.rs): the *)
(* row of table uploads, the staged file its chunks land in, the requests  *)
(* that open, fill, finish and drop a session, and the sweep that clears   *)
(* what is left of one.                                                    *)
(*                                                                         *)
(* The row and the file share no transaction, and a chunk takes as long as *)
(* its client likes: what keeps two writers apart is a claim on the row    *)
(* that is renewed while the body drains and lapses when nobody renews it. *)
(* Every await is a step of its own.                                       *)
(*                                                                         *)
(* A file is the positions that hold the byte the client has there and a   *)
(* length; a position below the length that is not among them is a zero    *)
(* left by a seek past the end.  Every client sends the right bytes for    *)
(* its offset.  Quota, path and precondition are left to other modules:    *)
(* here put_file accepts what finish read, or refuses it.                  *)
(***************************************************************************)
EXTENDS Integers, FiniteSets

CONSTANTS
    Sessions,     \* session ids, each used once, all of one account
    Requests,     \* concurrent requests on them
    None,         \* no session, no writer
    Size,         \* units the file was announced with
    MOST_SESSIONS,
    Lifetime,     \* LIFETIME_HOURS
    ClaimTime,    \* CLAIM_MINUTES
    RenewEvery,   \* RENEW_SECONDS
    StagingGrace, \* STAGING_GRACE
    BeginTime,    \* how long begin's transaction takes
    SweepTime,    \* how long a sweep of the staging directory takes
    Faults,       \* what may go wrong: see FaultKinds
    MaxNow        \* bound on the clock

(* "die": the handler is dropped, or its process dies, where it stands;    *)
(* "pause": a writer oversleeps the renewal of its claim.                  *)
FaultKinds == {"die", "pause"}

ASSUME NamesAssumption == None \notin Sessions /\ None \notin Requests
ASSUME SessionsAssumption == IsFiniteSet(Sessions)
ASSUME SizeAssumption == Size \in Nat /\ MOST_SESSIONS \in Nat
ASSUME FaultsAssumption == Faults \subseteq FaultKinds
(* A claim outlives the interval between two renewals, and a file that is  *)
(* about to get its row outlives a sweep that began before it had one.     *)
ASSUME TimeAssumption ==
    /\ Lifetime \in Nat /\ MaxNow \in Nat
    /\ ClaimTime \in Nat /\ RenewEvery \in Nat /\ RenewEvery < ClaimTime
    /\ StagingGrace \in Nat /\ BeginTime \in Nat /\ SweepTime \in Nat
    /\ BeginTime + SweepTime < StagingGrace

VARIABLES
    now,          \* the clock
    fresh,        \* session ids not used yet
    uploads,      \* sessions that have a row
    received,     \* columns of the row
    writer,
    writing_until,
    expires_at,
    linked,       \* sessions whose staged file is in the directory
    length,       \* of that file, which outlives its name in open handles
    good,         \* its positions that hold the client's byte
    mtime,
    overtaken,    \* history: sessions cut back by a request they had moved past
    nodes,        \* what finish handed to put_file: of which session, and what
    owner_lock,   \* the request that holds lock_owner
    pc,           \* where each request is
    session,      \* the session it works on
    cursor,       \* the offset it was told, then where it writes or reads next
    got,          \* right positions finish has read
    since,        \* when begin started, or when the claim was last renewed
    live,         \* the names the running sweep leaves alone, None if none runs
    listed_at     \* when that sweep asked for them

rowVars == <<uploads, received, writer, writing_until, expires_at>>
fileVars == <<linked, length, good, mtime, overtaken>>
reqVars == <<pc, session, cursor, got, since>>
sweepVars == <<live, listed_at>>
vars == <<now, fresh, uploads, received, writer, writing_until, expires_at,
          linked, length, good, mtime, overtaken, nodes, owner_lock, pc, session,
          cursor, got, since, live, listed_at>>

Positions == 0 .. (Size - 1)

(* begin, append, finish, and the two steps that drop a session            *)
RequestStates == {"idle", "counted", "created"}
                 \cup {"looked", "claimed", "writing", "drained"}
                 \cup {"opening", "reading"} \cup {"dropping", "discarding"}
Holding == {"claimed", "writing", "drained"}

TypeOK ==
    /\ now \in Nat
    /\ fresh \subseteq Sessions
    /\ uploads \subseteq Sessions
    /\ received \in [Sessions -> 0 .. Size]
    /\ writer \in [Sessions -> Requests \cup {None}]
    /\ writing_until \in [Sessions -> Nat]
    /\ expires_at \in [Sessions -> Nat]
    /\ linked \subseteq Sessions
    /\ length \in [Sessions -> 0 .. Size]
    /\ good \in [Sessions -> SUBSET Positions]
    /\ mtime \in [Sessions -> Nat]
    /\ overtaken \subseteq Sessions
    /\ nodes \subseteq [session : Sessions, size : 0 .. Size, good : SUBSET Positions]
    /\ owner_lock \in Requests \cup {None}
    /\ pc \in [Requests -> RequestStates]
    /\ session \in [Requests -> Sessions \cup {None}]
    /\ \A r \in Requests : session[r] = None => pc[r] \in {"idle", "counted"}
    /\ cursor \in [Requests -> 0 .. Size]
    /\ got \in [Requests -> SUBSET Positions]
    /\ since \in [Requests -> Nat]
    /\ live \in (SUBSET Sessions) \cup {{None}}
    /\ listed_at \in Nat

-----------------------------------------------------------------------------
(* is_recent: a stamp younger than the grace, or in the future.            *)
IsRecent(stamp, grace) == now - stamp < grace

(* What `of` answers anything but 404 for.                                 *)
Open(s) == s \in uploads /\ expires_at[s] > now

(* The row still names this request as its writer.                         *)
Holds(r) == session[r] \in uploads /\ writer[session[r]] = r

Finish(r) ==
    /\ pc' = [pc EXCEPT ![r] = "idle"]
    /\ session' = [session EXCEPT ![r] = None]
    /\ cursor' = [cursor EXCEPT ![r] = 0]
    /\ got' = [got EXCEPT ![r] = {}]
    /\ since' = [since EXCEPT ![r] = 0]

(* A request that only moves on.                                           *)
Goto(r, state) ==
    /\ pc' = [pc EXCEPT ![r] = state]
    /\ UNCHANGED <<session, cursor, got, since>>

(* The claim goes, if it is still this request's.                          *)
ReleaseClaim(r) ==
    IF Holds(r)
    THEN /\ writer' = [writer EXCEPT ![session[r]] = None]
         /\ writing_until' = [writing_until EXCEPT ![session[r]] = 0]
    ELSE UNCHANGED <<writer, writing_until>>

(* DELETE FROM uploads: the rows of S go with all their columns.           *)
DeleteRows(S) ==
    /\ uploads' = uploads \ S
    /\ received' = [s \in Sessions |-> IF s \in S THEN 0 ELSE received[s]]
    /\ writer' = [s \in Sessions |-> IF s \in S THEN None ELSE writer[s]]
    /\ writing_until' = [s \in Sessions |-> IF s \in S THEN 0 ELSE writing_until[s]]
    /\ expires_at' = [s \in Sessions |-> IF s \in S THEN 0 ELSE expires_at[s]]

Init ==
    /\ now = 0
    /\ fresh = Sessions
    /\ uploads = {}
    /\ received = [s \in Sessions |-> 0]
    /\ writer = [s \in Sessions |-> None]
    /\ writing_until = [s \in Sessions |-> 0]
    /\ expires_at = [s \in Sessions |-> 0]
    /\ linked = {}
    /\ length = [s \in Sessions |-> 0]
    /\ good = [s \in Sessions |-> {}]
    /\ mtime = [s \in Sessions |-> 0]
    /\ overtaken = {}
    /\ nodes = {}
    /\ owner_lock = None
    /\ pc = [r \in Requests |-> "idle"]
    /\ session = [r \in Requests |-> None]
    /\ cursor = [r \in Requests |-> 0]
    /\ got = [r \in Requests |-> {}]
    /\ since = [r \in Requests |-> 0]
    /\ live = {None}
    /\ listed_at = 0

-----------------------------------------------------------------------------
(* begin *)

(* Mutant of Count: the sessions are counted before the owner is locked.   *)
CountUnlocked(r) ==
    /\ pc[r] = "idle"
    /\ Cardinality({s \in Sessions : Open(s)}) < MOST_SESSIONS
    /\ pc' = [pc EXCEPT ![r] = "counted"]
    /\ since' = [since EXCEPT ![r] = now]
    /\ UNCHANGED <<now, fresh, rowVars, fileVars, nodes, owner_lock, session, cursor, got, sweepVars>>

(* The count and the insert are under the owner's lock; a session over the *)
(* ceiling is refused and the lock goes with the transaction.              *)
Count(r) ==
    /\ pc[r] = "idle"
    /\ owner_lock = None
    /\ Cardinality({s \in Sessions : Open(s)}) < MOST_SESSIONS
    /\ owner_lock' = r
    /\ pc' = [pc EXCEPT ![r] = "counted"]
    /\ since' = [since EXCEPT ![r] = now]
    /\ UNCHANGED <<now, fresh, rowVars, fileVars, nodes, session, cursor,
                   got, sweepVars>>

(* The file comes first, under a name nobody else has.                     *)
CreateFile(r, s) ==
    /\ pc[r] = "counted"
    /\ s \in fresh
    /\ fresh' = fresh \ {s}
    /\ linked' = linked \cup {s}
    /\ mtime' = [mtime EXCEPT ![s] = now]
    /\ pc' = [pc EXCEPT ![r] = "created"]
    /\ session' = [session EXCEPT ![r] = s]
    /\ UNCHANGED <<now, rowVars, length, good, overtaken, nodes, owner_lock, cursor, got, since, sweepVars>>

(* now() is when the transaction began.                                    *)
InsertRow(r) ==
    /\ pc[r] = "created"
    /\ uploads' = uploads \cup {session[r]}
    /\ expires_at' = [expires_at EXCEPT ![session[r]] = since[r] + Lifetime]
    /\ owner_lock' = None
    /\ Finish(r)
    /\ UNCHANGED <<now, fresh, received, writer, writing_until, fileVars, nodes,
                   sweepVars>>

-----------------------------------------------------------------------------
(* append *)

(* The session is read and the client's offset agrees with it.             *)
Look(r, s) ==
    /\ pc[r] = "idle"
    /\ Open(s)
    /\ pc' = [pc EXCEPT ![r] = "looked"]
    /\ session' = [session EXCEPT ![r] = s]
    /\ cursor' = [cursor EXCEPT ![r] = received[s]]
    /\ UNCHANGED <<now, fresh, rowVars, fileVars, nodes, owner_lock, got, since,
                   sweepVars>>

(* Mutant of Claimable: a claim lapses the moment it should still hold.    *)
ClaimableEarly(s) ==
    s \in uploads /\ (writer[s] = None \/ writing_until[s] <= now + RenewEvery)

(* Nobody holds the session, or the one who does let the claim lapse.      *)
Claimable(s) == s \in uploads /\ (writer[s] = None \/ writing_until[s] < now)

(* claim: one UPDATE that either takes the session or refuses.             *)
Claim(r) ==
    /\ pc[r] = "looked"
    /\ Claimable(session[r])
    /\ writer' = [writer EXCEPT ![session[r]] = r]
    /\ writing_until' = [writing_until EXCEPT ![session[r]] = now + ClaimTime]
    /\ pc' = [pc EXCEPT ![r] = "claimed"]
    /\ since' = [since EXCEPT ![r] = now]
    /\ UNCHANGED <<now, fresh, uploads, received, expires_at, fileVars, nodes,
                   owner_lock, session, cursor, got, sweepVars>>

ClaimRefused(r) ==
    /\ pc[r] = "looked"
    /\ ~Claimable(session[r])
    /\ Finish(r)
    /\ UNCHANGED <<now, fresh, rowVars, fileVars, nodes, owner_lock, sweepVars>>

(* The row is still what this request was told: its own, at that offset.   *)
Current(r) == Holds(r) /\ cursor[r] = received[session[r]]

(* write_at opens the file and cuts it back to the offset, whatever became *)
(* of the session since it was read and claimed.                           *)
CutBack(r) ==
    /\ pc[r] = "claimed"
    /\ session[r] \in linked
    /\ length' = [length EXCEPT ![session[r]] = cursor[r]]
    /\ good' = [good EXCEPT ![session[r]] = {p \in @ : p < cursor[r]}]
    /\ mtime' = [mtime EXCEPT ![session[r]] = now]
    /\ pc' = [pc EXCEPT ![r] = "writing"]
    /\ overtaken' = IF Current(r) THEN overtaken ELSE overtaken \cup {session[r]}
    /\ UNCHANGED <<now, fresh, rowVars, linked, nodes, owner_lock, session,
                   cursor, got, since, sweepVars>>

(* The file is gone, or the body broke off: the claim is released.         *)
AppendFails(r) ==
    /\ \/ pc[r] = "claimed" /\ session[r] \notin linked
       \/ pc[r] = "writing"
    /\ ReleaseClaim(r)
    /\ Finish(r)
    /\ UNCHANGED <<now, fresh, uploads, received, expires_at, fileVars, nodes,
                   owner_lock, sweepVars>>

(* Mutant of Write: the limit is off by one.                               *)
WritePastTheLimit(r) ==
    /\ pc[r] = "writing"
    /\ cursor[r] <= Size
    /\ good' = [good EXCEPT ![session[r]] = @ \cup {cursor[r]}]
    /\ length' = [length EXCEPT ![session[r]] =
                     IF @ <= cursor[r] THEN cursor[r] + 1 ELSE @]
    /\ mtime' = [mtime EXCEPT ![session[r]] = now]
    /\ cursor' = [cursor EXCEPT ![r] = @ + 1]
    /\ UNCHANGED <<now, fresh, rowVars, linked, overtaken, nodes, owner_lock, pc,
                   session, got, since, sweepVars>>

(* One more unit at this writer's own position in the file.                *)
Write(r) ==
    /\ pc[r] = "writing"
    /\ cursor[r] < Size
    /\ good' = [good EXCEPT ![session[r]] = @ \cup {cursor[r]}]
    /\ length' = [length EXCEPT ![session[r]] =
                     IF @ <= cursor[r] THEN cursor[r] + 1 ELSE @]
    /\ mtime' = [mtime EXCEPT ![session[r]] = now]
    /\ cursor' = [cursor EXCEPT ![r] = @ + 1]
    /\ UNCHANGED <<now, fresh, rowVars, linked, overtaken, nodes, owner_lock, pc,
                   session, got, since, sweepVars>>

(* A chunk of the body reaches past what was announced, wherever the write *)
(* is.  refuse_overflow deletes the row if it is still this writer's, and  *)
(* then the file.                                                          *)
Overflow(r) ==
    /\ pc[r] = "writing"
    /\ IF Holds(r)
       THEN DeleteRows({session[r]}) /\ Goto(r, "discarding")
       ELSE Finish(r) /\ UNCHANGED rowVars
    /\ UNCHANGED <<now, fresh, fileVars, nodes, owner_lock, sweepVars>>

Drain(r) ==
    /\ pc[r] = "writing"
    /\ Goto(r, "drained")
    /\ UNCHANGED <<now, fresh, rowVars, fileVars, nodes, owner_lock, sweepVars>>

(* Mutant of Record: the offset advances whoever holds the session.        *)
RecordUnclaimed(r) ==
    /\ pc[r] = "drained"
    /\ received' = IF session[r] \in uploads
                   THEN [received EXCEPT ![session[r]] = cursor[r]] ELSE received
    /\ ReleaseClaim(r)
    /\ Finish(r)
    /\ UNCHANGED <<now, fresh, uploads, expires_at, fileVars, nodes, owner_lock,
                   sweepVars>>

(* The offset advances to what this request wrote and the claim goes, both *)
(* only if the session is still its own.                                   *)
Record(r) ==
    /\ pc[r] = "drained"
    /\ received' = IF Holds(r) THEN [received EXCEPT ![session[r]] = cursor[r]]
                               ELSE received
    /\ ReleaseClaim(r)
    /\ Finish(r)
    /\ UNCHANGED <<now, fresh, uploads, expires_at, fileVars, nodes, owner_lock,
                   sweepVars>>

(* renew, in the same select as the write: a claim that is not this        *)
(* request's any more ends it.                                             *)
Renew(r) ==
    /\ pc[r] \in {"claimed", "writing"}
    /\ now >= since[r] + RenewEvery
    /\ IF Holds(r)
       THEN /\ writing_until' = [writing_until EXCEPT ![session[r]] = now + ClaimTime]
            /\ since' = [since EXCEPT ![r] = now]
            /\ UNCHANGED <<pc, session, cursor, got>>
       ELSE Finish(r) /\ UNCHANGED writing_until
    /\ UNCHANGED <<now, fresh, uploads, received, writer, expires_at, fileVars,
                   nodes, owner_lock, sweepVars>>

-----------------------------------------------------------------------------
(* finish and abandon *)

(* Mutant of FinishLook: the offset is not compared with the size.         *)
FinishAnytime(r, s) ==
    /\ pc[r] = "idle"
    /\ Open(s)
    /\ pc' = [pc EXCEPT ![r] = "opening"]
    /\ session' = [session EXCEPT ![r] = s]
    /\ UNCHANGED <<now, fresh, rowVars, fileVars, nodes, owner_lock, cursor,
                   got, since, sweepVars>>

(* finish wants a session that has received everything.                    *)
FinishLook(r, s) ==
    /\ pc[r] = "idle"
    /\ Open(s)
    /\ received[s] = Size
    /\ pc' = [pc EXCEPT ![r] = "opening"]
    /\ session' = [session EXCEPT ![r] = s]
    /\ UNCHANGED <<now, fresh, rowVars, fileVars, nodes, owner_lock, cursor,
                   got, since, sweepVars>>

OpenStaged(r) ==
    /\ pc[r] = "opening"
    /\ IF session[r] \in linked THEN Goto(r, "reading") ELSE Finish(r)
    /\ UNCHANGED <<now, fresh, rowVars, fileVars, nodes, owner_lock, sweepVars>>

(* The open file is read into the blob store, up to wherever it ends.      *)
Read(r) ==
    /\ pc[r] = "reading"
    /\ cursor[r] < length[session[r]]
    /\ got' = [got EXCEPT ![r] = @ \cup (good[session[r]] \cap {cursor[r]})]
    /\ cursor' = [cursor EXCEPT ![r] = @ + 1]
    /\ UNCHANGED <<now, fresh, rowVars, fileVars, nodes, owner_lock, pc, session,
                   since, sweepVars>>

(* The end of the file: put_file commits a node with the size and the      *)
(* content that were read.                                                 *)
PutFile(r) ==
    /\ pc[r] = "reading"
    /\ cursor[r] >= length[session[r]]
    /\ nodes' = nodes \cup {[session |-> session[r], size |-> cursor[r], good |-> got[r]]}
    /\ Goto(r, "dropping")
    /\ UNCHANGED <<now, fresh, rowVars, fileVars, owner_lock, sweepVars>>

(* Quota, precondition or path refuse it: the session stays as it was.     *)
PutRefused(r) ==
    /\ pc[r] = "reading"
    /\ cursor[r] >= length[session[r]]
    /\ Finish(r)
    /\ UNCHANGED <<now, fresh, rowVars, fileVars, nodes, owner_lock, sweepVars>>

AbandonLook(r, s) ==
    /\ pc[r] = "idle"
    /\ Open(s)
    /\ pc' = [pc EXCEPT ![r] = "dropping"]
    /\ session' = [session EXCEPT ![r] = s]
    /\ UNCHANGED <<now, fresh, rowVars, fileVars, nodes, owner_lock, cursor,
                   got, since, sweepVars>>

DropSession(r) ==
    /\ pc[r] = "dropping"
    /\ DeleteRows({session[r]})
    /\ Goto(r, "discarding")
    /\ UNCHANGED <<now, fresh, fileVars, nodes, owner_lock, sweepVars>>

Discard(r) ==
    /\ pc[r] = "discarding"
    /\ linked' = linked \ {session[r]}
    /\ Finish(r)
    /\ UNCHANGED <<now, fresh, rowVars, length, good, mtime, overtaken, nodes,
                   owner_lock, sweepVars>>

(* The handler is dropped: no claim is released, an open transaction rolls *)
(* back.                                                                   *)
Die(r) ==
    /\ "die" \in Faults
    /\ pc[r] # "idle"
    /\ owner_lock' = IF owner_lock = r THEN None ELSE owner_lock
    /\ Finish(r)
    /\ UNCHANGED <<now, fresh, rowVars, fileVars, nodes, sweepVars>>

-----------------------------------------------------------------------------
(* sweep_uploads *)

PurgeExpired ==
    /\ \E s \in uploads : expires_at[s] <= now
    /\ DeleteRows({s \in uploads : expires_at[s] <= now})
    /\ UNCHANGED <<now, fresh, fileVars, nodes, owner_lock, reqVars, sweepVars>>

ListLive ==
    /\ live = {None}
    /\ live' = uploads
    /\ listed_at' = now
    /\ UNCHANGED <<now, fresh, rowVars, fileVars, nodes, owner_lock, reqVars>>

(* Mutants of Leftover: the age is not looked at; the names on the list    *)
(* are what goes.                                                          *)
LeftoverAtAnyAge(s) == live # {None} /\ s \in linked /\ s \notin live
LeftoverInverted(s) ==
    /\ live # {None}
    /\ s \in linked /\ s \in live
    /\ ~IsRecent(mtime[s], StagingGrace)

(* A file the list does not name and that nobody has written lately.       *)
Leftover(s) ==
    /\ live # {None}
    /\ s \in linked /\ s \notin live
    /\ ~IsRecent(mtime[s], StagingGrace)

SweepFile(s) ==
    /\ Leftover(s)
    /\ linked' = linked \ {s}
    /\ UNCHANGED <<now, fresh, rowVars, length, good, mtime, overtaken, nodes,
                   owner_lock, reqVars, sweepVars>>

EndSweep ==
    /\ live # {None}
    /\ live' = {None}
    /\ listed_at' = 0
    /\ UNCHANGED <<now, fresh, rowVars, fileVars, nodes, owner_lock, reqVars>>

-----------------------------------------------------------------------------
(* Whether a request may be left waiting for one more unit of time: begin  *)
(* and a sweep take no longer than their bounds, and a renewal is due when *)
(* it is due unless the writer oversleeps it.                              *)
MayWait(r) ==
    /\ pc[r] \in {"counted", "created"} => now < since[r] + BeginTime
    /\ pc[r] \in Holding /\ "pause" \notin Faults => now < since[r] + RenewEvery

Tick ==
    /\ now < MaxNow
    /\ \A r \in Requests : MayWait(r)
    /\ live # {None} => now < listed_at + SweepTime
    /\ now' = now + 1
    /\ UNCHANGED <<fresh, rowVars, fileVars, nodes, owner_lock, reqVars, sweepVars>>

BeginStep(r) == Count(r) \/ (\E s \in Sessions : CreateFile(r, s)) \/ InsertRow(r)

AppendStep(r) ==
    \/ \E s \in Sessions : Look(r, s)
    \/ Claim(r) \/ ClaimRefused(r) \/ CutBack(r) \/ AppendFails(r)
    \/ Write(r) \/ Overflow(r) \/ Drain(r) \/ Record(r) \/ Renew(r)

FinishStep(r) ==
    \/ \E s \in Sessions : FinishLook(r, s) \/ AbandonLook(r, s)
    \/ OpenStaged(r) \/ Read(r) \/ PutFile(r) \/ PutRefused(r)
    \/ DropSession(r) \/ Discard(r)

SweepStep ==
    \/ PurgeExpired \/ ListLive \/ EndSweep
    \/ \E s \in Sessions : SweepFile(s)

Next ==
    \/ \E r \in Requests :
          BeginStep(r) \/ AppendStep(r) \/ FinishStep(r) \/ Die(r)
    \/ SweepStep
    \/ Tick

Spec == Init /\ [][Next]_vars

(* The sweep runs on a timer for as long as the process lives.  It visits  *)
(* every file of the directory, so a leftover it finds again and again is  *)
(* removed in the end.                                                     *)
SweepFairness ==
    /\ WF_vars(PurgeExpired) /\ WF_vars(ListLive) /\ WF_vars(EndSweep)
    /\ \A s \in Sessions : SF_vars(SweepFile(s))

FairSpec == Spec /\ SweepFairness

-----------------------------------------------------------------------------
(* Properties *)

(* What the session says it received is in its file: no hole, no lost tail *)
(* below the offset a client is told to come back to, whoever died or      *)
(* overslept its claim in the middle of a chunk.  A session that was cut   *)
(* back by a request it had moved past is beyond this (see CutBack).       *)
ReceivedIsThere ==
    \A s \in uploads \ overtaken :
        /\ received[s] <= length[s]
        /\ \A p \in Positions : p < received[s] => p \in good[s]

(* A node that finish created has the whole file and nothing but it, unless *)
(* its session was cut back by a request it had moved past: two requests   *)
(* on one session, the later of which wrote first (append, finish).        *)
FinishedIsWhole ==
    \A n \in nodes : n.session \notin overtaken => n.size = Size /\ n.good = Positions

(* The claim keeps two writes on one session apart: there are two only     *)
(* after one of them let its claim lapse, so renewals protect a writer for *)
(* as long as its client takes, and a dead one's claim does not last.      *)
WritersApart ==
    \A r, q \in Requests :
        /\ pc[r] \in Holding /\ pc[q] \in Holding
        /\ session[r] = session[q] /\ r # q
        => now > since[r] + ClaimTime \/ now > since[q] + ClaimTime

(* A session that can still be resumed has its file: neither the staging   *)
(* sweep nor another request takes it first.                               *)
OpenSessionHasFile == uploads \subseteq linked

(* One account never holds more open sessions than the ceiling.            *)
SessionCeiling == Cardinality({s \in Sessions : Open(s)}) <= MOST_SESSIONS

(* Scratch space comes back: a staged file that no session names and no    *)
(* request is about to name is removed in the end, whatever died.          *)
Unnamed(s) ==
    /\ s \in linked /\ s \notin uploads
    /\ \A r \in Requests : pc[r] = "idle"
    /\ ~IsRecent(mtime[s], StagingGrace)

ScratchIsReclaimed == \A s \in Sessions : Unnamed(s) ~> s \notin linked
=============================================================================
