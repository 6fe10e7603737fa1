------------------------- MODULE UploadSessionProofs -------------------------
(***************************************************************************)
(* For any number of sessions and requests and any file size: what a       *)
(* session received is in its file and what finish creates is the whole    *)
(* file, whoever dies and whoever oversleeps a claim, for every session    *)
(* that no request cut back after the session had moved past it.           *)
(***************************************************************************)
EXTENDS UploadRefinement, FiniteSetTheorems, TLAPS

-----------------------------------------------------------------------------
(* The inductive invariant.  The two properties are about a row and a      *)
(* file; what carries them from step to step is what every request that    *)
(* still has an open handle may do to that file.                           *)

(* A row that is not there, or not there yet, says nothing, and the file   *)
(* begin is about to give to a session has no other user.                  *)
RowsAreFresh ==
    /\ \A s \in Sessions \ uploads : received[s] = 0 /\ writer[s] = None
    /\ \A s \in fresh : s \notin uploads /\ \A r \in Requests : session[r] # s
    /\ \A r \in Requests : pc[r] = "created" =>
          /\ session[r] \notin uploads
          /\ \A q \in Requests \ {r} : session[q] # session[r]

(* A writer that still holds the session has written what lies between the *)
(* recorded offset and its own position.                                   *)
HolderHasWritten ==
    \A r \in Requests :
        pc[r] \in {"writing", "drained"} /\ Holds(r) /\ session[r] \notin overtaken =>
        /\ received[session[r]] <= cursor[r]
        /\ cursor[r] <= length[session[r]]
        /\ \A p \in Positions : p < cursor[r] => p \in good[session[r]]

(* Once finish has found a session complete its file stays complete, with  *)
(* or without its row, and finish reads it from the start.                 *)
Complete(s) ==
    /\ length[s] = Size /\ good[s] = Positions
    /\ s \in uploads => received[s] = Size

ReadersSeeItAll ==
    /\ \A r \in Requests : pc[r] = "idle" => cursor[r] = 0 /\ got[r] = {}
    /\ \A r \in Requests :
          pc[r] \in {"opening", "reading"} /\ session[r] \notin overtaken =>
          /\ Complete(session[r])
          /\ got[r] = {p \in Positions : p < cursor[r]}

UploadInv ==
    /\ TypeOK
    /\ RowsAreFresh
    /\ HolderHasWritten
    /\ ReceivedIsThere
    /\ ReadersSeeItAll
    /\ FinishedIsWhole
-----------------------------------------------------------------------------
(* Every variable keeps its type, whatever fails.                          *)
LEMMA FinishTypes ==
    ASSUME TypeOK, NEW r \in Requests, Finish(r),
           UNCHANGED <<now, fresh, uploads, received, expires_at, linked, length,
                       good, mtime, overtaken, nodes, owner_lock, live, listed_at>>,
           writer' \in [Sessions -> Requests \cup {None}],
           writing_until' \in [Sessions -> Nat]
    PROVE  TypeOK'
BY SizeAssumption DEF TypeOK, Finish, RequestStates, Positions

(* Every step keeps the types.                                             *)
LEMMA TypeStep == TypeOK /\ [Next]_vars => TypeOK'
<1> SUFFICES ASSUME TypeOK, [Next]_vars PROVE TypeOK'
  OBVIOUS
<1> USE NamesAssumption, SizeAssumption, TimeAssumption
    DEF TypeOK, RequestStates, Positions, rowVars, fileVars, reqVars, sweepVars, vars
<1>1. ASSUME NEW r \in Requests, BeginStep(r) PROVE TypeOK'
  <2>1. CASE Count(r)
    BY <2>1 DEF Count
  <2>2. ASSUME NEW s \in Sessions, CreateFile(r, s) PROVE TypeOK'
    BY <2>2 DEF CreateFile
  <2>3. CASE InsertRow(r)
    BY <2>3 DEF InsertRow, Finish
  <2> QED
    BY <1>1, <2>1, <2>2, <2>3 DEF BeginStep
<1>2. ASSUME NEW r \in Requests, AppendStep(r) PROVE TypeOK'
  <2>1. ASSUME NEW s \in Sessions, Look(r, s) PROVE TypeOK'
    BY <2>1 DEF Look
  <2>2. CASE Claim(r)
    BY <2>2 DEF Claim
  <2>3. CASE ClaimRefused(r)
    BY <2>3 DEF ClaimRefused, Finish
  <2>4. CASE CutBack(r)
    BY <2>4 DEF CutBack
  <2>5. CASE AppendFails(r)
    <3>1. CASE Holds(r)
      <4>1. /\ writer' = [writer EXCEPT ![session[r]] = None]
            /\ writing_until' = [writing_until EXCEPT ![session[r]] = 0]
        BY <2>5, <3>1 DEF AppendFails, ReleaseClaim
      <4>2. /\ writer' \in [Sessions -> Requests \cup {None}]
            /\ writing_until' \in [Sessions -> Nat]
        BY <3>1, <4>1 DEF Holds
      <4> QED
        BY <2>5, <4>2, FinishTypes DEF AppendFails
    <3>2. CASE ~Holds(r)
      BY <2>5, <3>2 DEF AppendFails, ReleaseClaim, Finish
    <3> QED
      BY <3>1, <3>2
  <2>6. CASE Write(r)
    BY <2>6 DEF Write
  <2>7. CASE Overflow(r)
    <3>1. CASE Holds(r)
      <4>1. DeleteRows({session[r]}) /\ Goto(r, "discarding")
        BY <2>7, <3>1 DEF Overflow
      <4>2. pc[r] = "writing" /\ UNCHANGED <<now, fresh, fileVars, nodes, owner_lock, sweepVars>>
        BY <2>7 DEF Overflow
      <4> QED
        BY <4>1, <4>2 DEF DeleteRows, Goto
    <3>2. CASE ~Holds(r)
      BY <2>7, <3>2, FinishTypes DEF Overflow
    <3> QED
      BY <3>1, <3>2
  <2>8. CASE Drain(r)
    BY <2>8 DEF Drain, Goto
  <2>9. CASE Record(r)
    <3>1. CASE Holds(r)
      <4>1. /\ received' = [received EXCEPT ![session[r]] = cursor[r]]
            /\ writer' = [writer EXCEPT ![session[r]] = None]
            /\ writing_until' = [writing_until EXCEPT ![session[r]] = 0]
            /\ UNCHANGED <<now, fresh, uploads, expires_at, fileVars, nodes, owner_lock, sweepVars>>
        BY <2>9, <3>1 DEF Record, ReleaseClaim
      <4>2. /\ received' \in [Sessions -> 0 .. Size]
            /\ writer' \in [Sessions -> Requests \cup {None}]
            /\ writing_until' \in [Sessions -> Nat]
        BY <3>1, <4>1 DEF Holds
      <4>3. Finish(r)
        BY <2>9 DEF Record
      <4> QED
        BY <4>1, <4>2, <4>3 DEF Finish
    <3>2. CASE ~Holds(r)
      BY <2>9, <3>2, FinishTypes DEF Record, ReleaseClaim
    <3> QED
      BY <3>1, <3>2
  <2>10. CASE Renew(r)
    <3>1. CASE Holds(r)
      <4>1. /\ writing_until' = [writing_until EXCEPT ![session[r]] = now + ClaimTime]
            /\ since' = [since EXCEPT ![r] = now]
            /\ UNCHANGED <<now, fresh, uploads, received, writer, expires_at, fileVars,
                           nodes, owner_lock, pc, session, cursor, got, sweepVars>>
        BY <2>10, <3>1 DEF Renew
      <4>2. writing_until' \in [Sessions -> Nat] /\ since' \in [Requests -> Nat]
        <5>1. now \in Nat /\ now + ClaimTime \in Nat
          OBVIOUS
        <5> HIDE DEF TypeOK
        <5>2. writing_until \in [Sessions -> Nat] /\ since \in [Requests -> Nat]
          BY DEF TypeOK
        <5> QED
          BY <4>1, <5>1, <5>2
      <4> QED
        BY <4>1, <4>2
    <3>2. CASE ~Holds(r)
      BY <2>10, <3>2, FinishTypes DEF Renew
    <3> QED
      BY <3>1, <3>2
  <2> QED
    BY <1>2, <2>1, <2>2, <2>3, <2>4, <2>5, <2>6, <2>7, <2>8, <2>9, <2>10 DEF AppendStep
<1>3. ASSUME NEW r \in Requests, FinishStep(r) PROVE TypeOK'
  <2>1. ASSUME NEW s \in Sessions, FinishLook(r, s) \/ AbandonLook(r, s) PROVE TypeOK'
    <3>1. CASE FinishLook(r, s)
      BY <3>1, <2>1 DEF FinishLook
    <3>2. CASE AbandonLook(r, s)
      BY <3>2, <2>1 DEF AbandonLook
    <3> QED
      BY <2>1, <3>1, <3>2
  <2>2. CASE OpenStaged(r)
    <3>1. CASE session[r] \in linked
      BY <2>2, <3>1 DEF OpenStaged, Goto
    <3>2. CASE session[r] \notin linked
      BY <2>2, <3>2, FinishTypes DEF OpenStaged
    <3> QED
      BY <3>1, <3>2
  <2>3. CASE Read(r)
    BY <2>3 DEF Read
  <2>4. CASE PutFile(r)
    BY <2>4 DEF PutFile, Goto
  <2>5. CASE PutRefused(r)
    BY <2>5 DEF PutRefused, Finish
  <2>6. CASE DropSession(r)
    BY <2>6 DEF DropSession, DeleteRows, Goto
  <2>7. CASE Discard(r)
    BY <2>7 DEF Discard, Finish
  <2> QED
    BY <1>3, <2>1, <2>2, <2>3, <2>4, <2>5, <2>6, <2>7 DEF FinishStep
<1>4. ASSUME NEW r \in Requests, Die(r) PROVE TypeOK'
  BY <1>4 DEF Die, Finish
<1>5. CASE SweepStep
  <2>1. CASE PurgeExpired
    BY <2>1 DEF PurgeExpired, DeleteRows
  <2>2. CASE ListLive \/ EndSweep
    BY <2>2 DEF ListLive, EndSweep
  <2>3. ASSUME NEW s \in Sessions, SweepFile(s) PROVE TypeOK'
    BY <2>3 DEF SweepFile
  <2> QED
    BY <1>5, <2>1, <2>2, <2>3 DEF SweepStep
<1>6. CASE Tick
  BY <1>6 DEF Tick
<1>7. CASE UNCHANGED vars
  BY <1>7
<1> QED
  BY <1>1, <1>2, <1>3, <1>4, <1>5, <1>6, <1>7 DEF Next

(* The types hold at first.                                                *)
LEMMA TypeInit == Init => TypeOK
BY SizeAssumption DEF Init, TypeOK, RequestStates, Positions

(* The types of the row, the file and the requests on it.                  *)
THEOREM UploadTypes == Spec => []TypeOK
BY TypeInit, TypeStep, PTL DEF Spec

-----------------------------------------------------------------------------
(* A request that ends without having changed what was recorded, and gives *)
(* up no claim but its own.                                                *)
LEMMA EndingKeeps ==
    ASSUME UploadInv, TypeOK', NEW r \in Requests, Finish(r),
           UNCHANGED <<now, fresh, uploads, received, length, good, overtaken, nodes>>,
           ReleaseClaim(r) \/ UNCHANGED <<writer, writing_until>>
    PROVE  UploadInv'
<1> USE DEF UploadInv
<1>0. TypeOK
  OBVIOUS
<1>1. /\ pc'[r] = "idle" /\ session'[r] = None /\ cursor'[r] = 0 /\ got'[r] = {}
      /\ \A q \in Requests \ {r} :
            /\ pc'[q] = pc[q] /\ session'[q] = session[q]
            /\ cursor'[q] = cursor[q] /\ got'[q] = got[q] /\ since'[q] = since[q]
  BY <1>0 DEF TypeOK, Finish
<1>2. /\ \A s \in Sessions : writer'[s] = writer[s] \/ (writer[s] = r /\ writer'[s] = None)
      /\ \A s \in Sessions : writer[s] # r => writing_until'[s] = writing_until[s]
  BY <1>0 DEF TypeOK, ReleaseClaim, Holds
<1>3. \A q \in Requests \ {r} : pc[q] \notin {"idle", "counted"} => session[q] \in Sessions
  BY <1>0 DEF TypeOK
<1>4. RowsAreFresh'
  <2>1. fresh \subseteq Sessions
    BY <1>0 DEF TypeOK
  <2> QED
    BY <1>1, <1>2, <1>3, <2>1, NamesAssumption DEF RowsAreFresh
<1>7. HolderHasWritten'
  BY <1>1, <1>2, <1>3, NamesAssumption DEF HolderHasWritten, Holds
<1>8. ReceivedIsThere' /\ FinishedIsWhole'
  BY DEF ReceivedIsThere, FinishedIsWhole
<1>9. ReadersSeeItAll'
  BY <1>1 DEF ReadersSeeItAll, Complete
<1> QED
  BY <1>4, <1>7, <1>8, <1>9

(* Rows that are deleted take nothing from the file of an open handle.     *)
LEMMA DeletionKeeps ==
    ASSUME UploadInv, TypeOK', NEW S, DeleteRows(S),
           UNCHANGED <<now, fresh, length, good, overtaken, nodes, session, cursor, got, since>>,
           \A r \in Requests : pc'[r] = pc[r] \/ (pc'[r] = "discarding")
    PROVE  UploadInv'
<1> USE DEF UploadInv
<1>0. TypeOK
  OBVIOUS
<1>1. /\ uploads' \subseteq uploads
      /\ \A s \in uploads' : /\ s \in Sessions /\ received'[s] = received[s]
                             /\ writer'[s] = writer[s]
                             /\ writing_until'[s] = writing_until[s]
  BY <1>0 DEF TypeOK, DeleteRows
<1>a. \A s \in Sessions \ uploads' : received'[s] = 0 /\ writer'[s] = None
  BY DEF DeleteRows, RowsAreFresh
<1>2. RowsAreFresh'
  BY <1>1, <1>a DEF RowsAreFresh
<1>4. HolderHasWritten'
  BY <1>1 DEF HolderHasWritten, Holds
<1>5. ReceivedIsThere' /\ FinishedIsWhole'
  BY <1>1 DEF ReceivedIsThere, FinishedIsWhole
<1>6. ReadersSeeItAll'
  BY <1>1 DEF ReadersSeeItAll, Complete
<1> QED
  BY <1>2, <1>4, <1>5, <1>6

(* begin gives a session a file and a row that nobody else has seen.       *)
LEMMA BeginKeeps ==
    ASSUME UploadInv, TypeOK', NEW r \in Requests, BeginStep(r)
    PROVE  UploadInv'
<1> USE DEF UploadInv, rowVars, fileVars, sweepVars
<1>0. TypeOK
  OBVIOUS
<1>1. CASE Count(r)
  <2> USE <1>1 DEF Count
  <2>1. pc' = [pc EXCEPT ![r] = "counted"] /\ pc[r] = "idle"
    OBVIOUS
  <2> QED
    BY <1>0 DEF TypeOK, RowsAreFresh, 
       HolderHasWritten, Holds, ReceivedIsThere, FinishedIsWhole,
       ReadersSeeItAll, Complete
<1>2. ASSUME NEW s \in Sessions, CreateFile(r, s) PROVE UploadInv'
  <2> USE <1>2 DEF CreateFile
  <2>1. RowsAreFresh'
    BY <1>0 DEF TypeOK, RowsAreFresh
  <2>3. HolderHasWritten'
    BY <1>0 DEF TypeOK, HolderHasWritten, Holds
  <2>4. ReceivedIsThere' /\ FinishedIsWhole'
    BY DEF ReceivedIsThere, FinishedIsWhole
  <2>5. ReadersSeeItAll'
    BY <1>0 DEF TypeOK, ReadersSeeItAll, Complete
  <2> QED
    BY <2>1, <2>3, <2>4, <2>5
<1>3. CASE InsertRow(r)
  <2> USE <1>3 DEF InsertRow
  <2> DEFINE u == session[r]
  <2>1. /\ u \in Sessions /\ u \notin uploads /\ received[u] = 0 /\ writer[u] = None
        /\ \A q \in Requests \ {r} : session[q] # u
    BY <1>0 DEF TypeOK, RowsAreFresh
  <2>2. /\ pc'[r] = "idle" /\ session'[r] = None /\ cursor'[r] = 0 /\ got'[r] = {}
        /\ \A q \in Requests \ {r} :
              /\ pc'[q] = pc[q] /\ session'[q] = session[q]
              /\ cursor'[q] = cursor[q] /\ got'[q] = got[q] /\ since'[q] = since[q]
    BY <1>0 DEF TypeOK, Finish
  <2>3. RowsAreFresh'
    <3>1. fresh \subseteq Sessions
      BY <1>0 DEF TypeOK
    <3>2. \A q \in Requests \ {r} : pc[q] = "created" => session[q] \in Sessions
      BY <1>0 DEF TypeOK
    <3> QED
      BY <2>1, <2>2, <3>1, <3>2, NamesAssumption DEF RowsAreFresh
  <2>5. HolderHasWritten'
    BY <2>1, <2>2 DEF HolderHasWritten, Holds
  <2>6. ReceivedIsThere' /\ FinishedIsWhole'
    BY <1>0, <2>1, SizeAssumption, SMTT(30)
       DEF TypeOK, ReceivedIsThere, FinishedIsWhole, Positions
  <2>7. ReadersSeeItAll'
    BY <2>1, <2>2 DEF ReadersSeeItAll, Complete
  <2> QED
    BY <2>3, <2>5, <2>6, <2>7
<1> QED
  BY <1>1, <1>2, <1>3 DEF BeginStep

(* What append does: the claim it takes is the only one that counts, the   *)
(* cut it makes is at the recorded offset or the session counts as         *)
(* overtaken, and it records what it wrote.                                *)
LEMMA AppendKeeps ==
    ASSUME UploadInv, TypeOK', NEW r \in Requests, AppendStep(r)
    PROVE  UploadInv'
<1> USE NamesAssumption, SizeAssumption, TimeAssumption
    DEF UploadInv, rowVars, fileVars, sweepVars
<1> DEFINE u == session[r]
<1>0. TypeOK /\ (pc[r] \notin {"idle", "counted"} => u \in Sessions)
  BY DEF TypeOK
<1>1. ASSUME NEW s \in Sessions, Look(r, s) PROVE UploadInv'
  <2> USE <1>1 DEF Look
  <2>1. RowsAreFresh'
    BY <1>0 DEF TypeOK, RowsAreFresh, Open
  <2>3. HolderHasWritten'
    BY <1>0 DEF TypeOK, HolderHasWritten, Holds
  <2>4. ReceivedIsThere' /\ FinishedIsWhole'
    BY DEF ReceivedIsThere, FinishedIsWhole
  <2>5. ReadersSeeItAll'
    BY <1>0 DEF TypeOK, ReadersSeeItAll, Complete, Open
  <2> QED
    BY <2>1, <2>3, <2>4, <2>5
<1>2. CASE Claim(r)
  <2> USE <1>2 DEF Claim, Claimable
  <2>1. u \in uploads /\ u \in Sessions
    BY <1>0
  <2>2. RowsAreFresh'
    BY <1>0, <2>1 DEF TypeOK, RowsAreFresh
  <2>3. HolderHasWritten'
    BY <1>0, <2>1 DEF TypeOK, HolderHasWritten, Holds
  <2>4. ReceivedIsThere' /\ FinishedIsWhole'
    BY DEF ReceivedIsThere, FinishedIsWhole
  <2>5. ReadersSeeItAll'
    BY <1>0 DEF TypeOK, ReadersSeeItAll, Complete
  <2> QED
    BY <2>2, <2>3, <2>4, <2>5
<1>3. CASE ClaimRefused(r)
  BY <1>3, EndingKeeps DEF ClaimRefused
<1>4. CASE CutBack(r)
  <2> USE <1>4 DEF CutBack
  <2>1. u \in Sessions /\ cursor[r] \in 0 .. Size /\ length[u] \in 0 .. Size
    BY <1>0 DEF TypeOK
  <2>2. /\ overtaken \subseteq overtaken'
        /\ u \notin overtaken' =>
              u \in uploads /\ writer[u] = r /\ cursor[r] = received[u]
    BY DEF Current, Holds
  <2>3. /\ length'[u] = cursor[r] /\ good'[u] = {p \in good[u] : p < cursor[r]}
        /\ \A s \in Sessions \ {u} : length'[s] = length[s] /\ good'[s] = good[s]
    BY <1>0, <2>1 DEF TypeOK
  <2>4. RowsAreFresh'
    BY <1>0 DEF TypeOK, RowsAreFresh
  <2>5. ReceivedIsThere'
    <3>1. uploads \subseteq Sessions /\ \A s \in Sessions : received[s] \in 0 .. Size
      BY <1>0 DEF TypeOK
    <3> QED
      BY <2>1, <2>2, <2>3, <3>1 DEF ReceivedIsThere, Positions
  <2>6. HolderHasWritten'
    <3> SUFFICES ASSUME NEW q \in Requests, pc'[q] \in {"writing", "drained"}, Holds(q)',
                        session[q] \notin overtaken'
                 PROVE  /\ received[session[q]] <= cursor[q]
                        /\ cursor[q] <= length'[session[q]]
                        /\ \A p \in Positions : p < cursor[q] => p \in good'[session[q]]
      BY DEF HolderHasWritten
    <3>1. CASE q = r
      BY <2>1, <2>2, <2>3, <3>1 DEF ReceivedIsThere, Positions
    <3>2. CASE q # r
      <4>1. pc[q] \in {"writing", "drained"} /\ Holds(q)
        BY <1>0, <3>2 DEF Holds, TypeOK
      <4>2. session[q] # u /\ session[q] \in Sessions
        BY <1>0, <2>2, <3>2, <4>1 DEF Holds, TypeOK
      <4> QED
        BY <2>2, <2>3, <4>1, <4>2 DEF HolderHasWritten
    <3> QED
      BY <3>1, <3>2
  <2>7. FinishedIsWhole'
    BY <2>2 DEF FinishedIsWhole
  <2>8. ReadersSeeItAll'
    <3> SUFFICES ASSUME NEW q \in Requests, pc'[q] \in {"opening", "reading"},
                        session[q] \notin overtaken'
                 PROVE  Complete(session[q])' /\ got[q] = {p \in Positions : p < cursor[q]}
      BY <1>0 DEF ReadersSeeItAll, TypeOK
    <3>1. q # r /\ pc[q] \in {"opening", "reading"} /\ session[q] \in Sessions
      BY <1>0 DEF TypeOK
    <3>2. Complete(session[q]) /\ got[q] = {p \in Positions : p < cursor[q]}
      BY <2>2, <3>1 DEF ReadersSeeItAll
    <3>3. session[q] = u => cursor[r] = Size
      BY <2>2, <3>2 DEF Complete
    <3>4. length'[session[q]] = Size /\ good'[session[q]] = Positions
      <4>1. CASE session[q] = u
        <5>1. {p \in Positions : p < Size} = Positions
          BY DEF Positions
        <5> QED
          BY <2>3, <3>2, <3>3, <4>1, <5>1 DEF Complete
      <4>2. CASE session[q] # u
        BY <2>3, <3>1, <3>2, <4>2 DEF Complete
      <4> QED
        BY <4>1, <4>2
    <3> QED
      BY <1>0, <3>1, <3>2, <3>4 DEF Complete, TypeOK
  <2> QED
    BY <2>4, <2>5, <2>6, <2>7, <2>8
<1>5. CASE AppendFails(r)
  BY <1>5, EndingKeeps DEF AppendFails
<1>6. CASE Write(r)
  <2> USE <1>6 DEF Write
  <2>1. u \in Sessions /\ cursor[r] \in 0 .. Size /\ cursor[r] \in Positions
    BY <1>0 DEF TypeOK, Positions
  <2>2. /\ good'[u] = good[u] \cup {cursor[r]}
        /\ length[u] <= length'[u] /\ cursor[r] + 1 <= length'[u]
        /\ length[u] = Size => length'[u] = Size
        /\ \A s \in Sessions \ {u} : length'[s] = length[s] /\ good'[s] = good[s]
        /\ \A s \in Sessions : length[s] \in 0 .. Size /\ length'[s] \in 0 .. Size
    BY <1>0, <2>1 DEF TypeOK
  <2>3. /\ cursor'[r] = cursor[r] + 1
        /\ \A q \in Requests \ {r} : cursor'[q] = cursor[q]
        /\ \A q \in Requests : cursor[q] \in 0 .. Size /\ cursor'[q] \in 0 .. Size
    BY <1>0, <2>1 DEF TypeOK
  <2>4. RowsAreFresh' /\ FinishedIsWhole'
    BY DEF RowsAreFresh,  FinishedIsWhole
  <2>5. ReceivedIsThere'
    <3>1. uploads \subseteq Sessions /\ \A s \in Sessions : received[s] \in 0 .. Size
      BY <1>0 DEF TypeOK
    <3> QED
      BY <2>2, <3>1 DEF ReceivedIsThere
  <2>6. HolderHasWritten'
    <3> SUFFICES ASSUME NEW q \in Requests, pc[q] \in {"writing", "drained"}, Holds(q),
                        session[q] \notin overtaken
                 PROVE  /\ received[session[q]] <= cursor'[q]
                        /\ cursor'[q] <= length'[session[q]]
                        /\ \A p \in Positions : p < cursor'[q] => p \in good'[session[q]]
      BY DEF HolderHasWritten, Holds
    <3>1. /\ session[q] \in Sessions /\ received[session[q]] \in 0 .. Size
          /\ received[session[q]] <= cursor[q] /\ cursor[q] <= length[session[q]]
          /\ \A p \in Positions : p < cursor[q] => p \in good[session[q]]
      BY <1>0 DEF TypeOK, HolderHasWritten, Holds
    <3> QED
      BY <2>1, <2>2, <2>3, <3>1 DEF Positions
  <2>7. ReadersSeeItAll'
    <3>1. \A s \in Sessions : Complete(s) => Complete(s)'
      BY <2>1, <2>2 DEF Complete
    <3>2. \A q \in Requests : pc[q] \in {"opening", "reading"} => session[q] \in Sessions
      BY <1>0 DEF TypeOK
    <3> QED
      BY <2>3, <3>1, <3>2 DEF ReadersSeeItAll
  <2> QED
    BY <2>4, <2>5, <2>6, <2>7
<1>7. CASE Overflow(r)
  <2>1. CASE Holds(r)
    <3>1. /\ DeleteRows({u}) /\ pc' = [pc EXCEPT ![r] = "discarding"]
          /\ UNCHANGED <<now, fresh, length, good, overtaken, nodes, session, cursor, got, since>>
      BY <1>7, <2>1 DEF Overflow, Goto
    <3>2. \A q \in Requests : pc'[q] = pc[q] \/ pc'[q] = "discarding"
      BY <1>0, <3>1 DEF TypeOK
    <3> QED
      BY <3>1, <3>2, DeletionKeeps
  <2>2. CASE ~Holds(r)
    BY <1>7, <2>2, EndingKeeps DEF Overflow
  <2> QED
    BY <2>1, <2>2
<1>8. CASE Drain(r)
  <2> USE <1>8 DEF Drain, Goto
  <2>1. RowsAreFresh' 
    BY <1>0 DEF TypeOK, RowsAreFresh
  <2>2. HolderHasWritten'
    BY <1>0 DEF TypeOK, HolderHasWritten, Holds
  <2>3. ReceivedIsThere' /\ FinishedIsWhole'
    BY DEF ReceivedIsThere, FinishedIsWhole
  <2>4. ReadersSeeItAll'
    BY <1>0 DEF TypeOK, ReadersSeeItAll, Complete
  <2> QED
    BY <2>1, <2>2, <2>3, <2>4
<1>9. CASE Record(r)
  <2>1. CASE Holds(r)
    <3>0. /\ pc[r] = "drained" /\ Finish(r)
          /\ received' = [received EXCEPT ![u] = cursor[r]]
          /\ writer' = [writer EXCEPT ![u] = None]
          /\ UNCHANGED <<now, fresh, uploads, length, good, overtaken, nodes>>
          /\ writing_until' = [writing_until EXCEPT ![u] = 0]
      BY <1>9, <2>1 DEF Record, ReleaseClaim
    <3>1. /\ u \in Sessions /\ u \in uploads /\ writer[u] = r
          /\ received'[u] = cursor[r] /\ writer'[u] = None
          /\ \A s \in Sessions \ {u} : /\ received'[s] = received[s] /\ writer'[s] = writer[s]
                                       /\ writing_until'[s] = writing_until[s]
      BY <1>0, <2>1, <3>0 DEF TypeOK, Holds
    <3>2. /\ u \notin overtaken =>
                /\ received[u] <= cursor[r] /\ cursor[r] <= length[u]
                /\ \A p \in Positions : p < cursor[r] => p \in good[u]
          /\ received[u] \in 0 .. Size /\ cursor[r] \in 0 .. Size
      BY <1>0, <2>1, <3>0, <3>1 DEF TypeOK, HolderHasWritten
    <3>3. /\ pc'[r] = "idle" /\ session'[r] = None /\ cursor'[r] = 0 /\ got'[r] = {}
          /\ \A q \in Requests \ {r} :
                /\ pc'[q] = pc[q] /\ session'[q] = session[q]
                /\ cursor'[q] = cursor[q] /\ got'[q] = got[q] /\ since'[q] = since[q]
                /\ pc[q] \notin {"idle", "counted"} => session[q] \in Sessions
      BY <1>0, <3>0 DEF TypeOK, Finish
    <3>4. RowsAreFresh'
      <4>1. fresh \subseteq Sessions
        BY <1>0 DEF TypeOK
      <4> QED
        BY <3>0, <3>1, <3>3, <4>1 DEF RowsAreFresh
    <3>7. HolderHasWritten'
      BY <3>0, <3>1, <3>3 DEF HolderHasWritten, Holds
    <3>8. ReceivedIsThere' /\ FinishedIsWhole'
      <4>1. uploads \subseteq Sessions
        BY <1>0 DEF TypeOK
      <4> QED
        BY <3>0, <3>1, <3>2, <4>1 DEF ReceivedIsThere, FinishedIsWhole
    <3>9. ReadersSeeItAll'
      <4>1. u \notin overtaken /\ received[u] = Size => received'[u] = Size
        BY <3>1, <3>2
      <4>2. \A s \in Sessions \ overtaken : Complete(s) => Complete(s)'
        BY <3>0, <3>1, <3>3, <4>1 DEF Complete
      <4> QED
        BY <3>0, <3>3, <4>2 DEF ReadersSeeItAll
    <3> QED
      BY <3>4, <3>7, <3>8, <3>9
  <2>2. CASE ~Holds(r)
    BY <1>9, <2>2, EndingKeeps DEF Record
  <2> QED
    BY <2>1, <2>2
<1>10. CASE Renew(r)
  <2>1. CASE Holds(r)
    <3> USE <1>10, <2>1 DEF Renew
    <3>1. RowsAreFresh' /\ FinishedIsWhole'
      BY DEF RowsAreFresh, FinishedIsWhole
    <3>3. HolderHasWritten' /\ ReceivedIsThere'
      BY DEF HolderHasWritten, ReceivedIsThere, Holds
    <3>4. ReadersSeeItAll'
      BY DEF ReadersSeeItAll, Complete
    <3> QED
      BY <3>1, <3>3, <3>4
  <2>2. CASE ~Holds(r)
    BY <1>10, <2>2, EndingKeeps DEF Renew
  <2> QED
    BY <2>1, <2>2
<1> QED
  BY <1>1, <1>2, <1>3, <1>4, <1>5, <1>6, <1>7, <1>8, <1>9, <1>10 DEF AppendStep

(* finish reads a complete file to its end; dropping the session leaves    *)
(* the open handle what it had.                                            *)
LEMMA FinishKeeps ==
    ASSUME UploadInv, TypeOK', NEW r \in Requests, FinishStep(r)
    PROVE  UploadInv'
<1> USE NamesAssumption, SizeAssumption
    DEF UploadInv, rowVars, fileVars, sweepVars
<1> DEFINE u == session[r]
<1>0. TypeOK /\ (pc[r] \notin {"idle", "counted"} => u \in Sessions)
  BY DEF TypeOK
<1>1. ASSUME NEW s \in Sessions, FinishLook(r, s) PROVE UploadInv'
  <2> USE <1>1 DEF FinishLook, Open
  <2>1. RowsAreFresh' 
    BY <1>0 DEF TypeOK, RowsAreFresh
  <2>2. HolderHasWritten'
    BY <1>0 DEF TypeOK, HolderHasWritten, Holds
  <2>3. ReceivedIsThere' /\ FinishedIsWhole'
    BY DEF ReceivedIsThere, FinishedIsWhole
  <2>4. s \notin overtaken => Complete(s)
    <3>0. SUFFICES ASSUME s \notin overtaken PROVE Complete(s)
      OBVIOUS
    <3>1. length[s] \in 0 .. Size /\ Size <= length[s] /\ good[s] \subseteq Positions
      BY <1>0, <3>0 DEF TypeOK, ReceivedIsThere
    <3>2. \A p \in Positions : p \in good[s]
      BY <3>0 DEF ReceivedIsThere, Positions
    <3> QED
      BY <3>1, <3>2 DEF Complete
  <2>5. ReadersSeeItAll'
    <3>1. \A v \in Sessions : Complete(v) => Complete(v)'
      BY <1>0 DEF TypeOK, Complete
    <3>2. got[r] = {p \in Positions : p < cursor[r]}
      BY DEF ReadersSeeItAll, Positions
    <3>3. \A q \in Requests : pc[q] \in {"opening", "reading"} => session[q] \in Sessions
      BY <1>0 DEF TypeOK
    <3> QED
      BY <1>0, <2>4, <3>1, <3>2, <3>3 DEF ReadersSeeItAll, TypeOK
  <2> QED
    BY <2>1, <2>2, <2>3, <2>5
<1>2. ASSUME NEW s \in Sessions, AbandonLook(r, s) PROVE UploadInv'
  <2> USE <1>2 DEF AbandonLook, Open
  <2>1. RowsAreFresh' 
    BY <1>0 DEF TypeOK, RowsAreFresh
  <2>2. HolderHasWritten'
    BY <1>0 DEF TypeOK, HolderHasWritten, Holds
  <2>3. ReceivedIsThere' /\ FinishedIsWhole'
    BY DEF ReceivedIsThere, FinishedIsWhole
  <2>4. ReadersSeeItAll'
    BY <1>0 DEF TypeOK, ReadersSeeItAll, Complete
  <2> QED
    BY <2>1, <2>2, <2>3, <2>4
<1>3. ASSUME NEW state \in {"reading", "dropping"}, Goto(r, state),
             UNCHANGED <<now, fresh, rowVars, length, good, overtaken>>,
             state = "reading" => pc[r] = "opening",
             pc[r] \in {"opening", "reading"}, FinishedIsWhole'
      PROVE  UploadInv'
  <2> USE <1>3 DEF Goto
  <2>1. RowsAreFresh' 
    BY <1>0 DEF TypeOK, RowsAreFresh
  <2>2. HolderHasWritten' /\ ReceivedIsThere'
    BY <1>0 DEF TypeOK, HolderHasWritten, Holds, ReceivedIsThere
  <2>3. ReadersSeeItAll'
    BY <1>0 DEF TypeOK, ReadersSeeItAll, Complete
  <2> QED
    BY <2>1, <2>2, <2>3
<1>4. CASE OpenStaged(r)
  <2>1. CASE u \in linked
    <3>1. FinishedIsWhole'
      BY <1>4 DEF OpenStaged, FinishedIsWhole
    <3> QED
      BY <1>4, <2>1, <1>3, <3>1 DEF OpenStaged
  <2>2. CASE u \notin linked
    BY <1>4, <2>2, EndingKeeps DEF OpenStaged
  <2> QED
    BY <2>1, <2>2
<1>5. CASE Read(r)
  <2> USE <1>5 DEF Read
  <2>1. /\ u \notin overtaken =>
              Complete(u) /\ got[r] = {p \in Positions : p < cursor[r]}
        /\ cursor[r] \in 0 .. Size /\ u \in Sessions
    BY <1>0 DEF TypeOK, ReadersSeeItAll
  <2>2. /\ cursor'[r] = cursor[r] + 1
        /\ got'[r] = got[r] \cup (good[u] \cap {cursor[r]})
        /\ \A q \in Requests \ {r} : cursor'[q] = cursor[q] /\ got'[q] = got[q]
    BY <1>0 DEF TypeOK
  <2>3. u \notin overtaken => got'[r] = {p \in Positions : p < cursor'[r]}
    BY <2>1, <2>2 DEF Complete, Positions
  <2>4. RowsAreFresh' 
    BY DEF RowsAreFresh
  <2>5. HolderHasWritten' /\ ReceivedIsThere' /\ FinishedIsWhole'
    BY <2>2 DEF HolderHasWritten, Holds, ReceivedIsThere, FinishedIsWhole
  <2>6. ReadersSeeItAll'
    BY <2>2, <2>3 DEF ReadersSeeItAll, Complete
  <2> QED
    BY <2>4, <2>5, <2>6
<1>6. CASE PutFile(r)
  <2>1. /\ u \notin overtaken =>
              Complete(u) /\ got[r] = {p \in Positions : p < cursor[r]}
        /\ cursor[r] \in 0 .. Size /\ length[u] <= cursor[r]
    BY <1>0, <1>6 DEF PutFile, TypeOK, ReadersSeeItAll
  <2>2. u \notin overtaken => cursor[r] = Size
    BY <2>1 DEF Complete
  <2>3. u \notin overtaken => got[r] = Positions
    <3>1. {p \in Positions : p < Size} = Positions
      BY DEF Positions
    <3> QED
      BY <2>1, <2>2, <3>1
  <2>4. FinishedIsWhole'
    BY <1>6, <2>2, <2>3 DEF PutFile, FinishedIsWhole
  <2> QED
    BY <1>6, <2>4, <1>3 DEF PutFile
<1>7. CASE PutRefused(r)
  BY <1>7, EndingKeeps DEF PutRefused
<1>8. CASE DropSession(r)
  <2>1. /\ DeleteRows({u}) /\ pc' = [pc EXCEPT ![r] = "discarding"]
        /\ UNCHANGED <<now, fresh, length, good, overtaken, nodes, session, cursor, got, since>>
    BY <1>8 DEF DropSession, Goto
  <2>2. \A q \in Requests : pc'[q] = pc[q] \/ pc'[q] = "discarding"
    BY <1>0, <2>1 DEF TypeOK
  <2> QED
    BY <2>1, <2>2, DeletionKeeps
<1>9. CASE Discard(r)
  BY <1>9, EndingKeeps DEF Discard
<1> QED
  BY <1>1, <1>2, <1>4, <1>5, <1>6, <1>7, <1>8, <1>9 DEF FinishStep

(* Every step keeps the invariant of the uploads.                          *)
LEMMA UploadStep ==
    ASSUME UploadInv, [Next]_vars
    PROVE  UploadInv'
<1> USE DEF rowVars, fileVars, reqVars, sweepVars, vars
<1>0. TypeOK /\ TypeOK'
  BY TypeStep DEF UploadInv
<1>1. ASSUME NEW r \in Requests, BeginStep(r) \/ AppendStep(r) \/ FinishStep(r) \/ Die(r)
      PROVE  UploadInv'
  <2>1. CASE Die(r)
    BY <1>0, <2>1, EndingKeeps DEF Die
  <2> QED
    BY <1>0, <1>1, <2>1, BeginKeeps, AppendKeeps, FinishKeeps
<1>2. ASSUME UNCHANGED <<now, fresh, rowVars, length, good, overtaken, nodes, reqVars>>
      PROVE  UploadInv'
  BY <1>0, <1>2 DEF UploadInv, RowsAreFresh, 
     HolderHasWritten, Holds, ReceivedIsThere, ReadersSeeItAll, Complete,
     FinishedIsWhole
<1>3. CASE SweepStep
  <2>1. CASE PurgeExpired
    BY <1>0, <2>1, DeletionKeeps DEF PurgeExpired
  <2>2. CASE ListLive \/ EndSweep
    BY <2>2, <1>2 DEF ListLive, EndSweep
  <2>3. ASSUME NEW s \in Sessions, SweepFile(s) PROVE UploadInv'
    BY <2>3, <1>2 DEF SweepFile
  <2> QED
    BY <1>3, <2>1, <2>2, <2>3 DEF SweepStep
<1>4. CASE Tick
  BY <1>0, <1>4 DEF Tick, UploadInv, RowsAreFresh, HolderHasWritten, Holds,
     ReceivedIsThere, ReadersSeeItAll, Complete, FinishedIsWhole
<1>5. CASE UNCHANGED vars
  BY <1>5, <1>2
<1> QED
  BY <1>1, <1>3, <1>4, <1>5 DEF Next

(* ... which holds in every reachable state.                               *)
LEMMA UploadInvariant == Spec => []UploadInv
<1>1. Init => UploadInv
  BY TypeInit, NamesAssumption DEF Init, UploadInv, RowsAreFresh,
      HolderHasWritten, ReceivedIsThere,
     ReadersSeeItAll, FinishedIsWhole
<1>2. UploadInv /\ [Next]_vars => UploadInv'
  BY UploadStep
<1> QED
  BY <1>1, <1>2, PTL DEF Spec

(* append, finish, abandon and the sweep, on any number of sessions: every *)
(* byte below the recorded offset is in the staged file, and every node    *)
(* that finish commits is the whole upload, although handlers die with the *)
(* claim, writers go on after they lost it and requests act on a row that  *)
(* has moved on.  Only a session that such a request cut back is excepted: *)
(* nothing in append prevents that one.                                    *)
THEOREM UploadsAreWhole == Spec => [](ReceivedIsThere /\ FinishedIsWhole)
<1>1. UploadInv => ReceivedIsThere /\ FinishedIsWhole
  BY DEF UploadInv
<1> QED
  BY <1>1, UploadInvariant, PTL

-----------------------------------------------------------------------------
(* What holds of overtaken sessions too: the staging directory, the claims *)
(* and the ceiling.                                                        *)

(* begin and a sweep take no longer than their bounds, and the file begin  *)
(* has made is there and young.                                            *)
InTime ==
    /\ \A r \in Requests : pc[r] \in {"counted", "created"} =>
          since[r] <= now /\ now <= since[r] + BeginTime
    /\ \A r \in Requests : pc[r] = "created" =>
          session[r] \in linked /\ mtime[session[r]] >= since[r]
    /\ live # {None} => listed_at <= now /\ now <= listed_at + SweepTime

(* A session that got its row after the sweep asked for the names is too   *)
(* young for it.                                                           *)
UnlistedIsYoung ==
    live # {None} => \A s \in uploads \ live : mtime[s] + BeginTime >= listed_at

(* A file is unlinked by name only once its row is gone for good.          *)
DiscardedIsClosed == \A r \in Requests : pc[r] = "discarding" => session[r] \notin uploads

StagingInv ==
    /\ TypeOK /\ RowsAreFresh /\ InTime /\ UnlistedIsYoung /\ DiscardedIsClosed
    /\ OpenSessionHasFile

(* A writer that is not the row's any more let its claim lapse.            *)
HeldOrLapsed ==
    \A r \in Requests : pc[r] \in Holding /\ session[r] \in uploads =>
        \/ writer[session[r]] = r /\ writing_until[session[r]] = since[r] + ClaimTime
        \/ now > since[r] + ClaimTime

ClaimInv == HeldOrLapsed /\ WritersApart

(* Room for one more while begin holds the owner's lock.                   *)
OpenSessions == {s \in Sessions : Open(s)}
CeilingInv ==
    /\ \A r \in Requests : pc[r] \in {"counted", "created"} =>
          owner_lock = r /\ Cardinality(OpenSessions) < MOST_SESSIONS
    /\ SessionCeiling

(* Every step keeps the rows in order.                                     *)
LEMMA RowsStep == TypeOK /\ RowsAreFresh /\ [Next]_vars => RowsAreFresh'
<1> SUFFICES ASSUME TypeOK, RowsAreFresh, [Next]_vars PROVE RowsAreFresh'
  OBVIOUS
<1> USE NamesAssumption DEF TypeOK, RowsAreFresh, rowVars, fileVars, reqVars, sweepVars, vars
<1>1. ASSUME NEW r \in Requests, Count(r) PROVE RowsAreFresh'
  BY <1>1 DEF Count
<1>2. ASSUME NEW r \in Requests, NEW s \in Sessions, CreateFile(r, s) PROVE RowsAreFresh'
  BY <1>2 DEF CreateFile
<1>3. ASSUME NEW r \in Requests, InsertRow(r) PROVE RowsAreFresh'
  BY <1>3 DEF InsertRow, Finish
<1>4. ASSUME NEW r \in Requests, NEW s \in Sessions, Look(r, s) PROVE RowsAreFresh'
  BY <1>4 DEF Look, Open
<1>5. ASSUME NEW r \in Requests, Claim(r) PROVE RowsAreFresh'
  BY <1>5 DEF Claim, Claimable
<1>6. ASSUME NEW r \in Requests, ClaimRefused(r) PROVE RowsAreFresh'
  BY <1>6 DEF ClaimRefused, Finish
<1>7. ASSUME NEW r \in Requests, CutBack(r) PROVE RowsAreFresh'
  BY <1>7 DEF CutBack
<1>8. ASSUME NEW r \in Requests, AppendFails(r) PROVE RowsAreFresh'
  BY <1>8 DEF AppendFails, ReleaseClaim, Holds, Finish
<1>9. ASSUME NEW r \in Requests, Write(r) PROVE RowsAreFresh'
  BY <1>9 DEF Write
<1>10. ASSUME NEW r \in Requests, Overflow(r) PROVE RowsAreFresh'
  BY <1>10 DEF Overflow, DeleteRows, Goto, Holds, Finish
<1>11. ASSUME NEW r \in Requests, Drain(r) PROVE RowsAreFresh'
  BY <1>11 DEF Drain, Goto
<1>12. ASSUME NEW r \in Requests, Record(r) PROVE RowsAreFresh'
  BY <1>12 DEF Record, ReleaseClaim, Holds, Finish
<1>13. ASSUME NEW r \in Requests, Renew(r) PROVE RowsAreFresh'
  BY <1>13 DEF Renew, Holds, Finish
<1>14. ASSUME NEW r \in Requests, NEW s \in Sessions, FinishLook(r, s) PROVE RowsAreFresh'
  BY <1>14 DEF FinishLook, Open
<1>15. ASSUME NEW r \in Requests, NEW s \in Sessions, AbandonLook(r, s) PROVE RowsAreFresh'
  BY <1>15 DEF AbandonLook, Open
<1>16. ASSUME NEW r \in Requests, OpenStaged(r) PROVE RowsAreFresh'
  BY <1>16 DEF OpenStaged, Goto, Finish
<1>17. ASSUME NEW r \in Requests, Read(r) PROVE RowsAreFresh'
  BY <1>17 DEF Read
<1>18. ASSUME NEW r \in Requests, PutFile(r) PROVE RowsAreFresh'
  BY <1>18 DEF PutFile, Goto
<1>19. ASSUME NEW r \in Requests, PutRefused(r) PROVE RowsAreFresh'
  BY <1>19 DEF PutRefused, Finish
<1>20. ASSUME NEW r \in Requests, DropSession(r) PROVE RowsAreFresh'
  BY <1>20 DEF DropSession, DeleteRows, Goto
<1>21. ASSUME NEW r \in Requests, Discard(r) PROVE RowsAreFresh'
  BY <1>21 DEF Discard, Finish
<1>22. ASSUME NEW r \in Requests, Die(r) PROVE RowsAreFresh'
  BY <1>22 DEF Die, Finish
<1>23. CASE PurgeExpired
  BY <1>23 DEF PurgeExpired, DeleteRows
<1>24. CASE ListLive
  BY <1>24 DEF ListLive
<1>25. CASE EndSweep
  BY <1>25 DEF EndSweep
<1>26. ASSUME NEW s \in Sessions, SweepFile(s) PROVE RowsAreFresh'
  BY <1>26 DEF SweepFile, Leftover, IsRecent
<1>27. CASE Tick
  BY <1>27 DEF Tick, MayWait
<1>28. CASE UNCHANGED vars
  BY <1>28
<1> QED
  BY <1>1, <1>2, <1>3, <1>4, <1>5, <1>6, <1>7, <1>8, <1>9, <1>10, <1>11, <1>12, <1>13, <1>14,
     <1>15, <1>16, <1>17, <1>18, <1>19, <1>20, <1>21, <1>22, <1>23, <1>24, <1>25, <1>26,
     <1>27, <1>28
     DEF Next, BeginStep, AppendStep, FinishStep, SweepStep

(* Every step keeps a staging file for every open session.                 *)
LEMMA StagingStep == StagingInv /\ [Next]_vars => StagingInv'
<1> SUFFICES ASSUME StagingInv, [Next]_vars
             PROVE  (InTime /\ UnlistedIsYoung /\ DiscardedIsClosed /\ OpenSessionHasFile)'
  BY TypeStep, RowsStep DEF StagingInv
<1> USE NamesAssumption, TimeAssumption
    DEF StagingInv, TypeOK, RowsAreFresh, InTime, UnlistedIsYoung, DiscardedIsClosed,
        OpenSessionHasFile, rowVars, fileVars, reqVars, sweepVars, vars
<1>1. ASSUME NEW r \in Requests, Count(r)
      PROVE  (InTime /\ UnlistedIsYoung /\ DiscardedIsClosed /\ OpenSessionHasFile)'
  BY <1>1 DEF Count
<1>2. ASSUME NEW r \in Requests, NEW s \in Sessions, CreateFile(r, s)
      PROVE  (InTime /\ UnlistedIsYoung /\ DiscardedIsClosed /\ OpenSessionHasFile)'
  BY <1>2 DEF CreateFile
<1>3. ASSUME NEW r \in Requests, InsertRow(r)
      PROVE  (InTime /\ UnlistedIsYoung /\ DiscardedIsClosed /\ OpenSessionHasFile)'
  BY <1>3 DEF InsertRow, Finish
<1>4. ASSUME NEW r \in Requests, NEW s \in Sessions, Look(r, s)
      PROVE  (InTime /\ UnlistedIsYoung /\ DiscardedIsClosed /\ OpenSessionHasFile)'
  BY <1>4 DEF Look
<1>5. ASSUME NEW r \in Requests, Claim(r)
      PROVE  (InTime /\ UnlistedIsYoung /\ DiscardedIsClosed /\ OpenSessionHasFile)'
  BY <1>5 DEF Claim, Claimable
<1>6. ASSUME NEW r \in Requests, ClaimRefused(r)
      PROVE  (InTime /\ UnlistedIsYoung /\ DiscardedIsClosed /\ OpenSessionHasFile)'
  BY <1>6 DEF ClaimRefused, Finish
<1>7. ASSUME NEW r \in Requests, CutBack(r)
      PROVE  (InTime /\ UnlistedIsYoung /\ DiscardedIsClosed /\ OpenSessionHasFile)'
  BY <1>7 DEF CutBack
<1>8. ASSUME NEW r \in Requests, AppendFails(r)
      PROVE  (InTime /\ UnlistedIsYoung /\ DiscardedIsClosed /\ OpenSessionHasFile)'
  BY <1>8 DEF AppendFails, ReleaseClaim, Holds, Finish
<1>9. ASSUME NEW r \in Requests, Write(r)
      PROVE  (InTime /\ UnlistedIsYoung /\ DiscardedIsClosed /\ OpenSessionHasFile)'
  BY <1>9 DEF Write
<1>10. ASSUME NEW r \in Requests, Overflow(r)
       PROVE  (InTime /\ UnlistedIsYoung /\ DiscardedIsClosed /\ OpenSessionHasFile)'
  BY <1>10 DEF Overflow, DeleteRows, Goto, Holds, Finish
<1>11. ASSUME NEW r \in Requests, Drain(r)
       PROVE  (InTime /\ UnlistedIsYoung /\ DiscardedIsClosed /\ OpenSessionHasFile)'
  BY <1>11 DEF Drain, Goto
<1>12. ASSUME NEW r \in Requests, Record(r)
       PROVE  (InTime /\ UnlistedIsYoung /\ DiscardedIsClosed /\ OpenSessionHasFile)'
  BY <1>12 DEF Record, ReleaseClaim, Holds, Finish
<1>13. ASSUME NEW r \in Requests, Renew(r)
       PROVE  (InTime /\ UnlistedIsYoung /\ DiscardedIsClosed /\ OpenSessionHasFile)'
  BY <1>13 DEF Renew, Holds, Finish
<1>14. ASSUME NEW r \in Requests, NEW s \in Sessions, FinishLook(r, s)
       PROVE  (InTime /\ UnlistedIsYoung /\ DiscardedIsClosed /\ OpenSessionHasFile)'
  BY <1>14 DEF FinishLook
<1>15. ASSUME NEW r \in Requests, NEW s \in Sessions, AbandonLook(r, s)
       PROVE  (InTime /\ UnlistedIsYoung /\ DiscardedIsClosed /\ OpenSessionHasFile)'
  BY <1>15 DEF AbandonLook
<1>16. ASSUME NEW r \in Requests, OpenStaged(r)
       PROVE  (InTime /\ UnlistedIsYoung /\ DiscardedIsClosed /\ OpenSessionHasFile)'
  BY <1>16 DEF OpenStaged, Goto, Finish
<1>17. ASSUME NEW r \in Requests, Read(r)
       PROVE  (InTime /\ UnlistedIsYoung /\ DiscardedIsClosed /\ OpenSessionHasFile)'
  BY <1>17 DEF Read
<1>18. ASSUME NEW r \in Requests, PutFile(r)
       PROVE  (InTime /\ UnlistedIsYoung /\ DiscardedIsClosed /\ OpenSessionHasFile)'
  BY <1>18 DEF PutFile, Goto
<1>19. ASSUME NEW r \in Requests, PutRefused(r)
       PROVE  (InTime /\ UnlistedIsYoung /\ DiscardedIsClosed /\ OpenSessionHasFile)'
  BY <1>19 DEF PutRefused, Finish
<1>20. ASSUME NEW r \in Requests, DropSession(r)
       PROVE  (InTime /\ UnlistedIsYoung /\ DiscardedIsClosed /\ OpenSessionHasFile)'
  BY <1>20 DEF DropSession, DeleteRows, Goto
<1>21. ASSUME NEW r \in Requests, Discard(r)
       PROVE  (InTime /\ UnlistedIsYoung /\ DiscardedIsClosed /\ OpenSessionHasFile)'
  BY <1>21 DEF Discard, Finish
<1>22. ASSUME NEW r \in Requests, Die(r)
       PROVE  (InTime /\ UnlistedIsYoung /\ DiscardedIsClosed /\ OpenSessionHasFile)'
  BY <1>22 DEF Die, Finish
<1>23. CASE PurgeExpired
  BY <1>23 DEF PurgeExpired, DeleteRows
<1>24. CASE ListLive
  BY <1>24 DEF ListLive
<1>25. CASE EndSweep
  BY <1>25 DEF EndSweep
<1>26. ASSUME NEW s \in Sessions, SweepFile(s)
       PROVE  (InTime /\ UnlistedIsYoung /\ DiscardedIsClosed /\ OpenSessionHasFile)'
  BY <1>26 DEF SweepFile, Leftover, IsRecent
<1>27. CASE Tick
  BY <1>27 DEF Tick, MayWait
<1>28. CASE UNCHANGED vars
  BY <1>28
<1> QED
  BY <1>1, <1>2, <1>3, <1>4, <1>5, <1>6, <1>7, <1>8, <1>9, <1>10, <1>11, <1>12, <1>13, <1>14,
     <1>15, <1>16, <1>17, <1>18, <1>19, <1>20, <1>21, <1>22, <1>23, <1>24, <1>25, <1>26,
     <1>27, <1>28
     DEF Next, BeginStep, AppendStep, FinishStep, SweepStep

(* Every step keeps writers apart.                                         *)
LEMMA ClaimStep ==
    StagingInv /\ ClaimInv /\ [Next]_vars => ClaimInv'
<1> SUFFICES ASSUME StagingInv, ClaimInv, [Next]_vars PROVE ClaimInv'
  OBVIOUS
<1> USE NamesAssumption, TimeAssumption
    DEF StagingInv, TypeOK, RowsAreFresh, ClaimInv, HeldOrLapsed, WritersApart, Holding,
        rowVars, fileVars, reqVars, sweepVars, vars
<1>1. ASSUME NEW r \in Requests, Count(r) PROVE ClaimInv'
  BY <1>1 DEF Count
<1>2. ASSUME NEW r \in Requests, NEW s \in Sessions, CreateFile(r, s) PROVE ClaimInv'
  BY <1>2 DEF CreateFile
<1>3. ASSUME NEW r \in Requests, InsertRow(r) PROVE ClaimInv'
  BY <1>3 DEF InsertRow, Finish
<1>4. ASSUME NEW r \in Requests, NEW s \in Sessions, Look(r, s) PROVE ClaimInv'
  BY <1>4 DEF Look
<1>5. ASSUME NEW r \in Requests, Claim(r) PROVE ClaimInv'
  BY <1>5 DEF Claim, Claimable
<1>6. ASSUME NEW r \in Requests, ClaimRefused(r) PROVE ClaimInv'
  BY <1>6 DEF ClaimRefused, Finish
<1>7. ASSUME NEW r \in Requests, CutBack(r) PROVE ClaimInv'
  BY <1>7 DEF CutBack
<1>8. ASSUME NEW r \in Requests, AppendFails(r) PROVE ClaimInv'
  BY <1>8 DEF AppendFails, ReleaseClaim, Holds, Finish
<1>9. ASSUME NEW r \in Requests, Write(r) PROVE ClaimInv'
  BY <1>9 DEF Write
<1>10. ASSUME NEW r \in Requests, Overflow(r) PROVE ClaimInv'
  BY <1>10 DEF Overflow, DeleteRows, Goto, Holds, Finish
<1>11. ASSUME NEW r \in Requests, Drain(r) PROVE ClaimInv'
  BY <1>11 DEF Drain, Goto
<1>12. ASSUME NEW r \in Requests, Record(r) PROVE ClaimInv'
  BY <1>12 DEF Record, ReleaseClaim, Holds, Finish
<1>13. ASSUME NEW r \in Requests, Renew(r) PROVE ClaimInv'
  BY <1>13 DEF Renew, Holds, Finish
<1>14. ASSUME NEW r \in Requests, NEW s \in Sessions, FinishLook(r, s) PROVE ClaimInv'
  BY <1>14 DEF FinishLook
<1>15. ASSUME NEW r \in Requests, NEW s \in Sessions, AbandonLook(r, s) PROVE ClaimInv'
  BY <1>15 DEF AbandonLook
<1>16. ASSUME NEW r \in Requests, OpenStaged(r) PROVE ClaimInv'
  BY <1>16 DEF OpenStaged, Goto, Finish
<1>17. ASSUME NEW r \in Requests, Read(r) PROVE ClaimInv'
  BY <1>17 DEF Read
<1>18. ASSUME NEW r \in Requests, PutFile(r) PROVE ClaimInv'
  BY <1>18 DEF PutFile, Goto
<1>19. ASSUME NEW r \in Requests, PutRefused(r) PROVE ClaimInv'
  BY <1>19 DEF PutRefused, Finish
<1>20. ASSUME NEW r \in Requests, DropSession(r) PROVE ClaimInv'
  BY <1>20 DEF DropSession, DeleteRows, Goto
<1>21. ASSUME NEW r \in Requests, Discard(r) PROVE ClaimInv'
  BY <1>21 DEF Discard, Finish
<1>22. ASSUME NEW r \in Requests, Die(r) PROVE ClaimInv'
  BY <1>22 DEF Die, Finish
<1>23. CASE PurgeExpired
  BY <1>23 DEF PurgeExpired, DeleteRows
<1>24. CASE ListLive
  BY <1>24 DEF ListLive
<1>25. CASE EndSweep
  BY <1>25 DEF EndSweep
<1>26. ASSUME NEW s \in Sessions, SweepFile(s) PROVE ClaimInv'
  BY <1>26 DEF SweepFile, Leftover, IsRecent
<1>27. CASE Tick
  BY <1>27 DEF Tick, MayWait
<1>28. CASE UNCHANGED vars
  BY <1>28
<1> QED
  BY <1>1, <1>2, <1>3, <1>4, <1>5, <1>6, <1>7, <1>8, <1>9, <1>10, <1>11, <1>12, <1>13, <1>14,
     <1>15, <1>16, <1>17, <1>18, <1>19, <1>20, <1>21, <1>22, <1>23, <1>24, <1>25, <1>26,
     <1>27, <1>28
     DEF Next, BeginStep, AppendStep, FinishStep, SweepStep

(* Only begin's insert opens a session, and only the one begin made.       *)
LEMMA OpenStep ==
    ASSUME TypeOK, [Next]_vars
    PROVE  \/ OpenSessions' \subseteq OpenSessions
           \/ \E r \in Requests : InsertRow(r)
<1> SUFFICES ASSUME \A r \in Requests : ~InsertRow(r)
             PROVE  OpenSessions' \subseteq OpenSessions
  OBVIOUS
<1>1. uploads' \subseteq uploads /\ \A s \in uploads' : expires_at'[s] = expires_at[s]
  <2>1. ASSUME NEW S, DeleteRows(S) PROVE <1>1!:
    BY <2>1 DEF DeleteRows, TypeOK
  <2>2. ASSUME UNCHANGED <<uploads, expires_at>> PROVE <1>1!:
    BY <2>2
  <2> QED
    BY <2>1, <2>2
    DEF Next, BeginStep, AppendStep, FinishStep, SweepStep, Count, CreateFile, Look, Claim,
        ClaimRefused, CutBack, AppendFails, Write, Overflow, Drain, Record, Renew,
        FinishLook, AbandonLook, OpenStaged, Read, PutFile, PutRefused, DropSession,
        Discard, Die, PurgeExpired, ListLive, EndSweep, SweepFile, Tick, rowVars, vars
<1>2. now <= now'
  <2>1. CASE Tick
    BY <2>1 DEF Tick, TypeOK
  <2>2. CASE ~Tick
    <3>1. now' = now
      BY <2>2
      DEF Next, BeginStep, AppendStep, FinishStep, SweepStep, Count, CreateFile, Look, Claim,
          ClaimRefused, CutBack, AppendFails, Write, Overflow, Drain, Record, Renew,
          FinishLook, AbandonLook, OpenStaged, Read, PutFile, PutRefused, DropSession,
          Discard, Die, PurgeExpired, ListLive, EndSweep, SweepFile, vars
    <3> QED
      BY <3>1 DEF TypeOK
  <2> QED
    BY <2>1, <2>2
<1> QED
  BY <1>1, <1>2, TypeStep DEF OpenSessions, Open, TypeOK

(* Every step keeps the number of sessions within the ceiling.             *)
LEMMA CeilingStep == StagingInv /\ CeilingInv /\ [Next]_vars => CeilingInv'
<1> SUFFICES ASSUME StagingInv, CeilingInv, [Next]_vars PROVE CeilingInv'
  OBVIOUS
<1>0. TypeOK /\ TypeOK'
  BY TypeStep DEF StagingInv
<1>1. /\ IsFiniteSet(OpenSessions) /\ IsFiniteSet(OpenSessions')
      /\ Cardinality(OpenSessions) \in Nat /\ Cardinality(OpenSessions') \in Nat
  BY SessionsAssumption, FS_Subset, FS_CardinalityType DEF OpenSessions
<1>2. ASSUME NEW r \in Requests, InsertRow(r) PROVE CeilingInv'
  <2>1. OpenSessions' \subseteq OpenSessions \cup {session[r]}
    BY <1>0, <1>2 DEF InsertRow, OpenSessions, Open, TypeOK
  <2>2. Cardinality(OpenSessions \cup {session[r]}) <= Cardinality(OpenSessions) + 1
    <3>1. Cardinality(OpenSessions \cup {session[r]})
            \in {Cardinality(OpenSessions), Cardinality(OpenSessions) + 1}
      BY <1>1, FS_AddElement
    <3> QED
      BY <1>1, <3>1
  <2>3. IsFiniteSet(OpenSessions \cup {session[r]})
    BY <1>1, FS_AddElement
  <2>4. Cardinality(OpenSessions') <= Cardinality(OpenSessions) + 1
    BY <1>1, <2>1, <2>2, <2>3, FS_Subset, FS_CardinalityType
  <2>5. Cardinality(OpenSessions) < MOST_SESSIONS
    BY <1>2 DEF InsertRow, CeilingInv
  <2>6. SessionCeiling'
    BY <1>1, <2>4, <2>5, SizeAssumption DEF SessionCeiling, OpenSessions
  <2>7. \A q \in Requests : pc'[q] \notin {"counted", "created"}
    BY <1>0, <1>2 DEF InsertRow, Finish, CeilingInv, TypeOK
  <2> QED
    BY <2>6, <2>7 DEF CeilingInv
<1>3. ASSUME OpenSessions' \subseteq OpenSessions PROVE CeilingInv'
  <2>1. Cardinality(OpenSessions') <= Cardinality(OpenSessions)
    BY <1>1, <1>3, FS_Subset
  <2>2. SessionCeiling'
    BY <1>1, <2>1, SizeAssumption DEF CeilingInv, SessionCeiling, OpenSessions
  <2>3. ASSUME NEW q \in Requests, pc'[q] \in {"counted", "created"}
        PROVE  owner_lock' = q /\ Cardinality(OpenSessions) < MOST_SESSIONS
    <3> DEFINE Room == owner_lock' = q /\ Cardinality(OpenSessions) < MOST_SESSIONS
    <3> USE <1>0, <2>3, NamesAssumption DEF TypeOK, CeilingInv, rowVars,
           fileVars, reqVars, sweepVars
    <3>1. ASSUME NEW r \in Requests, Count(r) PROVE Room
      BY <3>1 DEF Count, OpenSessions
    <3>2. ASSUME NEW r \in Requests, Die(r) PROVE Room
      BY <3>2 DEF Die, Finish
    <3>3. ASSUME NEW r \in Requests, InsertRow(r) PROVE Room
      BY <3>3 DEF InsertRow, Finish
    <3>4. ASSUME owner_lock' = owner_lock, pc[q] \in {"counted", "created"} PROVE Room
      BY <3>4
    <3>5. CASE SweepStep \/ Tick \/ UNCHANGED vars
      BY <3>4, <3>5 DEF SweepStep, PurgeExpired, ListLive, EndSweep, SweepFile, Tick, vars
    <3>6. ASSUME NEW r \in Requests, NEW s \in Sessions, CreateFile(r, s) PROVE Room
      BY <3>6 DEF CreateFile
    <3>7. ASSUME NEW r \in Requests, AppendStep(r) PROVE Room
      BY <3>4, <3>7 DEF AppendStep, Look, Claim, ClaimRefused, CutBack, AppendFails, Write,
         Overflow, Drain, Record, Renew, Goto, Finish
    <3>8. ASSUME NEW r \in Requests, FinishStep(r) PROVE Room
      BY <3>4, <3>8 DEF FinishStep, FinishLook, AbandonLook, OpenStaged, Read, PutFile,
         PutRefused, DropSession, Discard, Goto, Finish
    <3> QED
      BY <3>1, <3>2, <3>3, <3>5, <3>6, <3>7, <3>8 DEF Next, BeginStep
  <2> QED
    BY <1>1, <2>1, <2>2, <2>3, SizeAssumption DEF CeilingInv
<1> QED
  BY <1>0, <1>2, <1>3, OpenStep

-----------------------------------------------------------------------------
(* The staging files are in order in every reachable state.                *)
LEMMA StagingInvariant == Spec => []StagingInv
<1>1. Init => StagingInv
  BY TypeInit, NamesAssumption DEF Init, StagingInv, RowsAreFresh, InTime, UnlistedIsYoung,
     DiscardedIsClosed, OpenSessionHasFile
<1> QED
  BY <1>1, StagingStep, PTL DEF Spec

(* A session that can still be resumed has its file, whatever fails: the   *)
(* sweep lists the names and unlinks by age in steps of its own, and begin *)
(* makes the file before the row, but never so early that the sweep takes  *)
(* it for a leftover (uploads::begin, sweep_uploads).                      *)
THEOREM OpenSessionsHaveFiles == Spec => []OpenSessionHasFile
<1>1. StagingInv => OpenSessionHasFile
  BY DEF StagingInv
<1> QED
  BY <1>1, StagingInvariant, PTL

(* Two requests write to one session only after one of them let its claim  *)
(* lapse, whatever dies, pauses or comes late (uploads::claim and renew).  *)
THEOREM WritersAreApart == Spec => []WritersApart
<1>1. Init => ClaimInv
  BY DEF Init, ClaimInv, HeldOrLapsed, WritersApart, Holding
<1>2. ClaimInv => WritersApart
  BY DEF ClaimInv
<1> QED
  BY <1>1, <1>2, ClaimStep, StagingInvariant, PTL DEF Spec

(* The ceiling is never passed, however many begin at once: they count and *)
(* insert under the owner's lock, and what else happens closes sessions.   *)
THEOREM CeilingHolds == Spec => []SessionCeiling
<1>1. Init => CeilingInv
  <2>1. Init => OpenSessions = {}
    BY DEF Init, OpenSessions, Open
  <2> QED
    BY <2>1, FS_EmptySet, SizeAssumption DEF Init, CeilingInv, SessionCeiling, OpenSessions
<1>2. CeilingInv => SessionCeiling
  BY DEF CeilingInv
<1> QED
  BY <1>1, <1>2, CeilingStep, StagingInvariant, PTL DEF Spec

-----------------------------------------------------------------------------
(* UploadSession implements UploadPromise for any number of sessions and   *)
(* requests, any size and any clock: every step of a request, of the sweep *)
(* or of the clock is one step of the promise or none.                     *)

(* The abstract state, by name.                                            *)
Phases == [s \in Sessions |-> Phase(s)]
Appending == [r \in Requests |->
                 IF pc[r] \in {"looked", "claimed"} THEN session[r] ELSE None]
StaleOnes == {r \in Requests : Stale(r)}
Finishing == [r \in Requests |->
                 IF pc[r] \in {"opening", "reading"} THEN session[r] ELSE None]

(* Sessions that have no row yet.                                          *)
Creating == {r \in Requests : pc[r] = "created"}
Unborn == fresh \cup {session[r] : r \in Creating}

(* The phase of a session, by what is left of it.                          *)
LEMMA PhaseByUnborn ==
    ASSUME NEW s \in Sessions
    PROVE  Phase(s) = IF s \in uploads THEN "open"
                      ELSE IF s \in Unborn THEN "new" ELSE "closed"
BY DEF Phase, Unborn, Creating

(* A step that opens, begins and closes no session leaves every phase.     *)
LEMMA PhasesKept ==
    ASSUME UNCHANGED <<uploads, fresh>>, Creating' = Creating,
           \A r \in Creating : session'[r] = session[r]
    PROVE  Phases' = Phases
<1>1. Unborn' = Unborn
  BY DEF Unborn
<1>2. \A s \in Sessions : Phase(s)' = Phase(s)
  BY <1>1 DEF Phase, Creating
<1> QED
  BY <1>2 DEF Phases

(* A step that changes nothing a client is promised.                       *)
LEMMA Unseen ==
    ASSUME UNCHANGED <<received, good, overtaken, nodes>>, Phases' = Phases,
           Appending' = Appending, StaleOnes' = StaleOnes, Finishing' = Finishing
    PROVE  UNCHANGED Promise!vars
BY DEF Promise!vars, Phases, Appending, StaleOnes, Finishing

(* A step of one request moves only this request between the abstract      *)
(* states, unless the row changes under the others.                        *)
OnlyMoves(r) == \A q \in Requests \ {r} :
    pc'[q] = pc[q] /\ session'[q] = session[q] /\ cursor'[q] = cursor[q]

LEMMA OneMoves ==
    ASSUME NEW r \in Requests, OnlyMoves(r)
    PROVE  /\ Appending' = [Appending EXCEPT ![r] = Appending'[r]]
           /\ Finishing' = [Finishing EXCEPT ![r] = Finishing'[r]]
BY DEF OnlyMoves, Appending, Finishing

LEMMA OneIsStale ==
    ASSUME NEW r \in Requests, OnlyMoves(r), UNCHANGED <<uploads, received>>,
           \A s \in Sessions, q \in Requests \ {r} : writer'[s] = q <=> writer[s] = q,
           uploads \subseteq Sessions
    PROVE  /\ \A q \in Requests \ {r} : Stale(q)' <=> Stale(q)
           /\ StaleOnes' = IF Stale(r)' THEN StaleOnes \cup {r} ELSE StaleOnes \ {r}
<1>1. \A q \in Requests \ {r} : Stale(q)' <=> Stale(q)
  BY DEF OnlyMoves, Stale, Current, Holds
<1> QED
  BY <1>1 DEF StaleOnes

(* A request that is neither told an offset nor beginning nor finishing    *)
(* before and after its step, and leaves row, bytes and nodes alone.       *)
LEMMA UnseenRequest ==
    ASSUME TypeOK, NEW r \in Requests, OnlyMoves(r),
           UNCHANGED <<fresh, uploads, received, writer, good, overtaken, nodes>>,
           pc[r] # "created", pc'[r] # "created",
           pc[r] \notin {"looked", "claimed"} /\ pc'[r] \notin {"looked", "claimed"},
           \/ /\ pc[r] \in {"opening", "reading"} /\ pc'[r] \in {"opening", "reading"}
              /\ session'[r] = session[r]
           \/ pc[r] \notin {"opening", "reading"} /\ pc'[r] \notin {"opening", "reading"}
    PROVE  UNCHANGED Promise!vars
<1>1. Creating' = Creating /\ \A q \in Creating : session'[q] = session[q]
  BY DEF Creating, OnlyMoves
<1>2. Phases' = Phases
  BY <1>1, PhasesKept
<1>3. Finishing' = Finishing /\ Appending' = Appending
  BY DEF Finishing, Appending, OnlyMoves
<1>4. StaleOnes' = StaleOnes
  BY OneIsStale DEF TypeOK, StaleOnes, Stale
<1> QED
  BY <1>2, <1>3, <1>4, Unseen

(* A request stops, by itself, refused or by dying, and gives up no claim  *)
(* but its own.                                                            *)
LEMMA GivingUpRefines ==
    ASSUME UploadInv, NEW r \in Requests, Finish(r),
           UNCHANGED <<fresh, uploads, received, good, overtaken, nodes>>,
           ReleaseClaim(r) \/ UNCHANGED writer
    PROVE  [Promise!Next]_(Promise!vars)
<1> USE DEF UploadInv
<1>1. OnlyMoves(r) /\ pc'[r] = "idle"
  BY DEF OnlyMoves, Finish, TypeOK
<1>2. \A s \in Sessions, q \in Requests \ {r} : writer'[s] = q <=> writer[s] = q
  BY NamesAssumption DEF ReleaseClaim, Holds, TypeOK
<1>3. StaleOnes' = StaleOnes \ {r}
  BY <1>1, <1>2, OneIsStale DEF TypeOK, Stale
<1>4. Appending' = [Appending EXCEPT ![r] = None]
  BY <1>1, OneMoves DEF Appending
<1>5. Finishing' = [Finishing EXCEPT ![r] = None]
  BY <1>1, OneMoves DEF Finishing
<1>6. CASE pc[r] = "created"
  <2>1. PICK s \in Sessions : s = session[r]
    BY <1>6 DEF TypeOK
  <2>2. Phase(s) = "new" /\ Phase(s)' = "closed"
    BY <1>1, <1>6, <2>1, NamesAssumption DEF Phase, RowsAreFresh, OnlyMoves
  <2>3. \A t \in Sessions \ {s} : Phase(t)' = Phase(t)
    BY <1>1, <1>6, <2>1 DEF Phase, OnlyMoves
  <2>4. StaleOnes' = StaleOnes /\ Appending' = Appending /\ Finishing' = Finishing
    BY <1>3, <1>4, <1>5, <1>6 DEF StaleOnes, Stale, Appending, Finishing
  <2>5. Promise!NeverBegun(s)
    BY <2>2, <2>3, <2>4
    DEF Promise!NeverBegun, Promise!turnVars, Phases, Appending, StaleOnes, Finishing
  <2> QED
    BY <2>5 DEF Promise!Next
<1>7. CASE pc[r] # "created"
  <2>1. Creating' = Creating /\ \A q \in Creating : session'[q] = session[q]
    BY <1>1, <1>7 DEF Creating, OnlyMoves
  <2>2. Phases' = Phases
    BY <2>1, PhasesKept
  <2>3. CASE pc[r] \in {"opening", "reading"}
    <3>1. StaleOnes' = StaleOnes /\ Appending' = Appending
      BY <1>3, <1>4, <2>3 DEF StaleOnes, Stale, Appending
    <3>2. Promise!GiveUp(r)
      BY <2>2, <3>1, <1>5
      DEF Promise!GiveUp, Promise!turnVars, Phases, Appending, StaleOnes, Finishing
    <3> QED
      BY <3>2 DEF Promise!Next
  <2>4. CASE pc[r] \notin {"opening", "reading"}
    <3>1. Finishing' = Finishing
      BY <1>5, <2>4 DEF Finishing
    <3>2. Promise!Withdraw(r)
      BY <2>2, <3>1, <1>3, <1>4
      DEF Promise!Withdraw, Phases, Appending, StaleOnes, Finishing
    <3> QED
      BY <3>2 DEF Promise!Next
  <2> QED
    BY <2>3, <2>4
<1> QED
  BY <1>6, <1>7

-----------------------------------------------------------------------------
(* begin *)
LEMMA BeginRefines ==
    ASSUME UploadInv, TypeOK', NEW r \in Requests, BeginStep(r)
    PROVE  [Promise!Next]_(Promise!vars)
<1> USE DEF UploadInv, rowVars, fileVars
<1>1. CASE Count(r)
  BY <1>1, UnseenRequest DEF Count, OnlyMoves, TypeOK
<1>2. ASSUME NEW s \in Sessions, CreateFile(r, s) PROVE UNCHANGED Promise!vars
  <2>0. OnlyMoves(r) /\ pc[r] = "counted" /\ pc'[r] = "created" /\ session'[r] = s
    BY <1>2 DEF CreateFile, OnlyMoves, TypeOK
  <2>1. Creating' = Creating \cup {r} /\ r \notin Creating
    BY <2>0 DEF Creating, OnlyMoves
  <2>2. Unborn' = Unborn
    BY <1>2, <2>0, <2>1 DEF CreateFile, Unborn, Creating, OnlyMoves
  <2>3. Phases' = Phases
    <3>1. uploads' = uploads
      BY <1>2 DEF CreateFile
    <3>2. \A t \in Sessions : Phase(t)' = Phase(t)
      BY <3>1, <2>2 DEF Phase, Unborn, Creating
    <3> QED
      BY <3>2 DEF Phases
  <2>4. Finishing' = Finishing /\ Appending' = Appending
    BY <2>0 DEF Finishing, Appending, OnlyMoves
  <2>5. StaleOnes' = StaleOnes
    BY <1>2, <2>0, OneIsStale DEF CreateFile, TypeOK, StaleOnes, Stale
  <2> QED
    BY <1>2, <2>3, <2>4, <2>5, Unseen DEF CreateFile
<1>3. ASSUME InsertRow(r) PROVE Promise!Next
  <2>1. PICK s \in Sessions : s = session[r]
    BY <1>3 DEF InsertRow, TypeOK
  <2>0. /\ OnlyMoves(r) /\ pc[r] = "created" /\ pc'[r] = "idle"
        /\ uploads' = uploads \cup {s} /\ s \notin uploads
        /\ UNCHANGED <<fresh, received, writer, good, overtaken, nodes>>
        /\ \A q \in Requests \ {r} : session[q] # s
    BY <1>3, <2>1 DEF InsertRow, Finish, OnlyMoves, TypeOK, RowsAreFresh
  <2>2. Phase(s) = "new" /\ Phase(s)' = "open"
    BY <2>0, <2>1 DEF Phase
  <2>3. \A t \in Sessions \ {s} : Phase(t)' = Phase(t)
    BY <2>0, <2>1 DEF Phase, OnlyMoves
  <2>4. Finishing' = Finishing /\ Appending' = Appending
    BY <2>0 DEF Finishing, Appending, OnlyMoves
  <2>5. StaleOnes' = StaleOnes
    <3>1. \A q \in Requests : Stale(q)' <=> Stale(q)
      BY <2>0 DEF Stale, Current, Holds, OnlyMoves
    <3> QED
      BY <3>1 DEF StaleOnes
  <2>6. Promise!Begin(s)
    BY <2>0, <2>2, <2>3, <2>4, <2>5
    DEF Promise!Begin, Promise!turnVars, Phases, Appending, StaleOnes, Finishing
  <2> QED
    BY <2>6 DEF Promise!Next
<1> QED
  BY <1>1, <1>2, <1>3 DEF BeginStep

(* DELETE FROM uploads closes the sessions that were open, and moves them  *)
(* on under every request that was told where they are.                    *)
LEMMA DeletingRefines ==
    ASSUME UploadInv, TypeOK', NEW S \in SUBSET Sessions, DeleteRows(S),
           UNCHANGED <<fresh, good, overtaken, nodes, session, cursor>>,
           \A q \in Requests : \/ pc'[q] = pc[q]
                               \/ pc[q] \in {"writing", "dropping"} /\ pc'[q] = "discarding"
    PROVE  [Promise!Next]_(Promise!vars)
<1> USE DEF UploadInv
<1> DEFINE T == S \cap uploads
<1>a. Creating' = Creating
  BY DEF Creating
<1>b. Appending' = Appending /\ Finishing' = Finishing
  BY DEF Appending, Finishing
<1>0. Unborn' = Unborn
  BY <1>a DEF Unborn
<1>1. \A s \in T : Phase(s) = "open" /\ Phase(s)' = "closed"
  BY <1>0, PhaseByUnborn DEF DeleteRows, Phase, Unborn, Creating, RowsAreFresh, TypeOK
<1>2. \A s \in Sessions \ T : Phase(s)' = Phase(s)
  BY <1>0 DEF DeleteRows, Phase, Unborn, Creating
<1>3. \A s \in Sessions : received'[s] = IF s \in T THEN 0 ELSE received[s]
  BY DEF DeleteRows, RowsAreFresh, TypeOK
<1>4. received' = [s \in Sessions |-> IF s \in T THEN 0 ELSE received[s]]
  BY <1>3 DEF DeleteRows
<1>5. ASSUME NEW q \in Requests, Stale(q)', session[q] \notin T PROVE Stale(q)
  <2>1. pc[q] = pc'[q] /\ pc[q] \in {"looked", "claimed"} /\ session[q] \in Sessions
    BY <1>5 DEF Stale, TypeOK
  <2>2. /\ received'[session[q]] = received[session[q]]
        /\ session[q] \in uploads' <=> session[q] \in uploads
    BY <1>3, <1>5, <2>1 DEF DeleteRows
  <2>3. session[q] \in uploads => writer'[session[q]] = writer[session[q]]
    BY <1>5, <2>1 DEF DeleteRows
  <2> QED
    BY <1>5, <2>1, <2>2, <2>3 DEF Stale, Current, Holds
<1>6. StaleOnes' \subseteq StaleOnes \cup {q \in Requests : Appending[q] \in T}
  BY <1>5 DEF StaleOnes, Appending, Stale
<1>7. Promise!Close(T)
  BY <1>1, <1>2, <1>4, <1>6, <1>b
  DEF Promise!Close, Promise!MovedOn, Phases, Appending, StaleOnes, Finishing
<1>8. T \in SUBSET Sessions
  BY DEF TypeOK
<1> QED
  BY <1>7, <1>8 DEF Promise!Next

(* What of a staged file is left or added still has what its session says  *)
(* it received.                                                            *)
LEMMA StillFilled ==
    ASSUME UploadInv, UploadInv', NEW s \in Sessions,
           UNCHANGED <<uploads, received>>, \E b : good' = [good EXCEPT ![s] = b]
    PROVE  \E b \in SUBSET Promise!Below(Size) :
              /\ Phases[s] = "open" /\ s \notin overtaken' => Promise!Below(received[s]) \subseteq b
              /\ good' = [good EXCEPT ![s] = b]
<1> USE DEF UploadInv
<1>1. good' = [good EXCEPT ![s] = good'[s]] /\ good'[s] \in SUBSET Positions
  BY DEF TypeOK
<1>2. Phases[s] = "open" /\ s \notin overtaken' => 0 .. (received[s] - 1) \subseteq good'[s]
  <2>1. Phases[s] = "open" => s \in uploads'
    BY DEF Phase, Phases
  <2>2. received[s] \in 0 .. Size /\ received' = received
    BY DEF TypeOK
  <2> QED
    BY <2>1, <2>2, SizeAssumption DEF ReceivedIsThere, Positions
<1> QED
  BY <1>1, <1>2 DEF Promise!Below, Positions

(* append *)
LEMMA AppendRefines ==
    ASSUME UploadInv, UploadInv', NEW r \in Requests, AppendStep(r)
    PROVE  [Promise!Next]_(Promise!vars)
<1> USE NamesAssumption DEF UploadInv, rowVars, fileVars
<1> DEFINE u == session[r]
<1>0. /\ TypeOK /\ uploads \subseteq Sessions
      /\ pc[r] \notin {"idle", "counted"} => u \in Sessions /\ u # None
  BY DEF TypeOK
<1>1. ASSUME NEW s \in Sessions, Look(r, s) PROVE Promise!Next
  <2>0. /\ OnlyMoves(r) /\ pc[r] = "idle" /\ pc'[r] = "looked"
        /\ session'[r] = s /\ cursor'[r] = received[s] /\ s \in uploads
        /\ UNCHANGED <<fresh, uploads, received, writer, good, overtaken, nodes>>
    BY <1>0, <1>1 DEF Look, Open, OnlyMoves, TypeOK
  <2>1. Creating' = Creating /\ \A q \in Creating : session'[q] = session[q]
    BY <2>0 DEF Creating, OnlyMoves
  <2>2. Phases' = Phases
    BY <2>0, <2>1, PhasesKept
  <2>3. Appending' = [Appending EXCEPT ![r] = s] /\ Finishing' = Finishing
    BY <2>0, OneMoves DEF Appending, Finishing, OnlyMoves
  <2>4. StaleOnes' = StaleOnes /\ r \notin StaleOnes
    BY <1>0, <2>0, OneIsStale DEF Stale, StaleOnes
  <2>5. Promise!Ask(r, s)
    BY <2>0, <2>2, <2>3, <2>4
    DEF Promise!Ask, Phases, Phase, Appending, StaleOnes, Finishing
  <2> QED
    BY <2>5 DEF Promise!Next
<1>2. CASE Claim(r)
  <2>0. /\ OnlyMoves(r) /\ pc[r] = "looked" /\ pc'[r] = "claimed"
        /\ session' = session /\ cursor' = cursor
        /\ writer' = [writer EXCEPT ![u] = r] /\ u \in uploads
        /\ UNCHANGED <<fresh, uploads, received, good, overtaken, nodes>>
    BY <1>0, <1>2 DEF Claim, Claimable, OnlyMoves, TypeOK
  <2>1. Creating' = Creating /\ \A q \in Creating : session'[q] = session[q]
    BY <2>0 DEF Creating, OnlyMoves
  <2>2. Phases' = Phases
    BY <2>0, <2>1, PhasesKept
  <2>3. Appending' = Appending /\ Finishing' = Finishing
    BY <2>0 DEF Appending, Finishing, OnlyMoves
  <2>4. writer'[u] = r /\ \A s \in Sessions \ {u} : writer'[s] = writer[s]
    BY <1>0, <2>0 DEF TypeOK
  <2>5. Stale(r)' => Stale(r)
    BY <2>0, <2>4 DEF Stale, Current, Holds
  <2>6. ASSUME NEW q \in Requests \ {r}, session[q] # u, Stale(q)' PROVE Stale(q)
    BY <1>0, <2>0, <2>4, <2>6 DEF Stale, Current, Holds, OnlyMoves
  <2>7. StaleOnes' \subseteq StaleOnes \cup {q \in Requests : Appending[q] \in {u}}
    BY <2>0, <2>5, <2>6 DEF StaleOnes, Appending, Stale, OnlyMoves
  <2>8. Promise!TakeTurn(r)
    <3>1. Appending[r] = u /\ u # None
      BY <1>0, <2>0 DEF Appending
    <3>2. r \in StaleOnes' => r \in StaleOnes
      BY <2>5 DEF StaleOnes
    <3> QED
      BY <2>0, <2>2, <2>3, <2>7, <3>1, <3>2
      DEF Promise!TakeTurn, Promise!MovedOn, Phases, Appending, StaleOnes, Finishing
  <2> QED
    BY <2>8 DEF Promise!Next
<1>3. CASE ClaimRefused(r)
  BY <1>3, GivingUpRefines DEF ClaimRefused
<1>4. CASE CutBack(r)
  <2>0. /\ OnlyMoves(r) /\ pc[r] = "claimed" /\ pc'[r] = "writing" /\ session' = session
        /\ \E b : good' = [good EXCEPT ![u] = b]
        /\ overtaken' = IF Current(r) THEN overtaken ELSE overtaken \cup {u}
        /\ UNCHANGED <<fresh, uploads, received, writer, nodes>>
    BY <1>0, <1>4 DEF CutBack, OnlyMoves, TypeOK
  <2>1. Creating' = Creating /\ \A q \in Creating : session'[q] = session[q]
    BY <2>0 DEF Creating, OnlyMoves
  <2>2. Phases' = Phases
    BY <2>0, <2>1, PhasesKept
  <2>3. Appending' = [Appending EXCEPT ![r] = None] /\ Finishing' = Finishing
    BY <2>0, OneMoves DEF Appending, Finishing, OnlyMoves
  <2>4. StaleOnes' = StaleOnes \ {r} /\ (r \in StaleOnes <=> ~Current(r))
    BY <1>0, <2>0, OneIsStale DEF Stale, StaleOnes
  <2>5. /\ Appending[r] = u
        /\ overtaken' = IF r \in StaleOnes THEN overtaken \cup {u} ELSE overtaken
    BY <2>0, <2>4 DEF Appending
  <2>6. Promise!Filled(u)
    BY <1>0, <2>0, StillFilled DEF Promise!Filled, Phases
  <2>7. Promise!Write(r, u)
    BY <2>0, <2>2, <2>3, <2>4, <2>5, <2>6
    DEF Promise!Write, Phases, Appending, StaleOnes, Finishing
  <2>8. u \in Sessions
    BY <1>0, <2>0
  <2>9. PICK s \in Sessions : s = u
    BY <2>8
  <2>10. Promise!Write(r, s)
    BY <2>7, <2>9 DEF Promise!Write, Promise!Filled
  <2> QED
    BY <2>9, <2>10 DEF Promise!Next
<1>5. CASE AppendFails(r)
  BY <1>5, GivingUpRefines DEF AppendFails
<1>6. CASE Write(r)
  <2>0. /\ OnlyMoves(r) /\ pc[r] = "writing" /\ pc' = pc /\ session' = session
        /\ \E b : good' = [good EXCEPT ![u] = b]
        /\ UNCHANGED <<fresh, uploads, received, writer, overtaken, nodes>>
    BY <1>0, <1>6 DEF Write, OnlyMoves, TypeOK
  <2>1. Creating' = Creating /\ \A q \in Creating : session'[q] = session[q]
    BY <2>0 DEF Creating
  <2>2. Phases' = Phases
    BY <2>0, <2>1, PhasesKept
  <2>3. Appending' = Appending /\ Finishing' = Finishing
    BY <2>0 DEF Appending, Finishing
  <2>4. StaleOnes' = StaleOnes
    BY <1>0, <2>0, OneIsStale DEF Stale, StaleOnes
  <2>5. Promise!Filled(u)
    BY <1>0, <2>0, StillFilled DEF Promise!Filled, Phases
  <2>6. Promise!Fill(u)
    BY <2>0, <2>2, <2>3, <2>4, <2>5
    DEF Promise!Fill, Promise!turnVars, Phases, Appending, StaleOnes, Finishing
  <2> QED
    BY <1>0, <2>0, <2>6 DEF Promise!Next
<1>7. CASE Overflow(r)
  <2>1. CASE Holds(r)
    <3>1. \A q \in Requests : \/ pc'[q] = pc[q]
                              \/ pc[q] \in {"writing", "dropping"} /\ pc'[q] = "discarding"
      BY <1>0, <1>7, <2>1 DEF Overflow, Goto, TypeOK
    <3>2. {u} \in SUBSET Sessions
      BY <1>0, <2>1 DEF Holds
    <3> QED
      BY <1>7, <2>1, <3>1, <3>2, DeletingRefines DEF Overflow, Goto
  <2>2. CASE ~Holds(r)
    BY <1>7, <2>2, GivingUpRefines DEF Overflow
  <2> QED
    BY <2>1, <2>2
<1>8. CASE Drain(r)
  BY <1>0, <1>8, UnseenRequest DEF Drain, Goto, OnlyMoves, TypeOK
<1>9. CASE Record(r)
  <2>1. CASE Holds(r)
    <3>0. /\ OnlyMoves(r) /\ pc[r] = "drained" /\ pc'[r] = "idle"
          /\ received' = [received EXCEPT ![u] = cursor[r]]
          /\ writer' = [writer EXCEPT ![u] = None]
          /\ u \in uploads /\ u \in Sessions /\ writer[u] = r
          /\ UNCHANGED <<fresh, uploads, good, overtaken, nodes>>
      BY <1>0, <1>9, <2>1 DEF Record, ReleaseClaim, Holds, Finish, OnlyMoves, TypeOK
    <3>1. cursor[r] \in 0 .. Size /\ received[u] \in 0 .. Size
      BY <1>0, <3>0 DEF TypeOK
    <3>2. u \notin overtaken =>
             cursor[r] >= received[u] /\ 0 .. (cursor[r] - 1) \subseteq good[u]
      BY <2>1, <3>0, <3>1, SizeAssumption DEF HolderHasWritten, Positions
    <3>3. Creating' = Creating /\ \A q \in Creating : session'[q] = session[q]
      BY <3>0 DEF Creating, OnlyMoves
    <3>4. Phases' = Phases
      BY <3>0, <3>3, PhasesKept
    <3>5. Appending' = Appending /\ Finishing' = Finishing
      BY <3>0 DEF Appending, Finishing, OnlyMoves
    <3>6. ASSUME NEW q \in Requests, Stale(q)', session[q] # u PROVE Stale(q)
      <4>1. q # r /\ pc'[q] = pc[q] /\ session'[q] = session[q] /\ cursor'[q] = cursor[q]
        BY <3>0, <3>6 DEF Stale, OnlyMoves
      <4>2. pc[q] \in {"looked", "claimed"} /\ session[q] \in Sessions
        BY <1>0, <3>6, <4>1 DEF Stale, TypeOK
      <4>3. received'[session[q]] = received[session[q]] /\ writer'[session[q]] = writer[session[q]]
        BY <1>0, <3>0, <3>6, <4>2 DEF TypeOK
      <4> QED
        BY <3>0, <3>6, <4>1, <4>3 DEF Stale, Current, Holds
    <3>7. StaleOnes' \subseteq StaleOnes \cup {q \in Requests : Appending[q] \in {u}}
      <4>1. ASSUME NEW q \in Requests, Stale(q)' PROVE q # r /\ pc[q] \in {"looked", "claimed"}
        BY <3>0, <4>1 DEF Stale, OnlyMoves
      <4> QED
        BY <3>6, <4>1 DEF StaleOnes, Appending
    <3>8. Promise!Acknowledge(u)
      <4>1. Phases[u] = "open"
        BY <3>0 DEF Phases, Phase
      <4> QED
        BY <3>0, <3>1, <3>2, <3>4, <3>5, <3>7, <4>1
        DEF Promise!Acknowledge, Promise!Below, Promise!MovedOn, Phases, Appending,
            StaleOnes, Finishing
    <3> QED
      BY <3>0, <3>8 DEF Promise!Next
  <2>2. CASE ~Holds(r)
    BY <1>9, <2>2, GivingUpRefines DEF Record
  <2> QED
    BY <2>1, <2>2
<1>10. CASE Renew(r)
  <2>1. CASE Holds(r)
    <3>1. UNCHANGED <<fresh, uploads, received, writer, good, overtaken, nodes, pc, session, cursor>>
      BY <1>10, <2>1 DEF Renew
    <3>2. Creating' = Creating /\ Appending' = Appending /\ Finishing' = Finishing
      BY <3>1 DEF Creating, Appending, Finishing
    <3>3. StaleOnes' = StaleOnes
      BY <3>1 DEF StaleOnes, Stale, Current, Holds
    <3> QED
      BY <3>1, <3>2, <3>3, PhasesKept, Unseen
  <2>2. CASE ~Holds(r)
    BY <1>10, <2>2, GivingUpRefines DEF Renew
  <2> QED
    BY <2>1, <2>2
<1> QED
  BY <1>1, <1>2, <1>3, <1>4, <1>5, <1>6, <1>7, <1>8, <1>9, <1>10 DEF AppendStep

(* finish and abandon *)
LEMMA FinishRefines ==
    ASSUME UploadInv, UploadInv', NEW r \in Requests, FinishStep(r)
    PROVE  [Promise!Next]_(Promise!vars)
<1> USE NamesAssumption DEF UploadInv, rowVars, fileVars
<1> DEFINE u == session[r]
<1>0. /\ TypeOK /\ uploads \subseteq Sessions
      /\ pc[r] \notin {"idle", "counted"} => u \in Sessions /\ u # None
  BY DEF TypeOK
<1>1. ASSUME NEW s \in Sessions, FinishLook(r, s) PROVE Promise!Next
  <2>0. /\ OnlyMoves(r) /\ pc[r] = "idle" /\ pc'[r] = "opening"
        /\ session'[r] = s /\ s \in uploads /\ received[s] = Size
        /\ UNCHANGED <<fresh, uploads, received, writer, good, overtaken, nodes>>
    BY <1>0, <1>1 DEF FinishLook, Open, OnlyMoves, TypeOK
  <2>1. Creating' = Creating /\ \A q \in Creating : session'[q] = session[q]
    BY <2>0 DEF Creating, OnlyMoves
  <2>2. Phases' = Phases
    BY <2>0, <2>1, PhasesKept
  <2>3. Finishing' = [Finishing EXCEPT ![r] = s] /\ Appending' = Appending
    BY <2>0, OneMoves DEF Appending, Finishing, OnlyMoves
  <2>4. StaleOnes' = StaleOnes
    BY <1>0, <2>0, OneIsStale DEF Stale, StaleOnes
  <2>5. Promise!Finish(r, s)
    BY <2>0, <2>2, <2>3, <2>4
    DEF Promise!Finish, Promise!turnVars, Phases, Phase, Appending, StaleOnes, Finishing
  <2> QED
    BY <2>5 DEF Promise!Next
<1>2. ASSUME NEW s \in Sessions, AbandonLook(r, s) PROVE UNCHANGED Promise!vars
  BY <1>0, <1>2, UnseenRequest DEF AbandonLook, OnlyMoves, TypeOK
<1>3. CASE OpenStaged(r)
  <2>1. CASE u \in linked
    BY <1>0, <1>3, <2>1, UnseenRequest DEF OpenStaged, Goto, OnlyMoves, TypeOK
  <2>2. CASE u \notin linked
    BY <1>3, <2>2, GivingUpRefines DEF OpenStaged
  <2> QED
    BY <2>1, <2>2
<1>4. CASE Read(r)
  BY <1>0, <1>4, UnseenRequest DEF Read, OnlyMoves, TypeOK
<1>5. CASE PutFile(r)
  <2> DEFINE f == [session |-> u, size |-> cursor[r], good |-> got[r]]
  <2>0. /\ OnlyMoves(r) /\ pc[r] = "reading" /\ pc'[r] = "dropping"
        /\ cursor[r] >= length[u] /\ nodes' = nodes \cup {f}
        /\ UNCHANGED <<fresh, uploads, received, writer, good, overtaken>>
    BY <1>0, <1>5 DEF PutFile, Goto, OnlyMoves, TypeOK
  <2>1. Creating' = Creating /\ \A q \in Creating : session'[q] = session[q]
    BY <2>0 DEF Creating, OnlyMoves
  <2>2. Phases' = Phases
    BY <2>0, <2>1, PhasesKept
  <2>3. /\ Finishing[r] = u /\ Finishing' = [Finishing EXCEPT ![r] = None]
        /\ Appending' = Appending
    BY <2>0, OneMoves DEF Appending, Finishing, OnlyMoves
  <2>4. StaleOnes' = StaleOnes
    BY <1>0, <2>0, OneIsStale DEF Stale, StaleOnes
  <2>5. u \in Sessions /\ cursor[r] \in 0 .. Size /\ got[r] \in SUBSET Positions
    BY <1>0, <2>0 DEF TypeOK
  <2>6. u \notin overtaken => f = Promise!Whole(u)
    <3> SUFFICES ASSUME u \notin overtaken PROVE f = Promise!Whole(u)
      OBVIOUS
    <3>1. got[r] = {p \in Positions : p < cursor[r]} /\ length[u] = Size
      BY <2>0 DEF ReadersSeeItAll, Complete
    <3>2. cursor[r] = Size
      BY <2>0, <2>5, <3>1, SizeAssumption
    <3>3. {p \in 0 .. (Size - 1) : p < Size} = 0 .. (Size - 1)
      BY SizeAssumption
    <3>4. got[r] = 0 .. (Size - 1)
      BY <3>1, <3>2, <3>3 DEF Positions
    <3> QED
      BY <3>2, <3>4 DEF Promise!Whole, Promise!Below
  <2>7. f \in Promise!Files(u)
    BY <2>5 DEF Promise!Files, Promise!Below, Positions
  <2>8. Promise!Store(r, u)
    BY <2>0, <2>2, <2>3, <2>4, <2>6, <2>7
    DEF Promise!Store, Promise!turnVars, Phases, Appending, StaleOnes, Finishing
  <2>9. PICK s \in Sessions : s = u
    BY <2>5
  <2>10. Promise!Store(r, s)
    BY <2>8, <2>9 DEF Promise!Store
  <2> QED
    BY <2>9, <2>10 DEF Promise!Next
<1>6. CASE PutRefused(r)
  BY <1>6, GivingUpRefines DEF PutRefused
<1>7. CASE DropSession(r)
  <2>1. \A q \in Requests : \/ pc'[q] = pc[q]
                            \/ pc[q] \in {"writing", "dropping"} /\ pc'[q] = "discarding"
    BY <1>0, <1>7 DEF DropSession, Goto, TypeOK
  <2>2. {u} \in SUBSET Sessions
    BY <1>0, <1>7 DEF DropSession
  <2> QED
    BY <1>7, <2>1, <2>2, DeletingRefines DEF DropSession, Goto
<1>8. CASE Discard(r)
  BY <1>8, GivingUpRefines DEF Discard
<1> QED
  BY <1>1, <1>2, <1>3, <1>4, <1>5, <1>6, <1>7, <1>8 DEF FinishStep

(* Every step is one that the promise allows, or none a client sees.       *)
LEMMA StepRefines ==
    ASSUME UploadInv, UploadInv', [Next]_vars
    PROVE  [Promise!Next]_(Promise!vars)
<1> USE DEF UploadInv, rowVars, fileVars, reqVars
<1>1. ASSUME NEW r \in Requests, Die(r) PROVE [Promise!Next]_(Promise!vars)
  BY <1>1, GivingUpRefines DEF Die
<1>2. CASE PurgeExpired
  <2>1. {s \in uploads : expires_at[s] <= now} \in SUBSET Sessions
    BY DEF TypeOK
  <2> QED
    BY <1>2, <2>1, DeletingRefines DEF PurgeExpired
<1>3. CASE ListLive \/ EndSweep \/ (\E s \in Sessions : SweepFile(s)) \/ Tick \/ UNCHANGED vars
  <2>1. UNCHANGED <<fresh, uploads, received, writer, good, overtaken, nodes, pc,
                    session, cursor>>
    BY <1>3 DEF ListLive, EndSweep, SweepFile, Tick, vars
  <2>2. Creating' = Creating /\ Appending' = Appending /\ Finishing' = Finishing
    BY <2>1 DEF Creating, Appending, Finishing
  <2>3. StaleOnes' = StaleOnes
    BY <2>1 DEF StaleOnes, Stale, Current, Holds
  <2> QED
    BY <2>1, <2>2, <2>3, PhasesKept, Unseen
<1> QED
  BY <1>1, <1>2, <1>3, BeginRefines, AppendRefines, FinishRefines DEF Next, SweepStep

(* What the claims, the clock and the staged files are for: whatever dies, *)
(* oversleeps or stalls wherever it stands, every behaviour of the         *)
(* handlers and the sweep is one that UploadPromise allows                 *)
(* (uploads::append, claim, write_at, routes::uploads::finish).            *)
THEOREM UploadsKeepThePromise == Spec => KeepsThePromise
<1>1. Init => Promise!Init
  BY DEF Init, Promise!Init, Phase, Stale
<1>2. UploadInv /\ UploadInv' /\ [Next]_vars => [Promise!Next]_(Promise!vars)
  BY StepRefines
<1> QED
  BY <1>1, <1>2, UploadInvariant, PTL DEF Spec, KeepsThePromise, Promise!Spec

=============================================================================
