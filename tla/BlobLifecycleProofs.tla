------------------------- MODULE BlobLifecycleProofs -------------------------
(***************************************************************************)
(* What BlobLifecycle promises for every set of hashes, slots, requests    *)
(* and sweepers: the rows count no more than their holders, and all of     *)
(* them unless a raise was missed, a sweep takes nothing that is held,     *)
(* and, on the local store, a 201 means the bytes are there.               *)
(***************************************************************************)
EXTENDS BlobLifecycle, FiniteSetTheorems, TLAPS

(* Every variable keeps its type, whatever fails in between.               *)
LEMMA TypeStep == TypeOK /\ [Next]_vars => TypeOK'
<1> SUFFICES ASSUME TypeOK, [Next]_vars PROVE TypeOK'
  OBVIOUS
<1> USE HashesAssumption, SlotsAssumption, TimeAssumption
    DEF TypeOK, Active, RequestStates, SweepStates, rowVars, storeVars,
        treeVars, reqVars, sweepVars, vars
<1>1. ASSUME NEW r \in Requests, RequestStep(r) PROVE TypeOK'
  <2>1. ASSUME NEW h \in Hashes, NEW s \in Slots, Stage(r, h, s) PROVE TypeOK'
    BY <2>1 DEF Stage
  <2>2. CASE Adopt(r)
    BY <2>2 DEF Adopt
  <2>3. CASE Miss(r)
    BY <2>3 DEF Miss
  <2>4. CASE Place(r)
    BY <2>4 DEF Place
  <2>5. CASE PlaceFails(r)
    BY <2>5 DEF PlaceFails, Finish
  <2>6. CASE Register(r)
    BY <2>6 DEF Register
  <2>7. CASE Ensure(r)
    BY <2>7 DEF Ensure
  <2>13. CASE Acquire(r)
    BY <2>13 DEF Acquire
  <2>8. CASE Commit(r)
    <3>1. /\ ref_count' \in [Hashes -> Nat]
          /\ unreferenced_since' \in [Hashes -> Nat]
      BY <2>8 DEF Commit, AcquiredAndReleased, StampUnreferenced
    <3>2. hash[r] \in Hashes /\ into[r] \in Slots
      BY <2>8 DEF Commit
    <3> QED
      BY <2>8, <3>1, <3>2 DEF Commit
  <2>9. CASE ForeignKeyRefuses(r)
    BY <2>9 DEF ForeignKeyRefuses, Finish
  <2>10. CASE Settle(r)
    BY <2>10 DEF Settle, Finish
  <2>11. CASE Abandon(r)
    BY <2>11 DEF Abandon, Finish
  <2>12. CASE SweepStaged(r)
    BY <2>12 DEF SweepStaged
  <2> QED
    BY <1>1, <2>1, <2>2, <2>3, <2>4, <2>5, <2>6, <2>7, <2>8, <2>9, <2>10,
       <2>11, <2>12, <2>13 DEF RequestStep
<1>2. ASSUME NEW k \in Sweepers, SweepStep(k) PROVE TypeOK'
  <2>1. ASSUME NEW h \in Hashes, Claim(k, h) PROVE TypeOK'
    BY <2>1 DEF Claim
  <2>2. CASE Spare(k) \/ RemoveFails(k) \/ Collect(k) \/ SweepDies(k)
    BY <2>2 DEF Spare, RemoveFails, Collect, SweepDies, EndSweep
  <2>3. CASE Condemn(k) \/ RemoveBytes(k)
    BY <2>3 DEF Condemn, RemoveBytes
  <2> QED
    BY <1>2, <2>1, <2>2, <2>3 DEF SweepStep
<1>3. ASSUME NEW s \in Slots, Purge(s) PROVE TypeOK'
  BY <1>3 DEF Purge, AcquiredAndReleased, StampUnreferenced
<1>4. CASE Tick
  BY <1>4 DEF Tick
<1>5. CASE UNCHANGED vars
  BY <1>5
<1> QED
  BY <1>1, <1>2, <1>3, <1>4, <1>5 DEF Next

(* The types of the rows, the store, the requests and the sweepers.        *)
THEOREM TypeCorrect == Spec => []TypeOK
<1>1. Init => TypeOK
  BY HashesAssumption DEF Init, TypeOK, Active, RequestStates, SweepStates
<1> QED
  BY <1>1, TypeStep, PTL DEF Spec

-----------------------------------------------------------------------------
(* The reference counts.  CountsOnlyMissRaises is not inductive: it needs  *)
(* that a missing row counts nothing, that a row being swept has no holder *)
(* and belongs to one sweeper, and that a row being inserted is not there  *)
(* yet.                                                                    *)

SweptIsUnheld ==
    \A k \in Sweepers : sweep[k] # "idle" =>
        /\ victim[k] \in blobs /\ ref_count[victim[k]] = 0
        /\ Holders(victim[k]) = {}

OneSweeperPerRow ==
    \A k, l \in Sweepers :
        sweep[k] # "idle" /\ sweep[l] # "idle" /\ victim[k] = victim[l] => k = l

InsertedIsNew ==
    /\ \A r \in inserted :
          /\ pc[r] = "ensured" \/ (pc[r] = "acquired" /\ r \in raised)
          /\ hash[r] \notin blobs
    /\ \A r, q \in inserted : hash[r] = hash[q] => r = q

MissingCountsNothing == \A h \in Hashes \ blobs : ref_count[h] = 0

CountInv ==
    /\ TypeOK
    /\ CountsOnlyMissRaises
    /\ MissingCountsNothing
    /\ SweptIsUnheld
    /\ OneSweeperPerRow
    /\ InsertedIsNew

(* What one slot does to the number of holders of every blob when its node *)
(* changes from one hash, or none, to another, or none.                    *)
LEMMA HoldersChange ==
    ASSUME TypeOK, NEW s \in Slots, NEW new \in Hashes \cup {None},
           node' = [node EXCEPT ![s] = new], NEW g \in Hashes
    PROVE  /\ IsFiniteSet(Holders(g)) /\ Cardinality(Holders(g)) \in Nat
           /\ g = node[s] => Cardinality(Holders(g)) > 0
           /\ Cardinality(Holders(g))' =
                IF g = new
                THEN IF g = node[s] THEN Cardinality(Holders(g))
                                    ELSE Cardinality(Holders(g)) + 1
                ELSE IF g = node[s] THEN Cardinality(Holders(g)) - 1
                                    ELSE Cardinality(Holders(g))
<1>1. IsFiniteSet(Holders(g)) /\ Cardinality(Holders(g)) \in Nat
  BY SlotsAssumption, FS_Subset, FS_CardinalityType DEF Holders
<1>2. g = node[s] => Cardinality(Holders(g)) > 0
  BY <1>1, FS_EmptySet DEF Holders
<1>3. CASE g = new /\ g = node[s]
  <2>1. Holders(g)' = Holders(g)
    BY <1>3 DEF Holders, TypeOK
  <2> QED
    BY <1>1, <1>2, <1>3, <2>1
<1>4. CASE g = new /\ g # node[s]
  <2>1. Holders(g)' = Holders(g) \cup {s} /\ s \notin Holders(g)
    BY <1>4 DEF Holders, TypeOK
  <2> QED
    BY <1>1, <1>2, <1>4, <2>1, FS_AddElement
<1>5. CASE g # new /\ g = node[s]
  <2>1. Holders(g)' = Holders(g) \ {s} /\ s \in Holders(g)
    BY <1>5 DEF Holders, TypeOK
  <2> QED
    BY <1>1, <1>2, <1>5, <2>1, FS_RemoveElement
<1>6. CASE g # new /\ g # node[s]
  <2>1. Holders(g)' = Holders(g)
    BY <1>6 DEF Holders, TypeOK
  <2> QED
    BY <1>1, <1>2, <1>6, <2>1
<1> QED
  BY <1>3, <1>4, <1>5, <1>6

(* A step that leaves the nodes alone leaves the holders alone.            *)
LEMMA HoldersStay ==
    ASSUME UNCHANGED node, NEW g
    PROVE  Holders(g)' = Holders(g)
BY DEF Holders

(* The count of g against its holders, in the form every step preserves.   *)
Counted(g) ==
    /\ ref_count[g] <= Cardinality(Holders(g))
    /\ g \notin missed => ref_count[g] = Cardinality(Holders(g))

(* The invariant says so of every hash, with a row or without.             *)
LEMMA AllCounted ==
    ASSUME CountInv, NEW g \in Hashes
    PROVE  Counted(g)
BY FS_EmptySet DEF CountInv, CountsOnlyMissRaises, MissingCountsNothing, Counted

(* Every step keeps the counts.                                            *)
LEMMA CountStep == CountInv /\ [Next]_vars => CountInv'
<1> SUFFICES ASSUME CountInv, [Next]_vars PROVE CountInv'
  OBVIOUS
<1>0. TypeOK /\ TypeOK'
  BY TypeStep DEF CountInv
<1> USE HashesAssumption, SlotsAssumption, TimeAssumption
    DEF rowVars, storeVars, treeVars, reqVars, sweepVars, vars
<1>q. ASSUME UNCHANGED <<node, missed, blobs, ref_count, sweepVars>>,
             InsertedIsNew'
      PROVE  CountInv'
  BY <1>q, <1>0, HoldersStay
     DEF CountInv, CountsOnlyMissRaises, MissingCountsNothing, SweptIsUnheld,
         OneSweeperPerRow
<1>1. ASSUME NEW r \in Requests, RequestStep(r) PROVE CountInv'
  <2>0. pc[r] \in RequestStates
    BY <1>0 DEF TypeOK
  <2>1. ASSUME NEW h \in Hashes, NEW s \in Slots, Stage(r, h, s) PROVE CountInv'
    BY <2>1, <1>q, <1>0 DEF Stage, InsertedIsNew, CountInv, TypeOK
  <2>2. CASE Adopt(r) \/ Miss(r) \/ Place(r) \/ SweepStaged(r)
    BY <2>2, <1>q, <1>0 DEF Adopt, Miss, Place, SweepStaged, InsertedIsNew,
       CountInv, TypeOK
  <2>3. CASE PlaceFails(r) \/ ForeignKeyRefuses(r) \/ Settle(r) \/ Abandon(r)
    BY <2>3, <1>q, <1>0 DEF PlaceFails, ForeignKeyRefuses, Settle, Abandon,
       Finish, InsertedIsNew, CountInv, TypeOK
  <2>4. CASE Ensure(r)
    BY <2>4, <1>q, <1>0 DEF Ensure, RowBusy, WrittenUncommitted, InsertedIsNew,
       CountInv, TypeOK
  <2>7. CASE Acquire(r)
    BY <2>7, <1>q, <1>0 DEF Acquire, InsertedIsNew, CountInv, TypeOK
  <2>5. CASE Register(r)
    <3> USE <2>5 DEF Register
    <3>1. hash[r] \in Hashes
      BY <1>0 DEF TypeOK, Active
    <3>2. InsertedIsNew'
      BY <1>0, <3>1 DEF RowBusy, WrittenUncommitted, InsertedIsNew, CountInv, TypeOK
    <3>3. CountsOnlyMissRaises'
      <4> SUFFICES ASSUME NEW g \in Hashes
                   PROVE  IF g \in blobs' THEN Counted(g)' ELSE Holders(g)' = {}
        BY DEF CountsOnlyMissRaises, Counted
      <4>1. Holders(g)' = Holders(g)
        BY HoldersStay
      <4>2. ref_count'[g] = ref_count[g]
        BY <1>0, <3>1 DEF CountInv, MissingCountsNothing, TypeOK
      <4> QED
        BY <4>1, <4>2, AllCounted DEF Counted, CountInv, CountsOnlyMissRaises
    <3>4. MissingCountsNothing' /\ OneSweeperPerRow'
      BY <1>0, <3>1 DEF MissingCountsNothing, OneSweeperPerRow, CountInv, TypeOK
    <3>5. SweptIsUnheld'
      BY <1>0, <3>1, HoldersStay DEF SweptIsUnheld, CountInv, TypeOK
    <3> QED
      BY <1>0, <3>2, <3>3, <3>4, <3>5 DEF CountInv
  <2>6. CASE Commit(r)
    <3> DEFINE h == hash[r]  s == into[r]  old == node[s]
               up == IF r \in raised THEN hash[r] ELSE None
    <3> USE <2>6 DEF Commit
    <3>1. h \in Hashes /\ s \in Slots
      BY <1>0 DEF TypeOK, Active
    <3>2. node' = [node EXCEPT ![s] = h]
      OBVIOUS
    <3>3. \A g \in Hashes :
            /\ Cardinality(Holders(g)) \in Nat
            /\ g = old => Cardinality(Holders(g)) > 0
            /\ Cardinality(Holders(g))' =
                 IF g = h THEN IF g = old THEN Cardinality(Holders(g))
                                          ELSE Cardinality(Holders(g)) + 1
                 ELSE IF g = old THEN Cardinality(Holders(g)) - 1
                                 ELSE Cardinality(Holders(g))
      <4> HIDE <2>6 DEF Commit, h, s, old
      <4> SUFFICES ASSUME NEW g \in Hashes
                   PROVE  /\ Cardinality(Holders(g)) \in Nat
                          /\ g = node[s] => Cardinality(Holders(g)) > 0
                          /\ Cardinality(Holders(g))' =
                               IF g = h
                               THEN IF g = node[s] THEN Cardinality(Holders(g))
                                                   ELSE Cardinality(Holders(g)) + 1
                               ELSE IF g = node[s] THEN Cardinality(Holders(g)) - 1
                                                   ELSE Cardinality(Holders(g))
        BY DEF old
      <4>1. TypeOK /\ h \in Hashes \cup {None} /\ s \in Slots
        BY <1>0, <3>1
      <4> QED
        BY <4>1, <3>2, HoldersChange, ZenonT(60)
    <3>4. \A g \in Hashes : Counted(g)
      BY AllCounted
    <3>5. /\ ref_count' = AcquiredAndReleased(up, old)
          /\ missed' = IF r \in raised THEN missed ELSE missed \cup {h}
      OBVIOUS
    <3>6. \A g \in Hashes : Counted(g)'
      <4> SUFFICES ASSUME NEW g \in Hashes PROVE Counted(g)'
        OBVIOUS
      <4>1. ref_count[g] \in Nat
        BY <1>0 DEF TypeOK
      <4>2. ref_count'[g] = LET gained == IF g = up THEN ref_count[g] + 1 ELSE ref_count[g]
                            IN  IF g = old /\ gained > 0 THEN gained - 1 ELSE gained
        BY <3>5 DEF AcquiredAndReleased
      <4>3. CASE r \in raised
        <5>1. up = h /\ missed' = missed
          BY <3>5, <4>3
        <5> HIDE <2>6 DEF Commit, h, s, old, up
        <5> QED
          BY <3>3, <3>4, <4>1, <4>2, <5>1 DEF Counted
      <4>4. CASE r \notin raised
        <5>1. up = None /\ missed' = missed \cup {h} /\ g # up
          BY <3>5, <4>4
        <5> HIDE <2>6 DEF Commit, h, s, old, up
        <5> QED
          BY <3>3, <3>4, <4>1, <4>2, <5>1 DEF Counted
      <4> QED
        BY <4>3, <4>4
    <3>7. \A g \in Hashes \ blobs' : Holders(g)' = {} /\ ref_count'[g] = 0
      <4> SUFFICES ASSUME NEW g \in Hashes \ blobs'
                   PROVE  Holders(g)' = {} /\ ref_count'[g] = 0
        OBVIOUS
      <4>1. g # h /\ Holders(g) = {} /\ ref_count[g] = 0
        BY DEF CountInv, CountsOnlyMissRaises, MissingCountsNothing
      <4>2. g # old
        BY <3>1, <4>1 DEF Holders
      <4> QED
        BY <4>1, <4>2, <3>1, <3>2, <1>0 DEF Holders, AcquiredAndReleased, TypeOK
    <3>8. CountsOnlyMissRaises' /\ MissingCountsNothing'
      BY <3>6, <3>7 DEF CountsOnlyMissRaises, MissingCountsNothing, Counted
    <3>9. \A k \in Sweepers : sweep[k] # "idle" =>
            victim[k] \in Hashes /\ victim[k] # h /\ victim[k] # old
      BY <1>0, <3>1 DEF CountInv, SweptIsUnheld, SweptUncommitted, InsertedIsNew,
         Holders, TypeOK
    <3>10. SweptIsUnheld' /\ OneSweeperPerRow'
      <4> SUFFICES ASSUME NEW k \in Sweepers, sweep[k] # "idle"
                   PROVE  /\ ref_count'[victim[k]] = 0
                          /\ Holders(victim[k])' = {}
        BY <1>0 DEF SweptIsUnheld, OneSweeperPerRow, CountInv
      <4>1. victim[k] \in Hashes /\ victim[k] # h /\ victim[k] # old /\ victim[k] # up
        BY <3>9
      <4>2. ref_count[victim[k]] = 0 /\ Holders(victim[k]) = {}
        BY DEF CountInv, SweptIsUnheld
      <4>3. ref_count'[victim[k]] = 0
        BY <3>5, <4>1, <4>2 DEF AcquiredAndReleased
      <4>4. Holders(victim[k])' = {}
        BY <1>0, <3>1, <3>2, <4>1, <4>2 DEF Holders, TypeOK
      <4> QED
        BY <4>3, <4>4
    <3>11. InsertedIsNew'
      BY <1>0, <3>1 DEF InsertedIsNew, CountInv, TypeOK, SweptUncommitted
    <3> QED
      BY <1>0, <3>8, <3>10, <3>11 DEF CountInv
  <2> QED
    BY <1>1, <2>1, <2>2, <2>3, <2>4, <2>5, <2>6, <2>7 DEF RequestStep
<1>2. ASSUME NEW k \in Sweepers, SweepStep(k) PROVE CountInv'
  <2>1. ASSUME NEW h \in Hashes, Claim(k, h) PROVE CountInv'
    BY <2>1, <1>0, HoldersStay DEF Claim, Orphaned, SweptUncommitted, CountInv,
       CountsOnlyMissRaises, MissingCountsNothing, SweptIsUnheld,
       OneSweeperPerRow, InsertedIsNew, TypeOK
  <2>2. CASE Condemn(k) \/ RemoveBytes(k)
    BY <2>2, <1>0, HoldersStay DEF Condemn, RemoveBytes, CountInv,
       CountsOnlyMissRaises, MissingCountsNothing, SweptIsUnheld,
       OneSweeperPerRow, InsertedIsNew, TypeOK
  <2>3. CASE RemoveFails(k) \/ SweepDies(k)
    BY <2>3, <1>0, HoldersStay DEF RemoveFails, SweepDies, EndSweep, CountInv,
       CountsOnlyMissRaises, MissingCountsNothing, SweptIsUnheld,
       OneSweeperPerRow, InsertedIsNew, TypeOK
  <2>4. CASE Spare(k) \/ Collect(k)
    <3>1. /\ victim[k] \in blobs /\ ref_count[victim[k]] = 0
          /\ Holders(victim[k]) = {}
          /\ blobs' = blobs \ {victim[k]}
          /\ UNCHANGED <<ref_count, node, missed, pc, hash, inserted, raised>>
          /\ sweep' = [sweep EXCEPT ![k] = "idle"]
          /\ victim' = [victim EXCEPT ![k] = None]
      BY <2>4 DEF Spare, Collect, EndSweep, CountInv, SweptIsUnheld
    <3>3. CountsOnlyMissRaises' /\ MissingCountsNothing'
      BY <1>0, <3>1, HoldersStay DEF CountInv, CountsOnlyMissRaises,
         MissingCountsNothing
    <3>4. SweptIsUnheld' /\ OneSweeperPerRow' /\ InsertedIsNew'
      BY <1>0, <2>4, <3>1, HoldersStay DEF Spare, Collect, CountInv, SweptIsUnheld,
         OneSweeperPerRow, InsertedIsNew, TypeOK
    <3> QED
      BY <1>0, <3>3, <3>4 DEF CountInv
  <2> QED
    BY <1>2, <2>1, <2>2, <2>3, <2>4 DEF SweepStep
<1>3. ASSUME NEW s \in Slots, Purge(s) PROVE CountInv'
  <2> DEFINE old == node[s]
  <2> USE <1>3 DEF Purge
  <2>1. old \in Hashes /\ node' = [node EXCEPT ![s] = None]
    BY <1>0 DEF TypeOK
  <2>2. \A g \in Hashes :
            /\ Cardinality(Holders(g)) \in Nat
            /\ g = old => Cardinality(Holders(g)) > 0
            /\ Cardinality(Holders(g))' =
                 IF g = old THEN Cardinality(Holders(g)) - 1
                            ELSE Cardinality(Holders(g))
    <3> HIDE <1>3 DEF Purge, old
    <3> SUFFICES ASSUME NEW g \in Hashes
                 PROVE  /\ Cardinality(Holders(g)) \in Nat
                        /\ g = node[s] => Cardinality(Holders(g)) > 0
                        /\ Cardinality(Holders(g))' =
                             IF g = node[s] THEN Cardinality(Holders(g)) - 1
                                            ELSE Cardinality(Holders(g))
      BY DEF old
    <3>1. /\ Cardinality(Holders(g)) \in Nat
          /\ g = node[s] => Cardinality(Holders(g)) > 0
          /\ Cardinality(Holders(g))' =
               IF g = None
               THEN IF g = node[s] THEN Cardinality(Holders(g))
                                   ELSE Cardinality(Holders(g)) + 1
               ELSE IF g = node[s] THEN Cardinality(Holders(g)) - 1
                                   ELSE Cardinality(Holders(g))
      <4>1. TypeOK /\ None \in Hashes \cup {None}
        BY <1>0
      <4> QED
        BY <4>1, <2>1, HoldersChange, ZenonT(60)
    <3> QED
      BY <3>1, HashesAssumption
  <2>4. \A g \in Hashes : Counted(g)'
    <3> SUFFICES ASSUME NEW g \in Hashes PROVE Counted(g)'
      OBVIOUS
    <3>1. Counted(g) /\ ref_count[g] \in Nat
      BY <1>0, AllCounted DEF TypeOK
    <3>2. /\ ref_count'[g] = IF g = old /\ ref_count[g] > 0 THEN ref_count[g] - 1
                                                           ELSE ref_count[g]
          /\ missed' = missed
      BY <2>1 DEF AcquiredAndReleased
    <3> HIDE <1>3 DEF Purge, old
    <3> QED
      BY <2>2, <3>1, <3>2 DEF Counted
  <2>5. \A g \in Hashes \ blobs' : Holders(g)' = {} /\ ref_count'[g] = 0
    <3> SUFFICES ASSUME NEW g \in Hashes \ blobs'
                 PROVE  Holders(g)' = {} /\ ref_count'[g] = 0
      OBVIOUS
    <3>1. Holders(g) = {} /\ ref_count[g] = 0
      BY DEF CountInv, CountsOnlyMissRaises, MissingCountsNothing
    <3>2. g # old /\ g # None
      BY <3>1 DEF Holders
    <3>3. Holders(g)' = {}
      BY <1>0, <2>1, <3>1, <3>2 DEF Holders, TypeOK
    <3>4. ref_count'[g] = 0
      BY <1>0, <3>1, <3>2 DEF AcquiredAndReleased, TypeOK
    <3> QED
      BY <3>3, <3>4
  <2>6. SweptIsUnheld' /\ OneSweeperPerRow' /\ InsertedIsNew'
    <3>1. \A k \in Sweepers : sweep[k] # "idle" =>
            /\ victim[k] \in Hashes
            /\ ref_count'[victim[k]] = 0 /\ Holders(victim[k])' = {}
      BY <1>0, <2>1 DEF SweptIsUnheld, CountInv, AcquiredAndReleased, Holders, TypeOK
    <3> QED
      BY <1>0, <3>1 DEF SweptIsUnheld, OneSweeperPerRow, InsertedIsNew, CountInv
  <2> QED
    BY <1>0, <2>4, <2>5, <2>6 DEF CountInv, CountsOnlyMissRaises,
       MissingCountsNothing, Counted
<1>4. CASE Tick
  BY <1>4, <1>q DEF Tick, CountInv, InsertedIsNew
<1>5. CASE UNCHANGED vars
  BY <1>5, <1>q DEF CountInv, InsertedIsNew
<1> QED
  BY <1>1, <1>2, <1>3, <1>4, <1>5 DEF Next

(* The counts are right at first.                                          *)
LEMMA CountInit == Init => CountInv
<1> SUFFICES ASSUME Init PROVE CountInv
  OBVIOUS
<1>1. TypeOK
  BY HashesAssumption DEF Init, TypeOK, Active, RequestStates, SweepStates
<1>2. \A h \in Hashes : Holders(h) = {}
  BY HashesAssumption DEF Init, Holders
<1> QED
  BY <1>1, <1>2 DEF Init, CountInv, CountsOnlyMissRaises, MissingCountsNothing,
     SweptIsUnheld, OneSweeperPerRow, InsertedIsNew

(* The counts are right in every reachable state.                          *)
LEMMA CountInvariant == Spec => []CountInv
BY CountInit, CountStep, PTL DEF Spec

(* put_file, acquire_blob, release_blob and the sweep never count more     *)
(* than the nodes that hold the blob, and exactly those as long as no node *)
(* was committed for it without its raise; a node always has its row.  On  *)
(* both stores, with every fault, for any number of requests and sweepers. *)
THEOREM CountsMissOnlyRaises == Spec => []CountsOnlyMissRaises
<1>1. CountInv => CountsOnlyMissRaises
  BY DEF CountInv
<1> QED
  BY <1>1, CountInvariant, PTL

(* Only the sweep removes bytes, of a row it has deleted without having    *)
(* committed; that row is still there and no node refers to it.            *)
THEOREM SweepIsSafe == Spec => SweepTakesNothingHeld
<1>1. CountInv /\ [Next]_vars =>
        [\A h \in Hashes : h \in stored /\ h \notin stored' => Holders(h) = {}]_vars
  <2> SUFFICES ASSUME CountInv, [Next]_vars, NEW h \in Hashes,
                      h \in stored, h \notin stored'
               PROVE  Holders(h) = {}
    OBVIOUS
  <2>1. \E k \in Sweepers : RemoveBytes(k)
    BY DEF Next, RequestStep, SweepStep, Stage, Adopt, Miss, Place, PlaceFails,
       Register, Ensure, Acquire, Commit, ForeignKeyRefuses, Settle, Abandon,
       SweepStaged, Claim, Spare, Condemn, RemoveFails, Collect, SweepDies,
       Purge, Tick, storeVars, vars
  <2> QED
    BY <2>1 DEF RemoveBytes, CountInv, SweptIsUnheld
<1> QED
  BY <1>1, CountInvariant, PTL DEF Spec, SweepTakesNothingHeld

-----------------------------------------------------------------------------
(* The promise of a 201 on the local store, when no request is abandoned   *)
(* or slow and no process dies inside a sweep.  The promise alone is not   *)
(* inductive: it rests on what protects the bytes before the answer.       *)

LocalUneventful == Backend = "local" /\ Faults = {}

Placed(r) == pc[r] \in {"written", "registered", "ensured", "acquired", "committed"}
Doomed(h) == \E k \in Sweepers : sweep[k] = "doomed" /\ victim[k] = h
Removed(h) == \E k \in Sweepers : sweep[k] = "removed" /\ victim[k] = h

InTime ==
    \A r \in Requests : Active(r) => start[r] <= now /\ now <= start[r] + Deadline

StagedKept ==
    \A r \in Requests :
        /\ pc[r] \in {"staged", "placing"} => r \in staged /\ r \notin keeps
        /\ r \in keeps => Placed(r) /\ r \in staged

(* A request that put the bytes there itself is over before a sweep may    *)
(* call them old.                                                          *)
PlacedIsSafe ==
    \A r \in Requests : Placed(r) /\ r \notin keeps =>
        /\ hash[r] \in stored
        /\ mtime[hash[r]] + Grace > start[r] + Deadline
        /\ ~Doomed(hash[r])

(* No sweep is about to remove what a request is about to put in place.    *)
PlacingIsSafe ==
    \A r \in Requests : pc[r] = "placing" =>
        /\ \A k \in Sweepers :
              sweep[k] \in {"claimed", "doomed"} => victim[k] # hash[r]
        /\ hash[r] \in blobs /\ ref_count[hash[r]] = 0 /\ ~Removed(hash[r])
              => unreferenced_since[hash[r]] + Deadline >= start[r]

(* A row without bytes is being collected, or a request keeps a copy that  *)
(* settle will put there before the row is old enough to be collected.     *)
Keeper(q, h) ==
    /\ q \in keeps /\ hash[q] = h
    /\ pc[q] \in {"registered", "ensured", "acquired", "committed"}
    /\ ref_count[h] = 0 => unreferenced_since[h] >= start[q]

RowHasBytesOrKeeper ==
    \A h \in blobs : h \in stored \/ Removed(h) \/ \E q \in Requests : Keeper(q, h)

ClaimedHasBytes ==
    \A k \in Sweepers : sweep[k] \in {"claimed", "doomed"} => victim[k] \in stored

AckInv ==
    /\ InTime /\ StagedKept
    /\ PlacedIsSafe /\ PlacingIsSafe
    /\ RowHasBytesOrKeeper /\ ClaimedHasBytes
    /\ AckedHasBytes

(* Every step keeps AckInv; CountInv says which rows a sweep may hold.     *)
LEMMA AckStep ==
    ASSUME LocalUneventful, CountInv, CountInv', AckInv, [Next]_vars
    PROVE  AckInv'
<1> USE HashesAssumption, SlotsAssumption, TimeAssumption
    DEF rowVars, storeVars, treeVars, reqVars, sweepVars, vars
<1>0. TypeOK /\ TypeOK'
  BY DEF CountInv
<1>1. ASSUME NEW r \in Requests, RequestStep(r) PROVE AckInv'
  <2>0. pc[r] \in RequestStates /\ (Active(r) => hash[r] \in Hashes /\ into[r] \in Slots)
    BY <1>0 DEF TypeOK
  <2>1. ASSUME NEW h \in Hashes, NEW s \in Slots, Stage(r, h, s) PROVE AckInv'
    <3> USE <2>1 DEF Stage
    <3>1. InTime' /\ StagedKept'
      BY <1>0 DEF AckInv, InTime, StagedKept, Placed, Active, TypeOK
    <3>2. PlacedIsSafe' /\ PlacingIsSafe'
      BY <1>0 DEF AckInv, PlacedIsSafe, PlacingIsSafe, Placed, Doomed, Removed, TypeOK
    <3>3. RowHasBytesOrKeeper'
      BY <1>0 DEF AckInv, RowHasBytesOrKeeper, Keeper, Removed, StagedKept, Placed, TypeOK
    <3>4. ClaimedHasBytes' /\ AckedHasBytes'
      BY DEF AckInv, ClaimedHasBytes, AckedHasBytes
    <3> QED
      BY <3>1, <3>2, <3>3, <3>4 DEF AckInv
  <2>2. CASE Adopt(r)
    <3> USE <2>2 DEF Adopt
    <3>0. keeps' = keeps \cup {r} /\ UNCHANGED staged
      BY DEF LocalUneventful
    <3>1. InTime' /\ StagedKept'
      BY <1>0, <3>0 DEF AckInv, InTime, StagedKept, Placed, Active, TypeOK
    <3>2. PlacedIsSafe' /\ PlacingIsSafe'
      BY <1>0, <3>0 DEF AckInv, PlacedIsSafe, PlacingIsSafe, Placed, Doomed, Removed, TypeOK
    <3>3. RowHasBytesOrKeeper'
      BY <1>0, <3>0 DEF AckInv, RowHasBytesOrKeeper, Keeper, Removed, TypeOK
    <3>4. ClaimedHasBytes' /\ AckedHasBytes'
      BY DEF AckInv, ClaimedHasBytes, AckedHasBytes
    <3> QED
      BY <3>1, <3>2, <3>3, <3>4 DEF AckInv
  <2>3. CASE Miss(r)
    <3> USE <2>3 DEF Miss
    <3>1. InTime' /\ StagedKept'
      BY <1>0 DEF AckInv, InTime, StagedKept, Placed, Active, TypeOK
    <3>2. PlacedIsSafe'
      BY <1>0 DEF AckInv, PlacedIsSafe, Placed, Doomed, TypeOK
    <3>3. hash[r] \in blobs /\ ref_count[hash[r]] = 0 /\ ~Removed(hash[r])
            => unreferenced_since[hash[r]] + Deadline >= start[r]
      <4> SUFFICES ASSUME hash[r] \in blobs, ref_count[hash[r]] = 0, ~Removed(hash[r])
                   PROVE  unreferenced_since[hash[r]] + Deadline >= start[r]
        OBVIOUS
      <4>1. PICK q \in Requests : Keeper(q, hash[r])
        BY DEF AckInv, RowHasBytesOrKeeper
      <4>2. unreferenced_since[hash[r]] >= start[q] /\ Active(q)
        BY <4>1 DEF Keeper, Active
      <4>3. now <= start[q] + Deadline /\ start[r] <= now
        BY <4>2 DEF AckInv, InTime, Active
      <4>4. /\ unreferenced_since[hash[r]] \in Nat /\ start[q] \in Nat
            /\ start[r] \in Nat /\ now \in Nat
        BY <1>0, <2>0 DEF TypeOK, Active
      <4> QED
        BY <4>2, <4>3, <4>4
    <3>4. \A k \in Sweepers : sweep[k] \in {"claimed", "doomed"} => victim[k] # hash[r]
      BY DEF AckInv, ClaimedHasBytes
    <3>5. PlacingIsSafe'
      BY <1>0, <3>3, <3>4 DEF AckInv, PlacingIsSafe, Removed, TypeOK
    <3>6. RowHasBytesOrKeeper'
      BY <1>0 DEF AckInv, RowHasBytesOrKeeper, Keeper, Removed, StagedKept, Placed, TypeOK
    <3>7. ClaimedHasBytes' /\ AckedHasBytes'
      BY DEF AckInv, ClaimedHasBytes, AckedHasBytes
    <3> QED
      BY <3>1, <3>2, <3>5, <3>6, <3>7 DEF AckInv
  <2>4. CASE Place(r)
    <3> USE <2>4 DEF Place
    <3>0. /\ r \in staged /\ r \notin keeps /\ hash[r] \in Hashes
          /\ mtime' = [mtime EXCEPT ![hash[r]] = start[r]]
      BY <2>0 DEF AckInv, StagedKept, LocalUneventful, Active
    <3>1. InTime' /\ StagedKept'
      BY <1>0, <3>0 DEF AckInv, InTime, StagedKept, Placed, Active, TypeOK
    <3>2. \A q \in Requests : Active(q) => start[r] + Grace > start[q] + Deadline
      BY <1>0 DEF AckInv, InTime, Active, TypeOK
    <3>3. PlacedIsSafe'
      <4> SUFFICES ASSUME NEW q \in Requests, Placed(q)', q \notin keeps'
                   PROVE  /\ hash[q] \in stored'
                          /\ mtime'[hash[q]] + Grace > start[q] + Deadline
                          /\ ~Doomed(hash[q])
        BY DEF PlacedIsSafe, Doomed
      <4>1. CASE q = r
        BY <4>1, <1>0, <3>0, <3>2 DEF AckInv, PlacingIsSafe, Doomed, Active, TypeOK
      <4>2. CASE q # r
        <5>1. Placed(q) /\ Active(q)
          BY <4>2, <1>0 DEF Placed, Active, TypeOK
        <5>2. hash[q] \in Hashes
          BY <5>1, <1>0 DEF TypeOK
        <5> QED
          BY <4>2, <5>1, <5>2, <1>0, <3>0, <3>2 DEF AckInv, PlacedIsSafe, TypeOK
      <4> QED
        BY <4>1, <4>2
    <3>4. PlacingIsSafe'
      BY <1>0 DEF AckInv, PlacingIsSafe, Removed, TypeOK
    <3>5. RowHasBytesOrKeeper'
      BY <1>0, <3>0 DEF AckInv, RowHasBytesOrKeeper, Keeper, Removed, TypeOK
    <3>6. ClaimedHasBytes' /\ AckedHasBytes'
      BY DEF AckInv, ClaimedHasBytes, AckedHasBytes
    <3> QED
      BY <3>1, <3>3, <3>4, <3>5, <3>6 DEF AckInv
  <2>5. CASE PlaceFails(r)
    BY <2>5 DEF PlaceFails, AckInv, StagedKept
  <2>6. CASE Abandon(r)
    BY <2>6 DEF Abandon, LocalUneventful
  <2>7. CASE SweepStaged(r)
    <3>1. CASE Active(r)
      BY <1>0, <2>7, <3>1 DEF SweepStaged, IsRecent, AckInv, InTime, TypeOK
    <3>2. CASE ~Active(r)
      <4>1. /\ r \notin keeps
            /\ UNCHANGED <<now, rowVars, storeVars, treeVars, pc, hash, into, start,
                           keeps, inserted, sweepVars>>
            /\ staged' = staged \ {r}
        BY <2>7, <3>2 DEF SweepStaged, AckInv, StagedKept, Placed, Active
      <4> QED
        BY <4>1, <3>2, <1>0 DEF AckInv, InTime, StagedKept, PlacedIsSafe,
           PlacingIsSafe, RowHasBytesOrKeeper, ClaimedHasBytes, AckedHasBytes,
           Placed, Doomed, Removed, Keeper, Active
    <3> QED
      BY <3>1, <3>2
  <2>8. CASE Register(r)
    <3> USE <2>8 DEF Register
    <3>0. hash[r] \in Hashes /\ start[r] <= now /\ now \in Nat
      BY <1>0, <2>0 DEF Active, AckInv, InTime, TypeOK
    <3>1. InTime' /\ StagedKept'
      BY <1>0 DEF AckInv, InTime, StagedKept, Placed, Active, TypeOK
    <3>2. PlacedIsSafe'
      BY <1>0 DEF AckInv, PlacedIsSafe, Placed, Doomed, TypeOK
    <3>3. PlacingIsSafe'
      BY <1>0, <3>0 DEF AckInv, PlacingIsSafe, Removed, InTime, Active, TypeOK
    <3>4. RowHasBytesOrKeeper'
      <4> SUFFICES ASSUME NEW h \in blobs', h \notin stored, ~Removed(h)
                   PROVE  \E q \in Requests : Keeper(q, h)'
        BY DEF RowHasBytesOrKeeper, Removed
      <4>1. CASE h \in blobs
        <5>1. PICK q \in Requests : Keeper(q, h)
          BY <4>1 DEF AckInv, RowHasBytesOrKeeper
        <5> QED
          BY <1>0, <3>0, <4>1, <5>1 DEF Keeper, TypeOK
      <4>2. CASE h \notin blobs
        <5>1. h = hash[r] /\ r \in keeps
          BY <4>2 DEF AckInv, PlacedIsSafe, Placed
        <5>2. Keeper(r, h)'
          BY <1>0, <3>0, <4>2, <5>1 DEF Keeper, TypeOK
        <5> QED
          BY <5>2
      <4> QED
        BY <4>1, <4>2
    <3>5. ClaimedHasBytes' /\ AckedHasBytes'
      BY DEF AckInv, ClaimedHasBytes, AckedHasBytes
    <3> QED
      BY <3>1, <3>2, <3>3, <3>4, <3>5 DEF AckInv
  <2>9. CASE Ensure(r)
    <3> USE <2>9 DEF Ensure
    <3>1. InTime' /\ StagedKept'
      BY <1>0 DEF AckInv, InTime, StagedKept, Placed, Active, TypeOK
    <3>2. PlacedIsSafe' /\ PlacingIsSafe'
      BY <1>0 DEF AckInv, PlacedIsSafe, PlacingIsSafe, Placed, Doomed, Removed, TypeOK
    <3>3. RowHasBytesOrKeeper'
      BY <1>0 DEF AckInv, RowHasBytesOrKeeper, Keeper, Removed, TypeOK
    <3>4. ClaimedHasBytes' /\ AckedHasBytes'
      BY DEF AckInv, ClaimedHasBytes, AckedHasBytes
    <3> QED
      BY <3>1, <3>2, <3>3, <3>4 DEF AckInv
  <2>13. CASE Acquire(r)
    <3> USE <2>13 DEF Acquire
    <3>1. InTime' /\ StagedKept'
      BY <1>0 DEF AckInv, InTime, StagedKept, Placed, Active, TypeOK
    <3>2. PlacedIsSafe' /\ PlacingIsSafe'
      BY <1>0 DEF AckInv, PlacedIsSafe, PlacingIsSafe, Placed, Doomed, Removed, TypeOK
    <3>3. RowHasBytesOrKeeper'
      BY <1>0 DEF AckInv, RowHasBytesOrKeeper, Keeper, Removed, TypeOK
    <3>4. ClaimedHasBytes' /\ AckedHasBytes'
      BY DEF AckInv, ClaimedHasBytes, AckedHasBytes
    <3> QED
      BY <3>1, <3>2, <3>3, <3>4 DEF AckInv
  <2>10. CASE Commit(r)
    <3> USE <2>10 DEF Commit
    <3>0. hash[r] \in Hashes /\ into[r] \in Slots /\ now \in Nat
      BY <1>0, <2>0 DEF Active, TypeOK
    <3>1. \A g \in Hashes : ref_count'[g] = 0 =>
            unreferenced_since'[g] = now
            \/ (ref_count[g] = 0 /\ unreferenced_since'[g] = unreferenced_since[g])
      <4> SUFFICES ASSUME NEW g \in Hashes, ref_count'[g] = 0
                   PROVE  unreferenced_since'[g] = now
                          \/ (ref_count[g] = 0 /\ unreferenced_since'[g] = unreferenced_since[g])
        OBVIOUS
      <4> DEFINE up == IF r \in raised THEN hash[r] ELSE None
      <4>1. /\ ref_count' = AcquiredAndReleased(up, node[into[r]])
            /\ unreferenced_since' = StampUnreferenced(up, node[into[r]], ref_count')
        OBVIOUS
      <4> HIDE <2>10 DEF Commit, up
      <4> QED
        BY <1>0, <4>1 DEF AcquiredAndReleased, StampUnreferenced, TypeOK
    <3>2. ref_count'[hash[r]] = 0 => hash[r] \in blobs
      <4> SUFFICES ASSUME hash[r] \notin blobs PROVE ref_count'[hash[r]] # 0
        OBVIOUS
      <4>1. r \in raised
        BY DEF CountInv, InsertedIsNew
      <4>2. hash[r] # node[into[r]]
        BY <3>0 DEF CountInv, CountsOnlyMissRaises, Holders
      <4>3. ref_count'[hash[r]] = ref_count[hash[r]] + 1
        BY <3>0, <4>1, <4>2 DEF AcquiredAndReleased
      <4> QED
        BY <1>0, <3>0, <4>3 DEF TypeOK
    <3>3. InTime' /\ StagedKept'
      BY <1>0 DEF AckInv, InTime, StagedKept, Placed, Active, TypeOK
    <3>4. PlacedIsSafe'
      BY <1>0 DEF AckInv, PlacedIsSafe, Placed, Doomed, TypeOK
    <3>5. PlacingIsSafe'
      <4> SUFFICES ASSUME NEW q \in Requests, pc'[q] = "placing"
                   PROVE  /\ \A k \in Sweepers :
                               sweep[k] \in {"claimed", "doomed"} => victim[k] # hash[q]
                          /\ hash[q] \in blobs' /\ ref_count'[hash[q]] = 0 /\ ~Removed(hash[q])
                               => unreferenced_since'[hash[q]] + Deadline >= start[q]
        BY DEF PlacingIsSafe, Removed
      <4>1. pc[q] = "placing" /\ hash[q] \in Hashes /\ start[q] <= now /\ start[q] \in Nat
        BY <1>0 DEF AckInv, InTime, Active, TypeOK
      <4>2. hash[q] \in blobs' /\ ref_count'[hash[q]] = 0 => hash[q] \in blobs
        BY <3>2
      <4> QED
        BY <1>0, <3>0, <3>1, <4>1, <4>2 DEF AckInv, PlacingIsSafe, TypeOK
    <3>6. RowHasBytesOrKeeper'
      <4> SUFFICES ASSUME NEW h \in blobs', h \notin stored, ~Removed(h)
                   PROVE  \E q \in Requests : Keeper(q, h)'
        BY DEF RowHasBytesOrKeeper, Removed
      <4>1. CASE h \in blobs
        <5>1. PICK q \in Requests : Keeper(q, h)
          BY <4>1 DEF AckInv, RowHasBytesOrKeeper
        <5>2. start[q] <= now /\ h \in Hashes
          BY <1>0, <4>1, <5>1 DEF Keeper, AckInv, InTime, Active, TypeOK
        <5>3. Keeper(q, h)'
          BY <1>0, <3>1, <5>1, <5>2 DEF Keeper, TypeOK
        <5> QED
          BY <5>3
      <4>2. CASE h \notin blobs
        <5>1. h = hash[r] /\ r \in keeps
          BY <4>2 DEF AckInv, PlacedIsSafe, Placed
        <5>2. Keeper(r, h)'
          BY <1>0, <3>2, <4>2, <5>1 DEF Keeper, TypeOK
        <5> QED
          BY <5>2
      <4> QED
        BY <4>1, <4>2
    <3>7. ClaimedHasBytes' /\ AckedHasBytes'
      BY <1>0, <3>0 DEF AckInv, ClaimedHasBytes, AckedHasBytes, TypeOK
    <3> QED
      BY <3>3, <3>4, <3>5, <3>6, <3>7 DEF AckInv
  <2>11. CASE ForeignKeyRefuses(r)
    <3> USE <2>11 DEF ForeignKeyRefuses, Finish
    <3>1. InTime' /\ StagedKept'
      BY <1>0 DEF AckInv, InTime, StagedKept, Placed, Active, TypeOK
    <3>2. PlacedIsSafe' /\ PlacingIsSafe'
      BY <1>0 DEF AckInv, PlacedIsSafe, PlacingIsSafe, Placed, Doomed, Removed, TypeOK
    <3>3. RowHasBytesOrKeeper'
      BY <1>0 DEF AckInv, RowHasBytesOrKeeper, Keeper, Removed, TypeOK
    <3>4. ClaimedHasBytes' /\ AckedHasBytes'
      BY DEF AckInv, ClaimedHasBytes, AckedHasBytes
    <3> QED
      BY <3>1, <3>2, <3>3, <3>4 DEF AckInv
  <2>12. CASE Settle(r)
    <3> USE <2>12 DEF Settle, Finish
    <3>0. hash[r] \in Hashes /\ into[r] \in Slots
      BY <2>0 DEF Active
    <3>1. /\ hash[r] \in stored' /\ stored \subseteq stored'
          /\ stored' \subseteq stored \cup {hash[r]}
      BY DEF AckInv, StagedKept, PlacedIsSafe, Placed
    <3>2. \A h \in Hashes : mtime'[h] = mtime[h] \/ (h = hash[r] /\ mtime'[h] = start[r])
      <4>1. mtime' = mtime \/ mtime' = [mtime EXCEPT ![hash[r]] = start[r]]
        OBVIOUS
      <4> QED
        BY <1>0, <3>0, <4>1 DEF TypeOK
    <3>3. \A q \in Requests : Active(q) => start[r] + Grace > start[q] + Deadline
      BY <1>0 DEF AckInv, InTime, Active, TypeOK
    <3>4. InTime' /\ StagedKept'
      BY <1>0 DEF AckInv, InTime, StagedKept, Placed, Active, TypeOK
    <3>5. PlacedIsSafe'
      <4> SUFFICES ASSUME NEW q \in Requests, Placed(q)', q \notin keeps'
                   PROVE  /\ hash'[q] \in stored'
                          /\ mtime'[hash'[q]] + Grace > start'[q] + Deadline
                          /\ ~Doomed(hash'[q])
        BY DEF PlacedIsSafe, Doomed
      <4>1. q # r /\ Placed(q) /\ Active(q) /\ q \notin keeps
        BY <1>0 DEF Placed, Active, TypeOK
      <4>2. hash'[q] = hash[q] /\ start'[q] = start[q] /\ hash[q] \in Hashes
        BY <1>0, <4>1 DEF TypeOK
      <4> QED
        BY <4>1, <4>2, <1>0, <3>1, <3>2, <3>3 DEF AckInv, PlacedIsSafe, TypeOK
    <3>6. PlacingIsSafe'
      BY <1>0 DEF AckInv, PlacingIsSafe, Removed, TypeOK
    <3>7. RowHasBytesOrKeeper'
      BY <1>0, <3>1 DEF AckInv, RowHasBytesOrKeeper, Keeper, Removed, TypeOK
    <3>8. ClaimedHasBytes' /\ AckedHasBytes'
      BY <1>0, <3>1 DEF AckInv, ClaimedHasBytes, AckedHasBytes, TypeOK
    <3> QED
      BY <3>4, <3>5, <3>6, <3>7, <3>8 DEF AckInv
  <2> QED
    BY <1>1, <2>1, <2>2, <2>3, <2>4, <2>5, <2>6, <2>7, <2>8, <2>9, <2>10,
       <2>11, <2>12, <2>13 DEF RequestStep
<1>2. ASSUME NEW k \in Sweepers, SweepStep(k) PROVE AckInv'
  <2>1. ASSUME NEW h \in Hashes, Claim(k, h) PROVE AckInv'
    <3> USE <2>1 DEF Claim, Orphaned
    <3>0. h \in stored
      <4> SUFFICES ASSUME h \notin stored PROVE FALSE
        OBVIOUS
      <4>1. ~Removed(h)
        BY DEF Removed, SweptUncommitted
      <4>2. PICK q \in Requests : Keeper(q, h)
        BY <4>1 DEF AckInv, RowHasBytesOrKeeper
      <4> QED
        BY <1>0, <4>2 DEF Keeper, AckInv, InTime, Active, TypeOK
    <3>1. InTime' /\ StagedKept'
      BY DEF AckInv, InTime, StagedKept, Placed, Active
    <3>2. PlacedIsSafe'
      BY <1>0 DEF AckInv, PlacedIsSafe, Placed, Doomed, TypeOK
    <3>3. \A q \in Requests : pc[q] = "placing" => hash[q] # h
      <4>1. ~Removed(h)
        BY DEF Removed, SweptUncommitted
      <4> QED
        BY <1>0, <4>1 DEF AckInv, PlacingIsSafe, InTime, Active, TypeOK
    <3>4. PlacingIsSafe'
      BY <1>0, <3>3 DEF AckInv, PlacingIsSafe, Removed, TypeOK
    <3>5. RowHasBytesOrKeeper'
      BY <1>0 DEF AckInv, RowHasBytesOrKeeper, Keeper, Removed, TypeOK
    <3>6. ClaimedHasBytes' /\ AckedHasBytes'
      BY <1>0, <3>0 DEF AckInv, ClaimedHasBytes, AckedHasBytes, TypeOK
    <3> QED
      BY <3>1, <3>2, <3>4, <3>5, <3>6 DEF AckInv
  <2>2. CASE Condemn(k)
    <3> USE <2>2 DEF Condemn
    <3>0. victim[k] \in stored /\ ~IsRecent(mtime[victim[k]])
      BY DEF AckInv, ClaimedHasBytes
    <3>1. InTime' /\ StagedKept'
      BY DEF AckInv, InTime, StagedKept, Placed, Active
    <3>2. \A q \in Requests : Placed(q) /\ q \notin keeps => hash[q] # victim[k]
      BY <1>0, <3>0 DEF AckInv, PlacedIsSafe, InTime, IsRecent, Placed, Active, TypeOK
    <3>3. PlacedIsSafe'
      BY <1>0, <3>2 DEF AckInv, PlacedIsSafe, Placed, Doomed, TypeOK
    <3>4. PlacingIsSafe'
      BY <1>0 DEF AckInv, PlacingIsSafe, Removed, TypeOK
    <3>5. RowHasBytesOrKeeper'
      BY <1>0 DEF AckInv, RowHasBytesOrKeeper, Keeper, Removed, TypeOK
    <3>6. ClaimedHasBytes' /\ AckedHasBytes'
      BY <1>0, <3>0 DEF AckInv, ClaimedHasBytes, AckedHasBytes, TypeOK
    <3> QED
      BY <3>1, <3>3, <3>4, <3>5, <3>6 DEF AckInv
  <2>3. CASE RemoveBytes(k)
    <3> USE <2>3 DEF RemoveBytes
    <3>0. victim[k] \in Hashes /\ victim[k] \in blobs /\ ref_count[victim[k]] = 0
      BY <1>0 DEF CountInv, SweptIsUnheld, TypeOK
    <3>1. InTime' /\ StagedKept'
      BY DEF AckInv, InTime, StagedKept, Placed, Active
    <3>2. PlacedIsSafe'
      BY <1>0, <3>0 DEF AckInv, PlacedIsSafe, Placed, Doomed, TypeOK
    <3>3. PlacingIsSafe'
      BY <1>0 DEF AckInv, PlacingIsSafe, Removed, TypeOK
    <3>4. RowHasBytesOrKeeper'
      BY <1>0 DEF AckInv, RowHasBytesOrKeeper, Keeper, Removed, TypeOK
    <3>5. ClaimedHasBytes'
      BY <1>0 DEF AckInv, ClaimedHasBytes, CountInv, OneSweeperPerRow, TypeOK
    <3>6. Holders(victim[k]) = {}
      BY DEF CountInv, SweptIsUnheld
    <3>7. AckedHasBytes'
      BY <1>0, <3>6 DEF AckInv, AckedHasBytes, Holders, TypeOK
    <3> QED
      BY <3>1, <3>2, <3>3, <3>4, <3>5, <3>7 DEF AckInv
  <2>4. CASE RemoveFails(k) \/ Spare(k) \/ Collect(k) \/ SweepDies(k)
    <3>0. /\ UNCHANGED <<now, ref_count, unreferenced_since, storeVars, treeVars, reqVars>>
          /\ sweep' = [sweep EXCEPT ![k] = "idle"]
          /\ victim' = [victim EXCEPT ![k] = None]
          /\ blobs' \subseteq blobs
          /\ sweep[k] = "removed" => victim[k] \notin blobs'
      BY <2>4 DEF RemoveFails, Spare, Collect, SweepDies, EndSweep, LocalUneventful
    <3> USE <3>0
    <3>1. InTime' /\ StagedKept'
      BY DEF AckInv, InTime, StagedKept, Placed, Active
    <3>2. PlacedIsSafe'
      BY <1>0 DEF AckInv, PlacedIsSafe, Placed, Doomed, TypeOK
    <3>3. \A h \in blobs' : Removed(h) => Removed(h)'
      BY <1>0 DEF Removed, TypeOK
    <3>4. PlacingIsSafe'
      BY <1>0, <3>3 DEF AckInv, PlacingIsSafe, TypeOK
    <3>5. RowHasBytesOrKeeper'
      BY <1>0, <3>3 DEF AckInv, RowHasBytesOrKeeper, Keeper
    <3>6. ClaimedHasBytes' /\ AckedHasBytes'
      BY <1>0 DEF AckInv, ClaimedHasBytes, AckedHasBytes, TypeOK
    <3> QED
      BY <3>1, <3>2, <3>4, <3>5, <3>6 DEF AckInv
  <2> QED
    BY <1>2, <2>1, <2>2, <2>3, <2>4 DEF SweepStep
<1>3. ASSUME NEW s \in Slots, Purge(s) PROVE AckInv'
  <2> USE <1>3 DEF Purge
  <2>1. \A g \in Hashes : ref_count'[g] = 0 =>
          unreferenced_since'[g] = now
          \/ (ref_count[g] = 0 /\ unreferenced_since'[g] = unreferenced_since[g])
    <3> SUFFICES ASSUME NEW g \in Hashes, ref_count'[g] = 0
                 PROVE  unreferenced_since'[g] = now
                        \/ (ref_count[g] = 0 /\ unreferenced_since'[g] = unreferenced_since[g])
      OBVIOUS
    <3>1. /\ ref_count' = AcquiredAndReleased(None, node[s])
          /\ unreferenced_since' = StampUnreferenced(None, node[s], ref_count')
      OBVIOUS
    <3> HIDE <1>3 DEF Purge
    <3> QED
      BY <1>0, <3>1 DEF AcquiredAndReleased, StampUnreferenced, TypeOK
  <2>2. InTime' /\ StagedKept'
    BY DEF AckInv, InTime, StagedKept, Placed, Active
  <2>3. PlacedIsSafe'
    BY DEF AckInv, PlacedIsSafe, Placed, Doomed
  <2>4. PlacingIsSafe'
    BY <1>0, <2>1 DEF AckInv, PlacingIsSafe, Removed, InTime, Active, TypeOK
  <2>5. RowHasBytesOrKeeper'
    <3> SUFFICES ASSUME NEW h \in blobs, h \notin stored, ~Removed(h)
                 PROVE  \E q \in Requests : Keeper(q, h)'
      BY DEF RowHasBytesOrKeeper, Removed
    <3>1. PICK q \in Requests : Keeper(q, h)
      BY DEF AckInv, RowHasBytesOrKeeper
    <3>2. start[q] <= now /\ h \in Hashes
      BY <1>0, <3>1 DEF Keeper, AckInv, InTime, Active, TypeOK
    <3>3. Keeper(q, h)'
      BY <1>0, <2>1, <3>1, <3>2 DEF Keeper, TypeOK
    <3> QED
      BY <3>3
  <2>6. ClaimedHasBytes' /\ AckedHasBytes'
    BY <1>0 DEF AckInv, ClaimedHasBytes, AckedHasBytes, TypeOK
  <2> QED
    BY <2>2, <2>3, <2>4, <2>5, <2>6 DEF AckInv
<1>4. CASE Tick
  <2>1. InTime'
    BY <1>0, <1>4 DEF Tick, LocalUneventful, AckInv, InTime, Active, TypeOK
  <2> QED
    BY <1>4, <2>1 DEF Tick, AckInv, StagedKept, PlacedIsSafe, PlacingIsSafe,
       RowHasBytesOrKeeper, ClaimedHasBytes, AckedHasBytes, Placed, Doomed,
       Removed, Keeper
<1>5. CASE UNCHANGED vars
  BY <1>5 DEF AckInv, InTime, StagedKept, PlacedIsSafe, PlacingIsSafe,
     RowHasBytesOrKeeper, ClaimedHasBytes, AckedHasBytes, Placed, Doomed,
     Removed, Keeper, Active
<1> QED
  BY <1>1, <1>2, <1>3, <1>4, <1>5 DEF Next

(* What was acknowledged is there in every reachable state.                *)
LEMMA AckInvariant ==
    ASSUME LocalUneventful
    PROVE  Spec => []AckInv
<1>1. Init => AckInv
  BY DEF Init, AckInv, InTime, StagedKept, PlacedIsSafe, PlacingIsSafe,
     RowHasBytesOrKeeper, ClaimedHasBytes, AckedHasBytes, Placed, Active
<1>2. CountInv /\ CountInv' /\ AckInv /\ [Next]_vars => AckInv'
  BY AckStep
<1> QED
  BY <1>1, <1>2, CountInvariant, PTL DEF Spec

(* write, register_blob, put_file and settle against the sweep: on the     *)
(* local store, with requests that end within their deadline and sweeps    *)
(* that are not interrupted, the content behind every 201 stays readable.  *)
THEOREM LocalAckKeepsItsPromise ==
    ASSUME LocalUneventful
    PROVE  Spec => []AckedHasBytes
<1>1. AckInv => AckedHasBytes
  BY DEF AckInv
<1> QED
  BY <1>1, AckInvariant, PTL

=============================================================================
