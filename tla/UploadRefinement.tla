-------------------------- MODULE UploadRefinement --------------------------
(***************************************************************************)
(* UploadSession implements UploadPromise.  A session is open for as long  *)
(* as it has its row, and new until begin has given it one; what it        *)
(* received is the column of that name, its bytes are those of the staged  *)
(* file, and a finish is under way from the look that found everything     *)
(* received to put_file.  An append is told the offset when it reads the   *)
(* row and writes when it cuts the file back; in between the row may have  *)
(* got another offset or, once it is claimed, another writer.              *)
(***************************************************************************)
EXTENDS UploadSession

Phase(s) ==
    IF s \in uploads THEN "open"
    ELSE IF s \in fresh \/ \E r \in Requests : pc[r] = "created" /\ session[r] = s
    THEN "new" ELSE "closed"

(* The row is no longer what the request read, or not its own any more.    *)
Stale(r) ==
    \/ pc[r] = "looked" /\ cursor[r] # received[session[r]]
    \/ pc[r] = "claimed" /\ ~Current(r)

Promise == INSTANCE UploadPromise WITH
    phase <- [s \in Sessions |-> Phase(s)],
    offset <- received,
    bytes <- good,
    appending <- [r \in Requests |->
                     IF pc[r] \in {"looked", "claimed"} THEN session[r] ELSE None],
    stale <- {r \in Requests : Stale(r)},
    spoiled <- overtaken,
    finishing <- [r \in Requests |->
                     IF pc[r] \in {"opening", "reading"} THEN session[r] ELSE None],
    stored <- nodes

(* Whatever dies, pauses or overlaps, a client sees a session that keeps   *)
(* the promise: its offset never goes back, the bytes below it stay, and   *)
(* only the whole file is stored, for as long as no request writes where   *)
(* it was told after another had its turn (uploads::append, claim,         *)
(* write_at and routes::uploads::finish).                                  *)
KeepsThePromise == Promise!Spec

=============================================================================
