--------------------------- MODULE MCUploadSession ---------------------------
(* Instances of UploadSession for TLC. *)
EXTENDS UploadRefinement, TLC

(* A file stored of a session that was overtaken is where a run ends.      *)
FirstMishap == overtaken = {} \/ nodes = {}

(* Session ids are interchangeable: they are used in one order.            *)
FirstSession == CHOOSE s \in Sessions : TRUE
InOrder == FirstSession \in fresh => fresh = Sessions

(* The sessions after the first are begun and expire: nobody fills them.   *)
OneFilled ==
    fresh = {} =>
        \A r \in Requests : pc[r] \in {"idle", "counted", "created"}
=============================================================================
