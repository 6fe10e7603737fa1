--------------------------- MODULE MCBlobLifecycle ---------------------------
(* Instances of BlobLifecycle for TLC. *)
EXTENDS BlobLifecycle, TLC

(* Contents, places and requests are interchangeable. *)
Symmetry ==
    Permutations(Hashes) \cup Permutations(Slots) \cup Permutations(Requests)
=============================================================================
