-------------------------------- MODULE Tables --------------------------------
(***************************************************************************)
(* What Postgres collects when it follows references from row to row: the  *)
(* WITH RECURSIVE queries of db.rs, trash.rs, access.rs and dav/locks.rs,  *)
(* each with a CYCLE clause, and ON DELETE CASCADE.                        *)
(***************************************************************************)
EXTENDS Naturals, FiniteSets

(* A column of the rows S that refers to rows; NULL is not one of them.    *)
References(column, S, rows) ==
    {<<m, column[m]>> : m \in {x \in S : column[x] \in rows}}

(* One round of a query that goes along the pairs of rows `edges`. *)
Widened(edges, met) == met \cup {e[2] : e \in {d \in edges : d[1] \in met}}

(* It goes on from what it starts with until a round adds nothing, which   *)
(* is after as many rounds as there are rows at the latest.                *)
Collected(edges, from, rows) ==
    LET met[k \in 0 .. Cardinality(rows)] ==
            IF k = 0 THEN from ELSE Widened(edges, met[k - 1])
    IN  met[Cardinality(rows)]

(* What is met on the way up from n for as long as it is in S, the first   *)
(* row outside included.                                                   *)
Ancestors(column, n, S, rows) ==
    Collected(References(column, S, rows), {n} \cap rows, rows)
=============================================================================
