---------------------------- MODULE UploadPromise ----------------------------
(***************************************************************************)
(* What a resumable upload promises its clients, without claims, clocks or *)
(* staged files: the offset a session answers never goes back while the    *)
(* session is open, the bytes below it stay where they are, and the only   *)
(* file that is ever stored is the whole one, for a request that found the *)
(* session complete.                                                       *)
(*                                                                         *)
(* The promise is to requests that take turns.  A request is told where a  *)
(* session is before it writes to it; when another has moved the session   *)
(* on in between, the first may still write where it was told, and the     *)
(* promise ends for this session: it is spoiled.                           *)
(***************************************************************************)
EXTENDS Integers

CONSTANTS Sessions, Requests, Size, None

VARIABLES
    phase,      \* of each session: new, open, closed
    offset,     \* what an open session says it received
    bytes,      \* positions that hold the client's byte
    appending,  \* the session each request was told the offset of, to write to it
    stale,      \* requests whose session another has moved on since
    spoiled,    \* sessions such a request wrote to
    finishing,  \* the session each request found complete
    stored      \* files that were made

vars == <<phase, offset, bytes, appending, stale, spoiled, finishing, stored>>
turnVars == <<appending, stale, spoiled>>

Below(k) == 0 .. (k - 1)
Files(s) == [session : {s}, size : 0 .. Size, good : SUBSET Below(Size)]
Whole(s) == [session |-> s, size |-> Size, good |-> Below(Size)]

Init ==
    /\ phase = [s \in Sessions |-> "new"]
    /\ offset = [s \in Sessions |-> 0]
    /\ bytes = [s \in Sessions |-> {}]
    /\ appending = [r \in Requests |-> None]
    /\ stale = {}
    /\ spoiled = {}
    /\ finishing = [r \in Requests |-> None]
    /\ stored = {}

(* Sessions move on under the requests that were told where they are.      *)
MovedOn(S) == stale' \subseteq stale \cup {r \in Requests : appending[r] \in S}

Begin(s) ==
    /\ phase[s] = "new"
    /\ phase' = [phase EXCEPT ![s] = "open"]
    /\ UNCHANGED <<offset, bytes, turnVars, finishing, stored>>

(* A session that nobody was told of.                                      *)
NeverBegun(s) ==
    /\ phase[s] = "new"
    /\ phase' = [phase EXCEPT ![s] = "closed"]
    /\ UNCHANGED <<offset, bytes, turnVars, finishing, stored>>

(* A request is told where the session is.                                 *)
Ask(r, s) ==
    /\ phase[s] = "open" /\ r \notin stale
    /\ appending' = [appending EXCEPT ![r] = s]
    /\ UNCHANGED <<phase, offset, bytes, stale, spoiled, finishing, stored>>

(* It gets the session: it is another's turn no longer.                    *)
TakeTurn(r) ==
    /\ appending[r] # None
    /\ MovedOn({appending[r]}) /\ (r \in stale' => r \in stale)
    /\ UNCHANGED <<phase, offset, bytes, appending, spoiled, finishing, stored>>

Withdraw(r) ==
    /\ appending' = [appending EXCEPT ![r] = None]
    /\ stale' = stale \ {r}
    /\ UNCHANGED <<phase, offset, bytes, spoiled, finishing, stored>>

(* What s has from now on, which is at least what it says it received.     *)
Filled(s) ==
    \E b \in SUBSET Below(Size) :
        /\ phase[s] = "open" /\ s \notin spoiled' => Below(offset[s]) \subseteq b
        /\ bytes' = [bytes EXCEPT ![s] = b]

(* It starts to write, where it was told.                                  *)
Write(r, s) ==
    /\ appending[r] = s
    /\ spoiled' = IF r \in stale THEN spoiled \cup {s} ELSE spoiled
    /\ Filled(s)
    /\ appending' = [appending EXCEPT ![r] = None]
    /\ stale' = stale \ {r}
    /\ UNCHANGED <<phase, offset, finishing, stored>>

(* Bytes come.                                                             *)
Fill(s) ==
    /\ Filled(s)
    /\ UNCHANGED <<phase, offset, turnVars, finishing, stored>>

Acknowledge(s) ==
    /\ phase[s] = "open"
    /\ \E k \in 0 .. Size :
          /\ s \notin spoiled => k >= offset[s] /\ Below(k) \subseteq bytes[s]
          /\ offset' = [offset EXCEPT ![s] = k]
    /\ MovedOn({s})
    /\ UNCHANGED <<phase, bytes, appending, spoiled, finishing, stored>>

Finish(r, s) ==
    /\ phase[s] = "open" /\ offset[s] = Size
    /\ finishing' = [finishing EXCEPT ![r] = s]
    /\ UNCHANGED <<phase, offset, bytes, turnVars, stored>>

GiveUp(r) ==
    /\ finishing' = [finishing EXCEPT ![r] = None]
    /\ UNCHANGED <<phase, offset, bytes, turnVars, stored>>

Store(r, s) ==
    /\ finishing[r] = s
    /\ finishing' = [finishing EXCEPT ![r] = None]
    /\ \E f \in Files(s) :
          /\ s \notin spoiled => f = Whole(s)
          /\ stored' = stored \cup {f}
    /\ UNCHANGED <<phase, offset, bytes, turnVars>>

(* Finished, abandoned, overrun or expired; expiry takes several at once.  *)
Close(S) ==
    /\ \A s \in S : phase[s] = "open"
    /\ phase' = [s \in Sessions |-> IF s \in S THEN "closed" ELSE phase[s]]
    /\ offset' = [s \in Sessions |-> IF s \in S THEN 0 ELSE offset[s]]
    /\ MovedOn(S)
    /\ UNCHANGED <<bytes, appending, spoiled, finishing, stored>>

Next ==
    \/ \E s \in Sessions : Begin(s) \/ NeverBegun(s) \/ Fill(s) \/ Acknowledge(s)
    \/ \E r \in Requests :
           \/ TakeTurn(r) \/ Withdraw(r) \/ GiveUp(r)
           \/ \E s \in Sessions : Ask(r, s) \/ Write(r, s) \/ Finish(r, s) \/ Store(r, s)
    \/ \E S \in SUBSET Sessions : Close(S)

Spec == Init /\ [][Next]_vars

=============================================================================
