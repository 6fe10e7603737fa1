------------------------------ MODULE MCAccounts ------------------------------
EXTENDS Accounts, FiniteSetsExt, TLC

\* Attempts counted in all: each address can use up its own.
Attempts == MapThenSumSet(LAMBDA u : failures[u], Accounts)
FewAttempts == Attempts <= FREE_ATTEMPTS

\* App passwords and flows; these with the sessions; these with the attempts.
Others == Cardinality(app_passwords) + Cardinality(flows)
Rows == Cardinality({s \in Sids : sessions[s] # None}) + Others
FewRows == Others <= 1 /\ Rows <= 2 /\ Rows + Attempts <= 3

Symmetry == Permutations(Requests) \cup Permutations(Sids) \cup Permutations(Passwords)
=============================================================================
