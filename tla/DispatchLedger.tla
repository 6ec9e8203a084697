---------------------------- MODULE DispatchLedger ----------------------------
(***************************************************************************)
(* What the queue of the center promises about a queued dispatch, without  *)
(* sessions, claims or requeues: once accepted it is owed an outcome, and  *)
(* it is struck off only after an outcome has been stored.                 *)
(***************************************************************************)
CONSTANTS Runs, Outcomes

VARIABLES
    accepted,  \* runs whose dispatch was queued
    owed,      \* accepted runs that are not settled
    stored     \* outcomes stored for each run

ledgerVars == <<accepted, owed, stored>>

LInit ==
    /\ accepted = {}
    /\ owed = {}
    /\ stored = [r \in Runs |-> {}]

Accept(r) ==
    /\ r \notin accepted
    /\ accepted' = accepted \cup {r}
    /\ owed' = owed \cup {r}
    /\ UNCHANGED stored

Store(r, o) ==
    /\ stored' = [stored EXCEPT ![r] = @ \cup {o}]
    /\ UNCHANGED <<accepted, owed>>

Settle(S) ==
    /\ S \subseteq owed
    /\ \A r \in S : stored[r] # {}
    /\ owed' = owed \ S
    /\ UNCHANGED <<accepted, stored>>

LNext ==
    \/ \E r \in Runs : Accept(r)
    \/ \E r \in Runs, o \in Outcomes : Store(r, o)
    \/ \E S \in SUBSET Runs : Settle(S)

LSpec == LInit /\ [][LNext]_ledgerVars
=============================================================================
