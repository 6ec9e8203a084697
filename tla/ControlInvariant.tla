--------------------------- MODULE ControlInvariant ---------------------------
(***************************************************************************)
(* The inductive invariant of ControlSession.                              *)
(***************************************************************************)
EXTENDS ControlSession

\* What each point of the task knows about the node it serves.
TaskInv ==
    \A s \in Sessions :
        /\ ready[s] => bound[s] \in Nodes
        /\ pc[s] \in {"idle", "done"} => bound[s] = NoNode
        /\ pc[s] \in {"activate", "claim", "send"} => ready[s]
        /\ pc[s] \in {"requeue", "ack", "rebind", "rebind_requeue"} => hint[s] \in Nodes
        /\ pc[s] \in {"rebind", "rebind_requeue"} => bound[s] \in Nodes
        /\ pc[s] = "reply" => reply[s] \in Replies
        /\ pc[s] = "rebind_requeue" => \A n \in Nodes : hub[n] # s

\* A run is acknowledged only for a stored result.
AckInv == \A s \in Sessions : \A r \in acking[s] : results[r] # {}

\* A row belongs to a queued dispatch of a known node; a sender in hand is a sender.
DispInv ==
    \A r \in Runs :
        /\ disp[r].st # "new" => disp[r].node \in Nodes
        /\ rows[r] # "absent" => disp[r].st = "queued"
        /\ disp[r].st = "holding" => disp[r].via \in Sessions
        /\ disp[r].st = "unsent" => rows[r] = "absent"

\* The invariant that every step of the session tasks, of the HTTP handlers and
\* of the environment preserves; the safety properties of ControlSession are
\* parts of it.
IInv ==
    /\ TypeOK /\ TaskInv /\ AckInv /\ DispInv
    /\ HubSound /\ RowUntilResult /\ NoOrphanClaim /\ FlushGated
=============================================================================
