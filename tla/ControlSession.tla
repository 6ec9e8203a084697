---------------------------- MODULE ControlSession ----------------------------
(***************************************************************************)
(* The center's half of Control.Session: the task grpc.rs spawns for every *)
(* stream, the ReadyGate of that task, the Hub of live senders, the        *)
(* pending_dispatches table and the HTTP dispatch handler that chooses     *)
(* between the two.  Every await that reads or writes state shared with    *)
(* another task is a step of its own.                                      *)
(***************************************************************************)
EXTENDS Naturals, Sequences, FiniteSets

CONSTANTS
    Nodes,      \* node ids
    Sessions,   \* Control.Session streams; each is opened once
    Runs,       \* HTTP dispatches, one run id each
    Outcomes,   \* what a node can report for a run
    NoNode,     \* bound_node = None
    NoSession,  \* no sender in the Hub
    MaxGen,     \* bound on a node's config_generation
    ChanCap,    \* capacity of the mpsc channels of a session
    MaxFaults   \* bound on failed database calls and center restarts

ASSUME ControlAssumption ==
    /\ NoNode \notin Nodes
    /\ NoSession \notin Sessions
    /\ IsFiniteSet(Runs)
    /\ MaxGen \in Nat \ {0}
    /\ ChanCap \in Nat \ {0}
    /\ MaxFaults \in Nat

VARIABLES
    pc,       \* where the session task stands
    bound,    \* bound_node
    ready,    \* gate.ready
    hint,     \* node id handle() returned for the frame in hand
    acking,   \* run whose result is stored and whose row is not yet deleted
    batch,    \* claimed rows that flush_pending has not sent
    reply,    \* the answer to the frame in hand
    cut,      \* streams that carry nothing any more
    live,     \* the transport has not reported the stream's end
    push,     \* the channel the Hub sends into
    out,      \* the response stream's channel
    hub,      \* Hub.inner
    disp,     \* progress of each HTTP dispatch
    rows,     \* pending_dispatches
    gen,      \* node_configs.config_generation
    results,  \* outcomes stored for a run
    faults    \* failures so far

taskVars == <<pc, bound, ready, hint, acking, batch, reply>>
chanVars == <<cut, live, push, out>>
dbVars   == <<rows, gen, results>>
vars     == <<taskVars, chanVars, hub, disp, dbVars, faults>>

Gens == 0..MaxGen

\* Server messages, as far as the node tells them apart.  It only logs the
\* answers to Register, ReportResult, NodeReady, SkillState and Ack: those are
\* NoReply and take no room in the stream.
DispatchMsg(r) == [kind |-> "dispatch", run |-> r]
GenMsg(k, g)   == [kind |-> k, gen |-> g]
SkillsMsg      == [kind |-> "skills"]
NoReply        == [kind |-> "none"]

Replies == {SkillsMsg} \cup [kind : {"heartbeat", "config"}, gen : Gens]
ServerMessages == Replies \cup [kind : {"dispatch"}, run : Runs]

\* A row is absent, available (in_flight_at NULL), claimed, or claimed longer
\* ago than PENDING_DISPATCH_ACK_TIMEOUT.
RowStates == {"absent", "available", "claimed", "stale"}
InFlight  == {"claimed", "stale"}

(***************************************************************************)
(* Helpers                                                                 *)
(***************************************************************************)
Goto(s, l) == pc' = [pc EXCEPT ![s] = l]

\* A database call may fail; the code logs and goes on.
DbFault == faults < MaxFaults /\ faults' = faults + 1
DbOk    == UNCHANGED faults

\* Mutant: only claims that timed out are requeued.
RequeuedStaleOnly(n) == [r \in Runs |-> IF disp[r].node = n /\ rows[r] = "stale"
                                        THEN "available" ELSE rows[r]]

\* requeue_in_flight_for_node
Requeued(n) == [r \in Runs |-> IF disp[r].node = n /\ rows[r] \in InFlight
                               THEN "available" ELSE rows[r]]

RequeueNode(n) == \/ DbOk /\ rows' = Requeued(n)
                  \/ DbFault /\ UNCHANGED rows

\* Mutant: a session that ends leaves its sender in the Hub.
UnregisteredForgotten(n, s) == hub

\* Hub.unregister: only the session's own sender is removed.
Unregistered(n, s) == IF hub[n] = s THEN [hub EXCEPT ![n] = NoSession] ELSE hub

\* Mutant: a claim never times out.
ClaimableFresh(n) == {r \in Runs : disp[r].node = n /\ rows[r] = "available"}

\* Rows claim_pending_dispatches selects for a node.
Claimable(n) == {r \in Runs : disp[r].node = n /\ rows[r] \in {"available", "stale"}}

\* The task is between two frames.
Waiting(s) == pc[s] = "loop"

\* Mutant: an unbounded channel.
EmitUnbounded(s, m) ==
    /\ live[s]
    /\ out' = IF s \in cut THEN out ELSE [out EXCEPT ![s] = Append(@, m)]

\* tx.send waits for room.  What is written to a cut stream nobody reads.
Emit(s, m) ==
    /\ live[s] /\ Len(out[s]) < ChanCap
    /\ out' = IF s \in cut THEN out ELSE [out EXCEPT ![s] = Append(@, m)]

\* The loop body ends by sending the answer m, if there is one to send.
Answer(m) == IF m = NoReply THEN "loop" ELSE "reply"

\* Mutant: the queue is drained whether or not the gate is open.
AfterFrameUngated(isReady, m) == "claim"

\* Mutant: the queue is drained only when the session becomes ready.
AfterFrameNoDrain(isReady, m) == Answer(m)

\* Before that, a session whose gate is open drains the queue.
AfterFrame(isReady, m) == IF isReady THEN "claim" ELSE Answer(m)

\* handle() returned node id n.  A session that was bound to another node must
\* leave that one first.
BindTo(s, n) ==
    \/ /\ bound[s] \in {n, NoNode}
       /\ bound' = [bound EXCEPT ![s] = n]
       /\ hint' = [hint EXCEPT ![s] = NoNode]
       /\ Goto(s, AfterFrame(ready[s], reply'[s]))
    \/ /\ bound[s] \notin {n, NoNode}
       /\ hint' = [hint EXCEPT ![s] = n]
       /\ Goto(s, "rebind")
       /\ UNCHANGED bound

\* flush_pending returns to the loop body, or to the timer's arm.
Return(s) == Goto(s, Answer(reply[s]))

(***************************************************************************)
(* Initial state                                                           *)
(***************************************************************************)
Init ==
    /\ pc = [s \in Sessions |-> "idle"]
    /\ bound = [s \in Sessions |-> NoNode]
    /\ ready = [s \in Sessions |-> FALSE]
    /\ hint = [s \in Sessions |-> NoNode]
    /\ acking = [s \in Sessions |-> {}]
    /\ batch = [s \in Sessions |-> {}]
    /\ reply = [s \in Sessions |-> NoReply]
    /\ cut = {}
    /\ live = [s \in Sessions |-> TRUE]
    /\ push = [s \in Sessions |-> <<>>]
    /\ out = [s \in Sessions |-> <<>>]
    /\ hub = [n \in Nodes |-> NoSession]
    /\ disp = [r \in Runs |-> [st |-> "new", node |-> NoNode, via |-> NoSession, id |-> 0]]
    /\ rows = [r \in Runs |-> "absent"]
    /\ gen = [n \in Nodes |-> 0]
    /\ results = [r \in Runs |-> {}]
    /\ faults = 0

(***************************************************************************)
(* A session's frames.  Each Recv action is one arm of handle().           *)
(***************************************************************************)
Open(s) ==
    /\ pc[s] = "idle"
    /\ Goto(s, "loop")
    /\ UNCHANGED <<bound, ready, hint, acking, batch, reply, chanVars, hub, disp, dbVars, faults>>

\* A frame whose answer is m is in hand.
Frame(s, m) ==
    /\ Waiting(s)
    /\ reply' = [reply EXCEPT ![s] = m]
    /\ UNCHANGED <<batch, chanVars, disp>>

\* An accepted Register creates the node's config row if it has none, and drops
\* whatever sender the Hub has for the node ...
RecvRegister(s, n) ==
    /\ Frame(s, NoReply)
    /\ gen' = [gen EXCEPT ![n] = IF @ = 0 THEN 1 ELSE @]
    /\ hub' = [hub EXCEPT ![n] = NoSession]
    /\ hint' = [hint EXCEPT ![s] = n]
    /\ Goto(s, "requeue")
    /\ UNCHANGED <<bound, ready, acking, rows, results, faults>>

\* ... then makes the rows in flight to it available.
RegisterRequeue(s) ==
    /\ pc[s] = "requeue"
    /\ RequeueNode(hint[s])
    /\ UNCHANGED reply
    /\ BindTo(s, hint[s])
    /\ UNCHANGED <<ready, acking, batch, chanVars, hub, disp, gen, results>>

\* A frame that neither names a node nor touches shared state: Ack, and a
\* Register with a bad bootstrap token or whose register_node failed.
RecvUnbound(s) ==
    /\ Frame(s, NoReply)
    /\ Goto(s, AfterFrame(ready[s], NoReply))
    /\ DbFault \/ UNCHANGED faults
    /\ UNCHANGED <<bound, ready, hint, acking, hub, dbVars>>

\* A generation that cannot be read is 0; a config that cannot be read is an
\* Error, of which the node takes no notice.
RecvHeartbeat(s, n) ==
    /\ \/ DbOk /\ Frame(s, GenMsg("heartbeat", gen[n]))
       \/ DbFault /\ Frame(s, GenMsg("heartbeat", 0))
    /\ BindTo(s, n)
    /\ UNCHANGED <<ready, acking, hub, dbVars>>

RecvPullConfig(s, n) ==
    /\ \/ DbOk /\ Frame(s, GenMsg("config", gen[n]))
       \/ DbFault /\ Frame(s, NoReply)
    /\ BindTo(s, n)
    /\ UNCHANGED <<ready, acking, hub, dbVars>>

\* PullSkills is answered with DesiredSkills or an Error; SkillState with an Ack.
\* What they do to the skill tables is not the session's concern.
RecvPullSkills(s, n) ==
    /\ Frame(s, SkillsMsg)
    /\ BindTo(s, n)
    /\ UNCHANGED <<ready, acking, hub, dbVars, faults>>

RecvSkillState(s, n) ==
    /\ Frame(s, NoReply)
    /\ BindTo(s, n)
    /\ UNCHANGED <<ready, acking, hub, dbVars, faults>>

\* Mutant: the row is acknowledged although the result could not be stored.
RecvReportAckAlways(s, n, r, o) ==
    /\ Frame(s, NoReply)
    /\ \/ DbOk /\ results' = [results EXCEPT ![r] = @ \cup {o}]
       \/ DbFault /\ UNCHANGED results
    /\ acking' = [acking EXCEPT ![s] = {r}]
    /\ hint' = [hint EXCEPT ![s] = n]
    /\ Goto(s, "ack")
    /\ UNCHANGED <<bound, ready, hub, rows, gen>>

\* store_reported_result; the row is deleted only when it succeeded.  It can fail
\* after insert_result: the denial event has a transaction of its own.
RecvReport(s, n, r, o) ==
    /\ Frame(s, NoReply)
    /\ \/ /\ DbOk
          /\ results' = [results EXCEPT ![r] = @ \cup {o}]
          /\ acking' = [acking EXCEPT ![s] = {r}]
          /\ hint' = [hint EXCEPT ![s] = n]
          /\ Goto(s, "ack")
          /\ UNCHANGED bound
       \/ /\ DbFault
          /\ \/ UNCHANGED results
             \/ results' = [results EXCEPT ![r] = @ \cup {o}]
          /\ UNCHANGED acking
          /\ BindTo(s, n)
    /\ UNCHANGED <<ready, hub, rows, gen>>

\* ack_pending_dispatch deletes by node and run.
AckRow(s) ==
    /\ pc[s] = "ack"
    /\ \/ /\ DbOk
          /\ rows' = [r \in Runs |-> IF r \in acking[s] /\ disp[r].node = hint[s]
                                     THEN "absent" ELSE rows[r]]
       \/ DbFault /\ UNCHANGED rows
    /\ acking' = [acking EXCEPT ![s] = {}]
    /\ UNCHANGED reply
    /\ BindTo(s, hint[s])
    /\ UNCHANGED <<ready, batch, chanVars, hub, disp, gen, results>>

\* NodeReady binds nothing.  The gate opens once, for the node already bound,
\* and not below the generation the center holds - 0, if it cannot read it.
RecvNodeReady(s, n, g) ==
    /\ Frame(s, NoReply)
    /\ \/ /\ bound[s] = n /\ ~ready[s]
          /\ (DbOk /\ g >= gen[n]) \/ DbFault
          /\ ready' = [ready EXCEPT ![s] = TRUE]
          /\ Goto(s, "activate")
       \/ /\ bound[s] # n \/ ready[s] \/ g < gen[n]
          /\ DbOk
          /\ Goto(s, AfterFrame(ready[s], NoReply))
          /\ UNCHANGED ready
    /\ UNCHANGED <<bound, hint, acking, hub, dbVars>>

\* Leaving the node bound before: its sender, then its rows, then a new gate.
Rebind(s) ==
    /\ pc[s] = "rebind"
    /\ hub' = Unregistered(bound[s], s)
    /\ Goto(s, "rebind_requeue")
    /\ UNCHANGED <<bound, ready, hint, acking, batch, reply, chanVars, disp, dbVars, faults>>

RebindRequeue(s) ==
    /\ pc[s] = "rebind_requeue"
    /\ RequeueNode(bound[s])
    /\ bound' = [bound EXCEPT ![s] = hint[s]]
    /\ ready' = [ready EXCEPT ![s] = FALSE]
    /\ hint' = [hint EXCEPT ![s] = NoNode]
    /\ Return(s)
    /\ UNCHANGED <<acking, batch, reply, chanVars, hub, disp, gen, results>>

(***************************************************************************)
(* Becoming ready, and flush_pending                                       *)
(***************************************************************************)
\* wait_ready_deadline fired: the gate opens without NodeReady.
ReadyTimeout(s) ==
    /\ Waiting(s)
    /\ bound[s] # NoNode /\ ~ready[s]
    /\ ready' = [ready EXCEPT ![s] = TRUE]
    /\ Goto(s, "activate")
    /\ UNCHANGED <<bound, hint, acking, batch, reply, chanVars, hub, disp, dbVars, faults>>

\* activate_ready: into the Hub before the queue is taken.
Activate(s) ==
    /\ pc[s] = "activate"
    /\ hub' = [hub EXCEPT ![bound[s]] = s]
    /\ Goto(s, "claim")
    /\ UNCHANGED <<bound, ready, hint, acking, batch, reply, chanVars, disp, dbVars, faults>>

\* Mutant: the rows are deleted when they are claimed.
ClaimDeletes(s) ==
    LET claimed == Claimable(bound[s])
    IN  /\ pc[s] = "claim" /\ DbOk
        /\ batch' = [batch EXCEPT ![s] = claimed]
        /\ rows' = [r \in Runs |-> IF r \in claimed THEN "absent" ELSE rows[r]]
        /\ IF claimed = {} THEN Return(s) ELSE Goto(s, "send")
        /\ UNCHANGED <<bound, ready, hint, acking, reply, chanVars, hub, disp, gen, results>>

\* claim_pending_dispatches.  With nothing to send flush_pending is over.
Claim(s) ==
    LET claimed == Claimable(bound[s])
    IN  /\ pc[s] = "claim"
        /\ \/ /\ DbOk
              /\ batch' = [batch EXCEPT ![s] = claimed]
              /\ rows' = [r \in Runs |-> IF r \in claimed THEN "claimed" ELSE rows[r]]
              /\ IF claimed = {} THEN Return(s) ELSE Goto(s, "send")
           \/ DbFault /\ UNCHANGED <<batch, rows>> /\ Return(s)
        /\ UNCHANGED <<bound, ready, hint, acking, reply, chanVars, hub, disp, gen, results>>

\* Claimed rows go out in id order.
SendClaimed(s, r) ==
    /\ pc[s] = "send"
    /\ r \in batch[s] /\ \A q \in batch[s] : disp[r].id <= disp[q].id
    /\ Emit(s, DispatchMsg(r))
    /\ batch' = [batch EXCEPT ![s] = @ \ {r}]
    /\ IF batch[s] = {r} THEN Return(s) ELSE UNCHANGED pc
    /\ UNCHANGED <<bound, ready, hint, acking, reply, cut, live, push, hub, disp, dbVars, faults>>

\* The receiver is gone: what was not sent is available again.
SendFailed(s) ==
    /\ pc[s] = "send" /\ ~live[s]
    /\ \/ DbOk /\ rows' = [r \in Runs |-> IF r \in batch[s] /\ rows[r] # "absent"
                                          THEN "available" ELSE rows[r]]
       \/ DbFault /\ UNCHANGED rows
    /\ batch' = [batch EXCEPT ![s] = {}]
    /\ Return(s)
    /\ UNCHANGED <<bound, ready, hint, acking, reply, chanVars, hub, disp, gen, results>>

\* The answer follows the dispatches its frame flushed.
Reply(s) ==
    /\ pc[s] = "reply"
    /\ \/ Emit(s, reply[s]) /\ Goto(s, "loop")
       \/ ~live[s] /\ UNCHANGED out /\ Goto(s, "exit")
    /\ reply' = [reply EXCEPT ![s] = NoReply]
    /\ UNCHANGED <<bound, ready, hint, acking, batch, cut, live, push, hub, disp, dbVars, faults>>

\* push_rx: a live dispatch is forwarded to the stream.
Forward(s) ==
    /\ Waiting(s) /\ push[s] # <<>>
    /\ push' = [push EXCEPT ![s] = Tail(@)]
    /\ \/ Emit(s, DispatchMsg(Head(push[s]))) /\ UNCHANGED pc
       \/ ~live[s] /\ UNCHANGED out /\ Goto(s, "exit")
    /\ UNCHANGED <<bound, ready, hint, acking, batch, reply, cut, live, hub, disp, dbVars, faults>>

(***************************************************************************)
(* The end of a session                                                    *)
(***************************************************************************)
\* The connection dies.  Nothing unread arrives any more; neither end knows yet.
Cut(s) ==
    /\ pc[s] \notin {"idle", "done"} /\ s \notin cut
    /\ cut' = cut \cup {s}
    /\ out' = [out EXCEPT ![s] = <<>>]
    /\ UNCHANGED <<taskVars, live, push, hub, disp, dbVars, faults>>

\* The center's transport reports the end of the stream.  On a half-open stream
\* this may never happen.
Drop(s) ==
    /\ pc[s] \notin {"idle", "done"} /\ s \in cut /\ live[s]
    /\ live' = [live EXCEPT ![s] = FALSE]
    /\ UNCHANGED <<taskVars, cut, push, out, hub, disp, dbVars, faults>>

StreamEnded(s) ==
    /\ Waiting(s) /\ ~live[s]
    /\ Goto(s, "exit")
    /\ UNCHANGED <<bound, ready, hint, acking, batch, reply, chanVars, hub, disp, dbVars, faults>>

Unregister(s) ==
    /\ pc[s] = "exit"
    /\ hub' = IF bound[s] = NoNode THEN hub ELSE Unregistered(bound[s], s)
    /\ Goto(s, "exit_requeue")
    /\ UNCHANGED <<bound, ready, hint, acking, batch, reply, chanVars, disp, dbVars, faults>>

\* The task returns: push_rx is dropped, and what it still held is lost.
ExitRequeue(s) ==
    /\ pc[s] = "exit_requeue"
    /\ IF bound[s] = NoNode THEN DbOk /\ UNCHANGED rows ELSE RequeueNode(bound[s])
    /\ push' = [push EXCEPT ![s] = <<>>]
    /\ bound' = [bound EXCEPT ![s] = NoNode]
    /\ ready' = [ready EXCEPT ![s] = FALSE]
    /\ Goto(s, "done")
    /\ UNCHANGED <<hint, acking, batch, reply, cut, live, out, hub, disp, gen, results>>

(***************************************************************************)
(* HTTP: dispatch_to_node and put_config                                   *)
(***************************************************************************)
\* Hub.send clones the sender under the lock ...
DispatchStart(r, n) ==
    /\ disp[r].st = "new" /\ gen[n] > 0
    /\ disp' = [disp EXCEPT ![r] = [@ EXCEPT
                    !.st = IF hub[n] = NoSession THEN "unsent" ELSE "holding",
                    !.node = n, !.via = hub[n]]]
    /\ UNCHANGED <<taskVars, chanVars, hub, dbVars, faults>>

\* ... and sends outside it, waiting for room while the session task lives.
HubSend(r) ==
    /\ disp[r].st = "holding"
    /\ LET s == disp[r].via
       IN  \/ /\ pc[s] # "done" /\ Len(push[s]) < ChanCap
              /\ push' = [push EXCEPT ![s] = Append(@, r)]
              /\ disp' = [disp EXCEPT ![r] = [@ EXCEPT !.st = "live", !.via = NoSession]]
           \/ /\ pc[s] = "done"
              /\ disp' = [disp EXCEPT ![r] = [@ EXCEPT !.st = "unsent", !.via = NoSession]]
              /\ UNCHANGED push
    /\ UNCHANGED <<taskVars, cut, live, out, hub, dbVars, faults>>

\* AUTO_INCREMENT of pending_dispatches.id.
NextId == Cardinality({q \in Runs : disp[q].id # 0}) + 1

Enqueue(r) ==
    /\ disp[r].st = "unsent"
    /\ \/ /\ DbOk
          /\ rows' = [rows EXCEPT ![r] = "available"]
          /\ disp' = [disp EXCEPT ![r] = [@ EXCEPT !.st = "queued", !.id = NextId]]
       \/ DbFault /\ UNCHANGED rows /\ disp' = [disp EXCEPT ![r].st = "rejected"]
    /\ UNCHANGED <<taskVars, chanVars, hub, gen, results>>

PutConfig(n) ==
    /\ gen[n] \in 1..(MaxGen - 1)
    /\ gen' = [gen EXCEPT ![n] = @ + 1]
    /\ UNCHANGED <<taskVars, chanVars, hub, disp, rows, results, faults>>

\* PENDING_DISPATCH_ACK_TIMEOUT passes over a claimed row.
Expire(r) ==
    /\ rows[r] = "claimed"
    /\ rows' = [rows EXCEPT ![r] = "stale"]
    /\ UNCHANGED <<taskVars, chanVars, hub, disp, gen, results, faults>>

\* The center process dies: tasks, channels and the Hub are gone, rows stay.
\* HTTP handlers in progress never answer.
Restart ==
    /\ DbFault
    /\ pc' = [s \in Sessions |-> IF pc[s] = "idle" THEN "idle" ELSE "done"]
    /\ bound' = [s \in Sessions |-> NoNode]
    /\ ready' = [s \in Sessions |-> FALSE]
    /\ hint' = [s \in Sessions |-> NoNode]
    /\ reply' = [s \in Sessions |-> NoReply]
    /\ live' = [s \in Sessions |-> pc[s] = "idle"]
    /\ cut' = {s \in Sessions : pc[s] # "idle"}
    /\ out' = [s \in Sessions |-> <<>>]
    /\ batch' = [s \in Sessions |-> {}]
    /\ acking' = [s \in Sessions |-> {}]
    /\ push' = [s \in Sessions |-> <<>>]
    /\ hub' = [n \in Nodes |-> NoSession]
    /\ disp' = [r \in Runs |-> IF disp[r].st \in {"holding", "unsent"}
                               THEN [disp[r] EXCEPT !.st = "rejected", !.via = NoSession] ELSE disp[r]]
    /\ UNCHANGED dbVars

(***************************************************************************)
(* The task's own steps, and those of its surroundings                     *)
(***************************************************************************)
TaskStep(s) ==
    \/ RegisterRequeue(s) \/ AckRow(s) \/ Rebind(s) \/ RebindRequeue(s)
    \/ Activate(s) \/ Claim(s) \/ (\E r \in Runs : SendClaimed(s, r))
    \/ SendFailed(s) \/ Reply(s) \/ Forward(s)
    \/ StreamEnded(s) \/ Unregister(s) \/ ExitRequeue(s)

HttpStep(r) == (\E n \in Nodes : DispatchStart(r, n)) \/ HubSend(r) \/ Enqueue(r)

\* Any client, any frame.  A run id is known only once it has been dispatched.
RecvAny(s) ==
    \/ RecvUnbound(s)
    \/ \E n \in Nodes :
        \/ RecvRegister(s, n) \/ RecvHeartbeat(s, n)
        \/ RecvPullConfig(s, n) \/ RecvPullSkills(s, n) \/ RecvSkillState(s, n)
        \/ \E r \in Runs, o \in Outcomes : disp[r].st # "new" /\ RecvReport(s, n, r, o)
        \/ \E g \in Gens : RecvNodeReady(s, n, g)

\* The transport takes a message off the response channel.
Take(s) ==
    /\ out[s] # <<>>
    /\ out' = [out EXCEPT ![s] = Tail(@)]
    /\ UNCHANGED <<taskVars, cut, live, push, hub, disp, dbVars, faults>>

Next ==
    \/ \E s \in Sessions : \/ Open(s) \/ RecvAny(s) \/ ReadyTimeout(s)
                           \/ TaskStep(s) \/ Cut(s) \/ Drop(s) \/ Take(s)
    \/ \E r \in Runs : HttpStep(r) \/ Expire(r)
    \/ \E n \in Nodes : PutConfig(n)
    \/ Restart

Spec == Init /\ [][Next]_vars

(***************************************************************************)
(* Properties                                                              *)
(***************************************************************************)
Labels == {"idle", "loop", "requeue", "ack", "rebind", "rebind_requeue", "activate",
           "claim", "send", "reply", "exit", "exit_requeue", "done"}

TaskTypeOK ==
    /\ pc \in [Sessions -> Labels]
    /\ bound \in [Sessions -> Nodes \cup {NoNode}]
    /\ ready \in [Sessions -> BOOLEAN]
    /\ hint \in [Sessions -> Nodes \cup {NoNode}]
    /\ acking \in [Sessions -> SUBSET Runs]
    /\ batch \in [Sessions -> SUBSET Runs]
    /\ reply \in [Sessions -> Replies \cup {NoReply}]

ChanTypeOK ==
    /\ cut \subseteq Sessions
    /\ live \in [Sessions -> BOOLEAN]
    /\ push \in [Sessions -> Seq(Runs)]
    /\ out \in [Sessions -> Seq(ServerMessages)]
    /\ \A s \in Sessions : Len(push[s]) <= ChanCap /\ Len(out[s]) <= ChanCap

DispTypeOK ==
    disp \in [Runs -> [st : {"new", "holding", "unsent", "live", "queued", "rejected"},
                       node : Nodes \cup {NoNode},
                       via : Sessions \cup {NoSession},
                       id : Nat]]

DbTypeOK ==
    /\ hub \in [Nodes -> Sessions \cup {NoSession}]
    /\ rows \in [Runs -> RowStates]
    /\ gen \in [Nodes -> Gens]
    /\ results \in [Runs -> SUBSET Outcomes]
    /\ faults \in Nat

\* Every variable has its type and no mpsc channel holds more than its capacity.
TypeOK == TaskTypeOK /\ ChanTypeOK /\ DispTypeOK /\ DbTypeOK

\* A sender in the Hub belongs to a task that is still running, is bound to
\* that node and has passed its ReadyGate: a live dispatch is never handed to a
\* session that has not become ready, nor to one that has unregistered.
HubSound ==
    \A n \in Nodes : hub[n] # NoSession =>
        /\ bound[hub[n]] = n
        /\ ready[hub[n]]
        /\ pc[hub[n]] \notin {"idle", "exit_requeue", "done"}

\* A queued dispatch is not forgotten: its row stays until a result of the run
\* has been stored, whatever sessions, requeues, failures and restarts do.
RowUntilResult ==
    \A r \in Runs : disp[r].st = "queued" => rows[r] # "absent" \/ results[r] # {}

\* As long as no database call failed and the center did not restart, a claimed
\* row has a session of its node that will requeue it when it ends; nothing
\* waits for PENDING_DISPATCH_ACK_TIMEOUT.
NoOrphanClaim ==
    faults = 0 =>
        \A r \in Runs : rows[r] \in InFlight =>
            \E s \in Sessions : bound[s] = disp[r].node /\ pc[s] \notin {"idle", "done"}

\* What flush_pending has in hand was claimed for the node the session is bound
\* to, and only after its gate opened.
FlushGated ==
    \A s \in Sessions : batch[s] # {} =>
        /\ ready[s] /\ pc[s] = "send"
        /\ \A r \in batch[s] : disp[r].node = bound[s] /\ disp[r].st = "queued"

(***************************************************************************)
(* The queue refines DispatchLedger: a row is a debt.                      *)
(***************************************************************************)
Ledger == INSTANCE DispatchLedger WITH
              accepted <- {r \in Runs : disp[r].st = "queued"},
              owed     <- {r \in Runs : rows[r] # "absent"},
              stored   <- results

\* Whatever sessions, the Hub, requeues, failures and restarts do, the table is
\* a ledger: nothing is owed twice and nothing is struck off unpaid.
RefinesLedger == Ledger!LSpec
=============================================================================
