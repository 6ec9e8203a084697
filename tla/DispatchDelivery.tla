--------------------------- MODULE DispatchDelivery ---------------------------
(***************************************************************************)
(* Dispatch end to end: the center of ControlSession, one node daemon      *)
(* (novbot-node/src/main.rs) and the streams between them.  A stream can   *)
(* be cut at any time; the two ends learn of it separately, the center     *)
(* possibly never.  The node can crash: what it keeps in memory is lost    *)
(* and its retry spool file stays.                                         *)
(***************************************************************************)
EXTENDS ControlSession, SequencesExt

CONSTANTS
    Node,       \* the node daemon; Nodes = {Node}
    BadGens,    \* generations whose specs_json the node may fail to parse
    UpCap,      \* capacity of the node's outbound channel
    HalfOpen,   \* may the center miss a cut while the node reconnects?
    MaxCuts,    \* bound on cut streams
    MaxCrashes, \* bound on node crashes
    MaxTroubles \* bound on cuts, failed calls, restarts, bad generations and
                \* runs without an id together

ASSUME DeliveryAssumption ==
    /\ Nodes = {Node}
    /\ Outcomes = {"ran", "failed", "duplicate"}
    /\ BadGens \subseteq Gens
    /\ HalfOpen \in BOOLEAN
    /\ UpCap \in Nat \ {0, 1}
    /\ MaxCuts \in Nat /\ MaxCrashes \in Nat /\ MaxTroubles \in Nat

VARIABLES
    nsess,    \* the session of session_out, or NoSession
    up,       \* frames the node sent that the session task has not read
    pulled,   \* pulled_config of run_session
    cfg,      \* RuntimeState: config_loaded and config_generation
    seen,     \* RuntimeState: seen_dispatch_runs
    job,      \* the dispatch being executed
    spool,    \* report_retry.jsonl
    drained,  \* reports a flush_spool has in hand, per caller
    ran,      \* how often the process has executed each run that has an id
    bad,      \* generations whose specs_json the node cannot parse
    unnamed,  \* the run whose id is the empty string, if there is one
    forced,   \* sessions whose gate was opened by the ready timeout
    cuts, crashes

nodeVars == <<nsess, up, pulled, cfg, seen, job, spool, drained, ran, cuts, crashes>>
allVars  == <<vars, nodeVars, forced>>

Flushers  == {"session", "tick"}
ReportFrame(p) == [kind |-> "report", run |-> p.run, outcome |-> p.outcome]

NotLoaded == [loaded |-> FALSE, gen |-> 0]

NodeInit ==
    /\ nsess = NoSession
    /\ up = [s \in Sessions |-> <<>>]
    /\ pulled = FALSE
    /\ cfg = NotLoaded
    /\ seen = {}
    /\ job = {}
    /\ spool = <<>>
    /\ drained = [f \in Flushers |-> <<>>]
    /\ ran = [r \in Runs |-> 0]
    /\ cuts = 0 /\ crashes = 0

DInit == Init /\ NodeInit /\ forced = {} /\ bad \in SUBSET BadGens
         /\ unnamed \in {{}} \cup {{r} : r \in Runs}
         /\ Cardinality(bad) + Cardinality(unnamed) <= MaxTroubles

(***************************************************************************)
(* The node's outbound side                                                *)
(***************************************************************************)
\* try_send reports success: the message is in the session's channel, whether or
\* not the stream still carries anything.  It waits for room.
Sent(fs) ==
    /\ nsess # NoSession
    /\ \/ nsess \in cut /\ UNCHANGED up
       \/ /\ nsess \notin cut
          /\ Len(up[nsess]) + Len(fs) <= UpCap
          /\ up' = [up EXCEPT ![nsess] = @ \o fs]

\* try_send reports failure: no session, or its receiver is gone.
NotSent == (nsess = NoSession \/ nsess \in cut) /\ UNCHANGED up

\* A message whose loss the caller ignores.
TrySend(f) == Sent(<<f>>) \/ NotSent

\* send_report_or_spool
SendReport(p) ==
    \/ Sent(<<ReportFrame(p)>>) /\ UNCHANGED spool
    \/ NotSent /\ spool' = Append(spool, p)

\* run_session: open the stream, send Register, drain the spool.
Connect(s) ==
    /\ nsess = NoSession /\ job = {}
    /\ HalfOpen \/ \A z \in cut : pc[z] = "done"
    /\ Open(s)
    /\ nsess' = s
    /\ up' = [up EXCEPT ![s] = <<[kind |-> "register"]>>]
    /\ pulled' = FALSE
    /\ drained' = [drained EXCEPT !["session"] = spool]
    /\ spool' = <<>>
    /\ UNCHANGED <<cfg, seen, job, ran, cuts, crashes, forced>>

\* A ticker of its own, which goes on while the receive loop executes a dispatch.
\* heartbeat_secs is long against a round trip, so that what the node sent has been
\* read, and what the center sent too unless the loop is busy.
HeartbeatTick ==
    /\ nsess # NoSession
    /\ up[nsess] = <<>> /\ Waiting(nsess)
    /\ out[nsess] # <<>> => job # {}
    /\ \A i \in 1..Len(out[nsess]) : out[nsess][i].kind # "heartbeat"
    /\ Sent(<<[kind |-> "heartbeat"]>>)
    /\ UNCHANGED <<vars, nsess, pulled, cfg, seen, job, spool, drained, ran, cuts, crashes, forced>>

\* The retry tick's flush_spool: drain empties the file.
FlushTick ==
    /\ nsess # NoSession
    /\ drained["tick"] = <<>> /\ spool # <<>>
    /\ drained' = [drained EXCEPT !["tick"] = spool]
    /\ spool' = <<>>
    /\ UNCHANGED <<vars, nsess, up, pulled, cfg, seen, job, ran, cuts, crashes, forced>>

\* One iteration of flush_spool.  On a failed send the item goes back to the
\* file and the loop breaks: the items behind it are dropped.
FlushOne(f) ==
    /\ drained[f] # <<>>
    /\ \/ /\ Sent(<<ReportFrame(Head(drained[f]))>>)
          /\ drained' = [drained EXCEPT ![f] = Tail(@)]
          /\ UNCHANGED spool
       \/ /\ NotSent
          /\ spool' = Append(spool, Head(drained[f]))
          /\ drained' = [drained EXCEPT ![f] = <<>>]
    /\ UNCHANGED <<vars, nsess, pulled, cfg, seen, job, ran, cuts, crashes, forced>>

(***************************************************************************)
(* The node's receive loop.  It handles one message at a time; a dispatch  *)
(* is executed inside it.                                                  *)
(***************************************************************************)
Receiving(k) ==
    /\ nsess # NoSession /\ nsess \notin cut
    /\ job = {} /\ drained["session"] = <<>>
    /\ out[nsess] # <<>> /\ Head(out[nsess]).kind = k

Msg == Head(out[nsess])

\* The message leaves the stream; the center's other variables do not change.
Consume ==
    /\ out' = [out EXCEPT ![nsess] = Tail(@)]
    /\ UNCHANGED <<taskVars, cut, live, push, hub, disp, dbVars, faults, nsess, ran, cuts, crashes, forced>>

\* The answer to PullSkills, or drive_skills giving up on it: at boot the node
\* goes on to its config.  The skill exchange itself is left out here.
OnSkills ==
    /\ nsess # NoSession /\ nsess \notin cut /\ ~pulled
    /\ job = {} /\ drained["session"] = <<>>
    /\ TrySend([kind |-> "pull_config"])
    /\ pulled' = TRUE
    /\ UNCHANGED <<vars, nsess, cfg, seen, job, spool, drained, ran, cuts, crashes, forced>>

OnHeartbeat ==
    /\ Receiving("heartbeat")
    /\ Consume
    /\ IF Msg.gen > cfg.gen THEN TrySend([kind |-> "pull_config"]) ELSE UNCHANGED up
    /\ UNCHANGED <<pulled, cfg, seen, job, spool, drained>>

\* apply_config, then NodeReady with the generation just applied.
OnConfig ==
    /\ Receiving("config") /\ Msg.gen \notin bad
    /\ Consume
    /\ cfg' = [loaded |-> TRUE, gen |-> Msg.gen]
    /\ TrySend([kind |-> "node_ready", gen |-> Msg.gen])
    /\ UNCHANGED <<pulled, seen, job, spool, drained>>

\* apply_config fails to parse: nothing is applied, no NodeReady is sent.
OnBadConfig ==
    /\ Receiving("config") /\ Msg.gen \in bad
    /\ Consume
    /\ UNCHANGED <<up, pulled, cfg, seen, job, spool, drained>>

\* run_dispatch for a run id already in seen_dispatch_runs.
OnDuplicate ==
    /\ Receiving("dispatch") /\ Msg.run \in seen
    /\ Consume
    /\ SendReport([run |-> Msg.run, outcome |-> "duplicate"])
    /\ UNCHANGED <<pulled, cfg, seen, job, drained>>

\* A dispatch whose run id is empty gets a fresh id each time it arrives, which
\* is never looked up nor remembered; its result is reported under that id.
Remembered == seen \cup ({Msg.run} \ unnamed)

\* run_dispatch that cannot run: no config yet, or the spec is not in it.
OnCannotRun ==
    /\ Receiving("dispatch") /\ Msg.run \notin seen
    /\ Consume
    /\ seen' = Remembered
    /\ SendReport([run |-> Msg.run, outcome |-> "failed"])
    /\ UNCHANGED <<pulled, cfg, job, drained>>

\* Mutant: the run id is not remembered.
OnDispatchForgets ==
    /\ Receiving("dispatch") /\ Msg.run \notin seen
    /\ cfg.loaded
    /\ job' = {Msg.run}
    /\ ran' = [r \in Runs |-> ran[r] + IF r \in {Msg.run} \ unnamed THEN 1 ELSE 0]
    /\ out' = [out EXCEPT ![nsess] = Tail(@)]
    /\ UNCHANGED <<taskVars, cut, live, push, hub, disp, dbVars, faults>>
    /\ UNCHANGED <<nsess, up, pulled, cfg, seen, spool, drained, cuts, crashes, forced>>

\* run_dispatch that starts execute_spec ...
OnDispatch ==
    /\ Receiving("dispatch") /\ Msg.run \notin seen
    /\ cfg.loaded
    /\ seen' = Remembered
    /\ job' = {Msg.run}
    /\ ran' = [r \in Runs |-> ran[r] + IF r \in {Msg.run} \ unnamed THEN 1 ELSE 0]
    /\ out' = [out EXCEPT ![nsess] = Tail(@)]
    /\ UNCHANGED <<taskVars, cut, live, push, hub, disp, dbVars, faults>>
    /\ UNCHANGED <<nsess, up, pulled, cfg, spool, drained, cuts, crashes, forced>>

\* ... and reports when it returns.
Finish ==
    /\ job # {}
    /\ SendReport([run |-> CHOOSE r \in job : TRUE, outcome |-> "ran"])
    /\ job' = {}
    /\ UNCHANGED <<vars, nsess, pulled, cfg, seen, drained, ran, cuts, crashes, forced>>

\* The stream ended: run_session returns and session_out becomes None.
NodeNotices ==
    /\ nsess \in cut /\ job = {} /\ drained["session"] = <<>>
    /\ nsess' = NoSession
    /\ UNCHANGED <<vars, up, pulled, cfg, seen, job, spool, drained, ran, cuts, crashes, forced>>

(***************************************************************************)
(* Failures                                                                *)
(***************************************************************************)
\* Streams are bounded by Sessions: a failure must leave one to reconnect with.
SessionLeft == \E s \in Sessions : pc[s] = "idle"

\* The center may have received any prefix of what the node sent.
Sever ==
    /\ SessionLeft
    /\ Cut(nsess)
    /\ cuts < MaxCuts /\ cuts' = cuts + 1
    /\ \E p \in Prefixes(up[nsess]) : up' = [up EXCEPT ![nsess] = p]
    /\ UNCHANGED <<nsess, pulled, cfg, seen, job, spool, drained, ran, crashes, forced>>

Crash ==
    /\ SessionLeft
    /\ crashes < MaxCrashes /\ crashes' = crashes + 1
    /\ IF nsess = NoSession \/ nsess \in cut
       THEN UNCHANGED <<vars, up>>
       ELSE Cut(nsess) /\ \E p \in Prefixes(up[nsess]) : up' = [up EXCEPT ![nsess] = p]
    /\ nsess' = NoSession
    /\ pulled' = FALSE /\ cfg' = NotLoaded /\ seen' = {} /\ job' = {}
    /\ drained' = [f \in Flushers |-> <<>>]
    /\ ran' = [r \in Runs |-> 0]
    /\ UNCHANGED <<spool, cuts, forced>>

CenterRestart ==
    /\ SessionLeft
    /\ Restart
    /\ up' = [s \in Sessions |-> <<>>]
    /\ UNCHANGED <<nsess, pulled, cfg, seen, job, spool, drained, ran, cuts, crashes, forced>>

(***************************************************************************)
(* The center reads the node's frames                                      *)
(***************************************************************************)
\* The result of an unnamed run is stored under an id no row has: it acknowledges
\* nothing and only binds the session, as RecvSkillState does.
RecvFrame(s, f) ==
    \/ f.kind = "register" /\ RecvRegister(s, Node)
    \/ f.kind = "register" /\ RecvUnbound(s) /\ faults' # faults  \* rejected
    \/ f.kind = "heartbeat" /\ RecvHeartbeat(s, Node)
    \/ f.kind = "pull_config" /\ RecvPullConfig(s, Node)
    \/ f.kind = "node_ready" /\ RecvNodeReady(s, Node, f.gen)
    \/ f.kind = "report" /\ f.run \notin unnamed /\ RecvReport(s, Node, f.run, f.outcome)
    \/ f.kind = "report" /\ f.run \in unnamed /\ RecvSkillState(s, Node)

CenterRecv(s) ==
    /\ up[s] # <<>>
    /\ RecvFrame(s, Head(up[s]))
    /\ up' = [up EXCEPT ![s] = Tail(@)]
    /\ UNCHANGED <<nsess, pulled, cfg, seen, job, spool, drained, ran, cuts, crashes, forced>>

CenterTimeout(s) ==
    /\ ReadyTimeout(s)
    /\ forced' = forced \cup {s}
    /\ UNCHANGED nodeVars

\* The center learns that a cut stream has ended.
CenterDrop(s) == Drop(s) /\ UNCHANGED <<nodeVars, forced>>

CenterStep(s) == TaskStep(s) /\ UNCHANGED <<nodeVars, forced>>

Http(r) == HttpStep(r) /\ UNCHANGED <<nodeVars, forced>>

ExpireClaim(r) == Expire(r) /\ UNCHANGED <<nodeVars, forced>>

ChangeConfig == PutConfig(Node) /\ UNCHANGED <<nodeVars, forced>>

Receive ==
    \/ OnHeartbeat \/ OnConfig \/ OnBadConfig
    \/ OnDuplicate \/ OnCannotRun \/ OnDispatch

NodeStep ==
    \/ Receive \/ OnSkills \/ Finish \/ NodeNotices
    \/ \E f \in Flushers : FlushOne(f)

DNext ==
    \/ \E s \in Sessions : \/ Connect(s) \/ CenterRecv(s) \/ CenterTimeout(s)
                           \/ CenterDrop(s) \/ CenterStep(s)
    \/ \E r \in Runs : Http(r) \/ ExpireClaim(r)
    \/ NodeStep \/ HeartbeatTick \/ FlushTick \/ ChangeConfig
    \/ (nsess # NoSession /\ Sever) \/ Crash \/ CenterRestart

\* Every step that can fail can also succeed, so the bound on failures takes no
\* step away that fairness counts on.
DSpec ==
    DInit /\ [][/\ DNext /\ cuts' + faults' + Cardinality(bad) + Cardinality(unnamed) <= MaxTroubles
                /\ UNCHANGED <<bad, unnamed>>]_<<allVars, bad, unnamed>>

(***************************************************************************)
(* Tasks and handlers that can run do run, ticks tick, a claim grows old.  *)
(* The gate's deadline is absolute, so frames arriving cannot put it off:  *)
(* strong fairness.  If streams can be half open nothing obliges the       *)
(* center to notice a cut.  No failure is obliged to happen.  The runs are *)
(* ones whose execution ends: a guest that waits in the host for ever      *)
(* (SkillRun, Held) keeps the receive loop of the node for itself.         *)
(***************************************************************************)
Fairness ==
    /\ \A s \in Sessions : /\ WF_allVars(CenterRecv(s)) /\ WF_allVars(CenterStep(s))
                           /\ SF_allVars(CenterTimeout(s))
                           /\ WF_allVars(~HalfOpen /\ CenterDrop(s))
    /\ \A r \in Runs : WF_allVars(ExpireClaim(r)) /\ WF_allVars(Http(r))
    /\ WF_allVars(Receive) /\ WF_allVars(OnSkills)
    /\ WF_allVars(Finish) /\ WF_allVars(NodeNotices)
    /\ \A f \in Flushers : WF_allVars(FlushOne(f))
    /\ WF_allVars(HeartbeatTick) /\ WF_allVars(FlushTick)
    /\ WF_allVars(\E s \in Sessions : Connect(s))

FairSpec == DSpec /\ Fairness

(***************************************************************************)
(* Properties                                                              *)
(***************************************************************************)
\* One process executes a run that has an id at most once, however often the center
\* delivers it and over however many sessions.
AtMostOncePerBoot == \A r \in Runs \ unnamed : ran[r] <= 1

\* Unless the ready timeout opened its gate, a session carries no dispatch to a
\* node that has not applied a config since it started.
ConfigBeforeDispatch ==
    nsess # NoSession /\ nsess \notin forced \cup cut =>
        \A i \in 1..Len(out[nsess]) : out[nsess][i].kind = "dispatch" => cfg.loaded

\* A queued dispatch that has an id is answered in the end: some outcome is stored.
QueuedGetsResult ==
    \A r \in Runs : r \notin unnamed /\ disp[r].st = "queued" ~> results[r] # {}
=============================================================================
