------------------------------ MODULE ControlProofs ------------------------------
(***************************************************************************)
(* The center's control session and its queue, for any nodes, sessions,    *)
(* runs, channels and faults: the inductive invariant, the refinement of   *)
(* DispatchLedger, and the properties that need the node daemon as well.   *)
(***************************************************************************)
EXTENDS DispatchDelivery, ControlInvariant, FiniteSetTheorems, TLAPS

(***************************************************************************)
(* ControlSession: the center, whatever its clients do                     *)
(***************************************************************************)
\* The parts of the invariant, unexpanded.
LEMMA IInvParts ==
    ASSUME IInv
    PROVE  /\ TaskTypeOK /\ ChanTypeOK /\ DispTypeOK /\ DbTypeOK
           /\ TaskInv /\ AckInv /\ DispInv
           /\ HubSound /\ RowUntilResult /\ NoOrphanClaim /\ FlushGated
BY DEF IInv, TypeOK

\* A witness of NoOrphanClaim survives a step that keeps bound, running tasks
\* bound and running and claims nothing new.
LEMMA KeepsClaims ==
    ASSUME DispInv, NoOrphanClaim, DispTypeOK,
           faults' = 0 => faults = 0,
           \A q \in Runs : rows'[q] \in InFlight =>
               rows[q] \in InFlight /\ disp'[q].node = disp[q].node,
           \A t \in Sessions : bound[t] \in Nodes /\ pc[t] \notin {"idle", "done"} =>
               bound'[t] = bound[t] /\ pc'[t] \notin {"idle", "done"}
    PROVE  NoOrphanClaim'
<1> SUFFICES ASSUME faults' = 0, NEW q \in Runs, rows'[q] \in InFlight
             PROVE \E t \in Sessions : bound'[t] = disp'[q].node /\ pc'[t] \notin {"idle", "done"}
  BY DEF NoOrphanClaim
<1>1. PICK t \in Sessions : bound[t] = disp[q].node /\ pc[t] \notin {"idle", "done"}
  BY DEF NoOrphanClaim
<1>2. disp[q].node \in Nodes
  BY DEF DispInv, InFlight
<1> QED BY <1>1, <1>2

\* Appending below the capacity keeps a channel a bounded sequence.
LEMMA AppendType ==
    ASSUME NEW S, NEW T, NEW c \in [S -> Seq(T)], NEW s \in S, NEW m \in T,
           ChanCap \in Nat, Len(c[s]) < ChanCap,
           \A t \in S : Len(c[t]) <= ChanCap,
           NEW d, d = [c EXCEPT ![s] = Append(@, m)]
    PROVE  d \in [S -> Seq(T)] /\ \A t \in S : Len(d[t]) <= ChanCap
<1>1. c[s] \in Seq(T) /\ Append(c[s], m) \in Seq(T) /\ Len(Append(c[s], m)) = Len(c[s]) + 1
  OBVIOUS
<1>2. d \in [S -> Seq(T)]
  BY <1>1
<1>3. ASSUME NEW t \in S PROVE Len(d[t]) <= ChanCap
  <2>1. CASE t = s BY <1>1, <2>1
  <2>2. CASE t # s BY <2>2
  <2> QED BY <2>1, <2>2
<1> QED BY <1>2, <1>3

\* So does taking the head off.
LEMMA TailType ==
    ASSUME NEW S, NEW T, NEW c \in [S -> Seq(T)], NEW s \in S, c[s] # <<>>,
           ChanCap \in Nat, \A t \in S : Len(c[t]) <= ChanCap,
           NEW d, d = [c EXCEPT ![s] = Tail(@)]
    PROVE  d \in [S -> Seq(T)] /\ \A t \in S : Len(d[t]) <= ChanCap
<1>1. c[s] \in Seq(T) /\ Tail(c[s]) \in Seq(T) /\ Len(Tail(c[s])) = Len(c[s]) - 1
  OBVIOUS
<1>2. d \in [S -> Seq(T)]
  BY <1>1
<1>3. ASSUME NEW t \in S PROVE Len(d[t]) <= ChanCap
  <2>1. CASE t = s BY <1>1, <2>1
  <2>2. CASE t # s BY <2>2
  <2> QED BY <2>1, <2>2
<1> QED BY <1>2, <1>3

\* tx.send writes a server message and stays within the channel.
LEMMA EmitType ==
    ASSUME ChanTypeOK, NEW s \in Sessions, NEW m \in ServerMessages, Emit(s, m)
    PROVE  out' \in [Sessions -> Seq(ServerMessages)] /\ \A t \in Sessions : Len(out'[t]) <= ChanCap
<1>1. CASE s \in cut
  BY <1>1 DEF Emit, ChanTypeOK
<1>2. CASE s \notin cut
  BY <1>2, AppendType, ControlAssumption DEF Emit, ChanTypeOK
<1> QED BY <1>1, <1>2

\* AUTO_INCREMENT counts the rows so far.
LEMMA NextIdType == NextId \in Nat
<1>1. IsFiniteSet({q \in Runs : disp[q].id # 0})
  BY ControlAssumption, FS_Subset
<1> QED BY <1>1, FS_CardinalityType DEF NextId

(***************************************************************************)
(* One lemma per action                                                    *)
(***************************************************************************)
\* A task that has just been spawned is bound to nothing.
LEMMA OpenStep ==
    ASSUME IInv, NEW s \in Sessions, Open(s) PROVE IInv'
<1> USE IInvParts, ControlAssumption DEF taskVars, chanVars, dbVars, Goto, Waiting
<1>1. TaskTypeOK'
  BY DEF Open, TaskTypeOK, Labels, TaskInv
<1>2. TaskInv'
  BY DEF Open, TaskInv, TaskTypeOK, Labels, HubSound, DbTypeOK
<1>3. HubSound'
  BY DEF Open, HubSound, TaskInv, TaskTypeOK, DbTypeOK
<1>4. NoOrphanClaim'
  BY DEF Open, NoOrphanClaim, TaskInv, TaskTypeOK, DbTypeOK, DispTypeOK, DispInv, RowStates, InFlight
<1>5. FlushGated'
  BY DEF Open, FlushGated, TaskInv, TaskTypeOK, DispTypeOK, DbTypeOK, DispInv, RowStates, InFlight
<1>6. UNCHANGED <<ChanTypeOK, DispTypeOK, DbTypeOK, AckInv, DispInv, RowUntilResult>>
  BY DEF Open, ChanTypeOK, DispTypeOK, DbTypeOK, AckInv, DispInv, RowUntilResult
<1> QED BY <1>1, <1>2, <1>3, <1>4, <1>5, <1>6 DEF IInv, TypeOK

\* Register evicts the node's sender: the Hub only loses an entry.
LEMMA RecvRegisterStep ==
    ASSUME IInv, NEW s \in Sessions, NEW n \in Nodes, RecvRegister(s, n) PROVE IInv'
<1> USE IInvParts, ControlAssumption DEF taskVars, chanVars, dbVars, Goto, Waiting
<1>1. TaskTypeOK'
  BY DEF RecvRegister, Frame, TaskTypeOK, Labels, TaskInv
<1>2. DbTypeOK'
  BY DEF RecvRegister, Frame, DbTypeOK, TaskTypeOK, RowStates, InFlight, Gens, TaskInv
<1>3. TaskInv'
  BY DEF RecvRegister, Frame, TaskInv, TaskTypeOK, Labels, HubSound, DbTypeOK
<1>4. HubSound'
  BY DEF RecvRegister, Frame, HubSound, TaskInv, TaskTypeOK, DbTypeOK
<1>5. NoOrphanClaim'
  BY DEF RecvRegister, Frame, NoOrphanClaim, TaskInv, TaskTypeOK, DbTypeOK, DispTypeOK, DispInv, RowStates, InFlight
<1>6. FlushGated'
  BY DEF RecvRegister, Frame, FlushGated, TaskInv, TaskTypeOK, DispTypeOK, DbTypeOK, DispInv, RowStates, InFlight
<1>7. UNCHANGED <<ChanTypeOK, DispTypeOK, AckInv, DispInv, RowUntilResult>>
  BY DEF RecvRegister, Frame, ChanTypeOK, DispTypeOK, AckInv, DispInv, RowUntilResult
<1> QED BY <1>1, <1>2, <1>3, <1>4, <1>5, <1>6, <1>7 DEF IInv, TypeOK

\* Requeueing makes rows available; the session binds without being in the Hub.
LEMMA RegisterRequeueStep ==
    ASSUME IInv, NEW s \in Sessions, RegisterRequeue(s) PROVE IInv'
<1> USE IInvParts, ControlAssumption DEF taskVars, chanVars, dbVars, Goto, Waiting
<1>1. TaskTypeOK'
  BY DEF RegisterRequeue, BindTo, AfterFrame, Answer, RequeueNode, Requeued, DbOk, DbFault, TaskTypeOK, Labels, TaskInv
<1>2. DbTypeOK'
  BY DEF RegisterRequeue, BindTo, AfterFrame, Answer, RequeueNode, Requeued, DbOk, DbFault, DbTypeOK, TaskTypeOK, RowStates, InFlight, Gens, TaskInv
<1>3. TaskInv'
  BY DEF RegisterRequeue, BindTo, AfterFrame, Answer, RequeueNode, Requeued, DbOk, DbFault, TaskInv, TaskTypeOK, Labels, HubSound, DbTypeOK
<1>4. DispInv'
  BY DEF RegisterRequeue, BindTo, AfterFrame, Answer, RequeueNode, Requeued, DbOk, DbFault, DispInv, DispTypeOK, DbTypeOK, FlushGated, RowStates, InFlight, AckInv
<1>5. HubSound'
  BY DEF RegisterRequeue, BindTo, AfterFrame, Answer, RequeueNode, Requeued, DbOk, DbFault, HubSound, TaskInv, TaskTypeOK, DbTypeOK
<1>6. RowUntilResult'
  BY DEF RegisterRequeue, BindTo, AfterFrame, Answer, RequeueNode, Requeued, DbOk, DbFault, RowUntilResult, DbTypeOK, DispTypeOK, AckInv, DispInv, RowStates, InFlight
<1>7. NoOrphanClaim'
  <2>1. faults' = 0 => faults = 0
    BY DEF RegisterRequeue, BindTo, AfterFrame, Answer, RequeueNode, Requeued, DbOk, DbFault, DbTypeOK
  <2>2. \A q \in Runs : rows'[q] \in InFlight =>
            rows[q] \in InFlight /\ disp'[q].node = disp[q].node
    BY DEF RegisterRequeue, BindTo, AfterFrame, Answer, RequeueNode, Requeued, DbOk, DbFault, DbTypeOK, DispTypeOK, DispInv, InFlight
  <2>3. \A t \in Sessions : bound[t] \in Nodes /\ pc[t] \notin {"idle", "done"} =>
            bound'[t] = bound[t] /\ pc'[t] \notin {"idle", "done"}
    BY DEF RegisterRequeue, BindTo, AfterFrame, Answer, RequeueNode, Requeued, DbOk, DbFault, TaskTypeOK, TaskInv
  <2> QED BY <2>1, <2>2, <2>3, KeepsClaims
<1>8. FlushGated'
  BY DEF RegisterRequeue, BindTo, AfterFrame, Answer, RequeueNode, Requeued, DbOk, DbFault, FlushGated, TaskInv, TaskTypeOK, DispTypeOK, DbTypeOK, DispInv, RowStates, InFlight
<1>9. UNCHANGED <<ChanTypeOK, DispTypeOK, AckInv>>
  BY DEF RegisterRequeue, BindTo, AfterFrame, Answer, RequeueNode, Requeued, DbOk, DbFault, ChanTypeOK, DispTypeOK, AckInv
<1> QED BY <1>1, <1>2, <1>3, <1>4, <1>5, <1>6, <1>7, <1>8, <1>9 DEF IInv, TypeOK

\* A frame that names no node moves the task's control only.
LEMMA RecvUnboundStep ==
    ASSUME IInv, NEW s \in Sessions, RecvUnbound(s) PROVE IInv'
<1> USE IInvParts, ControlAssumption DEF taskVars, chanVars, dbVars, Goto, Waiting
<1>1. TaskTypeOK'
  BY DEF RecvUnbound, Frame, AfterFrame, Answer, TaskTypeOK, Labels, TaskInv
<1>2. TaskInv'
  BY DEF RecvUnbound, Frame, AfterFrame, Answer, TaskInv, TaskTypeOK, Labels, HubSound, DbTypeOK
<1>3. HubSound'
  BY DEF RecvUnbound, Frame, AfterFrame, Answer, HubSound, TaskInv, TaskTypeOK, DbTypeOK
<1>a. faults \in Nat /\ faults' \in Nat /\ (faults' = 0 => faults = 0)
  BY DEF RecvUnbound, DbFault, DbTypeOK
<1>4. NoOrphanClaim'
  <2>1. /\ UNCHANGED <<bound, rows, disp>>
        /\ \A t \in Sessions : pc[t] \notin {"idle", "done"} => pc'[t] \notin {"idle", "done"}
    BY DEF RecvUnbound, Frame, AfterFrame, Answer, TaskTypeOK
  <2> QED BY <1>a, <2>1 DEF NoOrphanClaim
<1>5. FlushGated'
  BY DEF RecvUnbound, Frame, AfterFrame, Answer, FlushGated, TaskInv, TaskTypeOK, DispTypeOK, DbTypeOK, DispInv, RowStates, InFlight
<1>6. UNCHANGED <<ChanTypeOK, DispTypeOK, AckInv, DispInv, RowUntilResult>>
  BY DEF RecvUnbound, Frame, ChanTypeOK, DispTypeOK, AckInv, DispInv, RowUntilResult
<1>7. DbTypeOK'
  BY <1>a DEF RecvUnbound, DbTypeOK
<1> QED BY <1>7, <1>1, <1>2, <1>3, <1>4, <1>5, <1>6 DEF IInv, TypeOK

\* A heartbeat binds an unbound session, which is in nobody's Hub entry.
LEMMA RecvHeartbeatStep ==
    ASSUME IInv, NEW s \in Sessions, NEW n \in Nodes, RecvHeartbeat(s, n) PROVE IInv'
<1> USE IInvParts, ControlAssumption DEF taskVars, chanVars, dbVars, Goto, Waiting
<1>a. GenMsg("heartbeat", gen[n]) \in Replies /\ GenMsg("heartbeat", 0) \in Replies
  BY DEF Replies, GenMsg, Gens, DbTypeOK
<1>0. PICK m \in Replies \cup {NoReply} :
          /\ Frame(s, m) /\ BindTo(s, n) /\ UNCHANGED <<ready, acking, hub, dbVars>>
          /\ faults' \in Nat /\ faults <= faults'
  BY <1>a DEF RecvHeartbeat, DbOk, DbFault, DbTypeOK
<1>1. TaskTypeOK'
  BY <1>0 DEF Frame, BindTo, AfterFrame, Answer, TaskTypeOK, Labels, TaskInv
<1>2. TaskInv'
  BY <1>0 DEF Frame, BindTo, AfterFrame, Answer, TaskInv, TaskTypeOK, Labels, HubSound, DbTypeOK
<1>3. HubSound'
  BY <1>0 DEF Frame, BindTo, AfterFrame, Answer, HubSound, TaskInv, TaskTypeOK, DbTypeOK
<1>4. NoOrphanClaim'
  <2>1. faults' = 0 => faults = 0
    BY <1>0 DEF Frame, BindTo, AfterFrame, Answer, DbTypeOK
  <2>2. \A q \in Runs : rows'[q] \in InFlight =>
            rows[q] \in InFlight /\ disp'[q].node = disp[q].node
    BY <1>0 DEF Frame, BindTo, AfterFrame, Answer, DbTypeOK, DispTypeOK, DispInv, InFlight
  <2>3. \A t \in Sessions : bound[t] \in Nodes /\ pc[t] \notin {"idle", "done"} =>
            bound'[t] = bound[t] /\ pc'[t] \notin {"idle", "done"}
    BY <1>0 DEF Frame, BindTo, AfterFrame, Answer, TaskTypeOK, TaskInv
  <2> QED BY <2>1, <2>2, <2>3, KeepsClaims
<1>5. FlushGated'
  BY <1>0 DEF Frame, BindTo, AfterFrame, Answer, FlushGated, TaskInv, TaskTypeOK, DispTypeOK, DbTypeOK, DispInv, RowStates, InFlight
<1>6. UNCHANGED <<ChanTypeOK, DispTypeOK, AckInv, DispInv, RowUntilResult>>
  BY <1>0 DEF Frame, BindTo, ChanTypeOK, DispTypeOK, AckInv, DispInv, RowUntilResult
<1>7. DbTypeOK'
  BY <1>0 DEF Frame, BindTo, DbTypeOK
<1> QED BY <1>1, <1>2, <1>3, <1>4, <1>5, <1>6, <1>7 DEF IInv, TypeOK

\* PullConfig binds like a heartbeat.
LEMMA RecvPullConfigStep ==
    ASSUME IInv, NEW s \in Sessions, NEW n \in Nodes, RecvPullConfig(s, n) PROVE IInv'
<1> USE IInvParts, ControlAssumption DEF taskVars, chanVars, dbVars, Goto, Waiting
<1>a. GenMsg("config", gen[n]) \in Replies /\ GenMsg("config", 0) \in Replies
  BY DEF Replies, GenMsg, Gens, DbTypeOK
<1>0. PICK m \in Replies \cup {NoReply} :
          /\ Frame(s, m) /\ BindTo(s, n) /\ UNCHANGED <<ready, acking, hub, dbVars>>
          /\ faults' \in Nat /\ faults <= faults'
  BY <1>a DEF RecvPullConfig, DbOk, DbFault, DbTypeOK
<1>1. TaskTypeOK'
  BY <1>0 DEF Frame, BindTo, AfterFrame, Answer, TaskTypeOK, Labels, TaskInv
<1>2. TaskInv'
  BY <1>0 DEF Frame, BindTo, AfterFrame, Answer, TaskInv, TaskTypeOK, Labels, HubSound, DbTypeOK
<1>3. HubSound'
  BY <1>0 DEF Frame, BindTo, AfterFrame, Answer, HubSound, TaskInv, TaskTypeOK, DbTypeOK
<1>4. NoOrphanClaim'
  <2>1. faults' = 0 => faults = 0
    BY <1>0 DEF Frame, BindTo, AfterFrame, Answer, DbTypeOK
  <2>2. \A q \in Runs : rows'[q] \in InFlight =>
            rows[q] \in InFlight /\ disp'[q].node = disp[q].node
    BY <1>0 DEF Frame, BindTo, AfterFrame, Answer, DbTypeOK, DispTypeOK, DispInv, InFlight
  <2>3. \A t \in Sessions : bound[t] \in Nodes /\ pc[t] \notin {"idle", "done"} =>
            bound'[t] = bound[t] /\ pc'[t] \notin {"idle", "done"}
    BY <1>0 DEF Frame, BindTo, AfterFrame, Answer, TaskTypeOK, TaskInv
  <2> QED BY <2>1, <2>2, <2>3, KeepsClaims
<1>5. FlushGated'
  BY <1>0 DEF Frame, BindTo, AfterFrame, Answer, FlushGated, TaskInv, TaskTypeOK, DispTypeOK, DbTypeOK, DispInv, RowStates, InFlight
<1>6. UNCHANGED <<ChanTypeOK, DispTypeOK, AckInv, DispInv, RowUntilResult>>
  BY <1>0 DEF Frame, BindTo, ChanTypeOK, DispTypeOK, AckInv, DispInv, RowUntilResult
<1>7. DbTypeOK'
  BY <1>0 DEF Frame, BindTo, DbTypeOK
<1> QED BY <1>1, <1>2, <1>3, <1>4, <1>5, <1>6, <1>7 DEF IInv, TypeOK

\* PullSkills binds like a heartbeat.
LEMMA RecvPullSkillsStep ==
    ASSUME IInv, NEW s \in Sessions, NEW n \in Nodes, RecvPullSkills(s, n) PROVE IInv'
<1> USE IInvParts, ControlAssumption DEF taskVars, chanVars, dbVars, Goto, Waiting
<1>0. SkillsMsg \in Replies
  BY DEF RecvPullSkills, Replies, ServerMessages, GenMsg, DispatchMsg, DbTypeOK, TaskInv, ChanTypeOK
<1>1. TaskTypeOK'
  BY <1>0 DEF RecvPullSkills, Frame, BindTo, AfterFrame, Answer, TaskTypeOK, Labels, TaskInv
<1>2. TaskInv'
  BY <1>0 DEF RecvPullSkills, Frame, BindTo, AfterFrame, Answer, TaskInv, TaskTypeOK, Labels, HubSound, DbTypeOK
<1>3. HubSound'
  BY DEF RecvPullSkills, Frame, BindTo, AfterFrame, Answer, HubSound, TaskInv, TaskTypeOK, DbTypeOK
<1>4. NoOrphanClaim'
  <2>1. faults' = 0 => faults = 0
    BY DEF RecvPullSkills, Frame, BindTo, AfterFrame, Answer, DbTypeOK
  <2>2. \A q \in Runs : rows'[q] \in InFlight =>
            rows[q] \in InFlight /\ disp'[q].node = disp[q].node
    BY DEF RecvPullSkills, Frame, BindTo, AfterFrame, Answer, DbTypeOK, DispTypeOK, DispInv, InFlight
  <2>3. \A t \in Sessions : bound[t] \in Nodes /\ pc[t] \notin {"idle", "done"} =>
            bound'[t] = bound[t] /\ pc'[t] \notin {"idle", "done"}
    BY DEF RecvPullSkills, Frame, BindTo, AfterFrame, Answer, TaskTypeOK, TaskInv
  <2> QED BY <2>1, <2>2, <2>3, KeepsClaims
<1>5. FlushGated'
  BY DEF RecvPullSkills, Frame, BindTo, AfterFrame, Answer, FlushGated, TaskInv, TaskTypeOK, DispTypeOK, DbTypeOK, DispInv, RowStates, InFlight
<1>6. UNCHANGED <<ChanTypeOK, DispTypeOK, DbTypeOK, AckInv, DispInv, RowUntilResult>>
  BY DEF RecvPullSkills, Frame, BindTo, AfterFrame, Answer, ChanTypeOK, DispTypeOK, DbTypeOK, AckInv, DispInv, RowUntilResult
<1> QED BY <1>1, <1>2, <1>3, <1>4, <1>5, <1>6 DEF IInv, TypeOK

\* SkillState binds like a heartbeat.
LEMMA RecvSkillStateStep ==
    ASSUME IInv, NEW s \in Sessions, NEW n \in Nodes, RecvSkillState(s, n) PROVE IInv'
<1> USE IInvParts, ControlAssumption DEF taskVars, chanVars, dbVars, Goto, Waiting
<1>1. TaskTypeOK'
  BY DEF RecvSkillState, Frame, BindTo, AfterFrame, Answer, TaskTypeOK, Labels, TaskInv
<1>2. TaskInv'
  BY DEF RecvSkillState, Frame, BindTo, AfterFrame, Answer, TaskInv, TaskTypeOK, Labels, HubSound, DbTypeOK
<1>3. HubSound'
  BY DEF RecvSkillState, Frame, BindTo, AfterFrame, Answer, HubSound, TaskInv, TaskTypeOK, DbTypeOK
<1>4. NoOrphanClaim'
  <2>1. faults' = 0 => faults = 0
    BY DEF RecvSkillState, Frame, BindTo, AfterFrame, Answer, DbTypeOK
  <2>2. \A q \in Runs : rows'[q] \in InFlight =>
            rows[q] \in InFlight /\ disp'[q].node = disp[q].node
    BY DEF RecvSkillState, Frame, BindTo, AfterFrame, Answer, DbTypeOK, DispTypeOK, DispInv, InFlight
  <2>3. \A t \in Sessions : bound[t] \in Nodes /\ pc[t] \notin {"idle", "done"} =>
            bound'[t] = bound[t] /\ pc'[t] \notin {"idle", "done"}
    BY DEF RecvSkillState, Frame, BindTo, AfterFrame, Answer, TaskTypeOK, TaskInv
  <2> QED BY <2>1, <2>2, <2>3, KeepsClaims
<1>5. FlushGated'
  BY DEF RecvSkillState, Frame, BindTo, AfterFrame, Answer, FlushGated, TaskInv, TaskTypeOK, DispTypeOK, DbTypeOK, DispInv, RowStates, InFlight
<1>6. UNCHANGED <<ChanTypeOK, DispTypeOK, DbTypeOK, AckInv, DispInv, RowUntilResult>>
  BY DEF RecvSkillState, Frame, BindTo, AfterFrame, Answer, ChanTypeOK, DispTypeOK, DbTypeOK, AckInv, DispInv, RowUntilResult
<1> QED BY <1>1, <1>2, <1>3, <1>4, <1>5, <1>6 DEF IInv, TypeOK

\* A stored result is what lets its run be acknowledged.
LEMMA RecvReportStep ==
    ASSUME IInv, NEW s \in Sessions, NEW n \in Nodes, NEW r \in Runs, NEW o \in Outcomes, RecvReport(s, n, r, o) PROVE IInv'
<1> USE IInvParts, ControlAssumption DEF taskVars, chanVars, dbVars, Goto, Waiting
<1>1. TaskTypeOK'
  BY DEF RecvReport, Frame, BindTo, AfterFrame, Answer, DbOk, DbFault, TaskTypeOK, Labels, TaskInv
<1>2. DbTypeOK'
  BY DEF RecvReport, Frame, BindTo, AfterFrame, Answer, DbOk, DbFault, DbTypeOK, TaskTypeOK, RowStates, InFlight, Gens, TaskInv
<1>3. TaskInv'
  BY DEF RecvReport, Frame, BindTo, AfterFrame, Answer, DbOk, DbFault, TaskInv, TaskTypeOK, Labels, HubSound, DbTypeOK
<1>4. AckInv'
  <2>1. \A q \in Runs : results[q] # {} => results'[q] # {}
    BY DEF RecvReport, DbTypeOK
  <2>2. CASE acking' = acking
    BY <2>1, <2>2 DEF AckInv, TaskTypeOK
  <2>3. CASE acking' = [acking EXCEPT ![s] = {r}] /\ results' = [results EXCEPT ![r] = @ \cup {o}]
    <3>1. results'[r] # {}
      BY <2>3 DEF DbTypeOK
    <3>2. \A t \in Sessions : acking'[t] \subseteq acking[t] \cup {r} /\ acking[t] \subseteq Runs
      BY <2>3 DEF TaskTypeOK
    <3> QED BY <2>1, <3>1, <3>2 DEF AckInv
  <2> QED BY <2>2, <2>3 DEF RecvReport
<1>5. HubSound'
  BY DEF RecvReport, Frame, BindTo, AfterFrame, Answer, DbOk, DbFault, HubSound, TaskInv, TaskTypeOK, DbTypeOK
<1>6. RowUntilResult'
  BY DEF RecvReport, Frame, BindTo, AfterFrame, Answer, DbOk, DbFault, RowUntilResult, DbTypeOK, DispTypeOK, AckInv, DispInv, RowStates, InFlight
<1>7. NoOrphanClaim'
  <2>1. faults' = 0 => faults = 0
    BY DEF RecvReport, Frame, BindTo, AfterFrame, Answer, DbOk, DbFault, DbTypeOK
  <2>2. \A q \in Runs : rows'[q] \in InFlight =>
            rows[q] \in InFlight /\ disp'[q].node = disp[q].node
    BY DEF RecvReport, Frame, BindTo, AfterFrame, Answer, DbOk, DbFault, DbTypeOK, DispTypeOK, DispInv, InFlight
  <2>3. \A t \in Sessions : bound[t] \in Nodes /\ pc[t] \notin {"idle", "done"} =>
            bound'[t] = bound[t] /\ pc'[t] \notin {"idle", "done"}
    BY DEF RecvReport, Frame, BindTo, AfterFrame, Answer, DbOk, DbFault, TaskTypeOK, TaskInv
  <2> QED BY <2>1, <2>2, <2>3, KeepsClaims
<1>8. FlushGated'
  BY DEF RecvReport, Frame, BindTo, AfterFrame, Answer, DbOk, DbFault, FlushGated, TaskInv, TaskTypeOK, DispTypeOK, DbTypeOK, DispInv, RowStates, InFlight
<1>9. UNCHANGED <<ChanTypeOK, DispTypeOK, DispInv>>
  BY DEF RecvReport, Frame, BindTo, AfterFrame, Answer, DbOk, DbFault, ChanTypeOK, DispTypeOK, DispInv
<1> QED BY <1>1, <1>2, <1>3, <1>4, <1>5, <1>6, <1>7, <1>8, <1>9 DEF IInv, TypeOK

\* A row is deleted for a run whose result is stored.
LEMMA AckRowStep ==
    ASSUME IInv, NEW s \in Sessions, AckRow(s) PROVE IInv'
<1> USE IInvParts, ControlAssumption DEF taskVars, chanVars, dbVars, Goto, Waiting
<1>1. TaskTypeOK'
  BY DEF AckRow, BindTo, AfterFrame, Answer, DbOk, DbFault, TaskTypeOK, Labels, TaskInv
<1>2. DbTypeOK'
  BY DEF AckRow, BindTo, AfterFrame, Answer, DbOk, DbFault, DbTypeOK, TaskTypeOK, RowStates, InFlight, Gens, TaskInv
<1>3. TaskInv'
  BY DEF AckRow, BindTo, AfterFrame, Answer, DbOk, DbFault, TaskInv, TaskTypeOK, Labels, HubSound, DbTypeOK
<1>4. AckInv'
  BY DEF AckRow, BindTo, AfterFrame, Answer, DbOk, DbFault, AckInv, TaskTypeOK, DbTypeOK
<1>5. DispInv'
  BY DEF AckRow, BindTo, AfterFrame, Answer, DbOk, DbFault, DispInv, DispTypeOK, DbTypeOK, FlushGated, RowStates, InFlight, AckInv
<1>6. HubSound'
  BY DEF AckRow, BindTo, AfterFrame, Answer, DbOk, DbFault, HubSound, TaskInv, TaskTypeOK, DbTypeOK
<1>7. RowUntilResult'
  BY DEF AckRow, BindTo, AfterFrame, Answer, DbOk, DbFault, RowUntilResult, DbTypeOK, DispTypeOK, AckInv, DispInv, RowStates, InFlight
<1>8. NoOrphanClaim'
  <2>1. faults' = 0 => faults = 0
    BY DEF AckRow, BindTo, AfterFrame, Answer, DbOk, DbFault, DbTypeOK
  <2>2. \A q \in Runs : rows'[q] \in InFlight =>
            rows[q] \in InFlight /\ disp'[q].node = disp[q].node
    BY DEF AckRow, BindTo, AfterFrame, Answer, DbOk, DbFault, DbTypeOK, DispTypeOK, DispInv, InFlight
  <2>3. \A t \in Sessions : bound[t] \in Nodes /\ pc[t] \notin {"idle", "done"} =>
            bound'[t] = bound[t] /\ pc'[t] \notin {"idle", "done"}
    BY DEF AckRow, BindTo, AfterFrame, Answer, DbOk, DbFault, TaskTypeOK, TaskInv
  <2> QED BY <2>1, <2>2, <2>3, KeepsClaims
<1>9. FlushGated'
  BY DEF AckRow, BindTo, AfterFrame, Answer, DbOk, DbFault, FlushGated, TaskInv, TaskTypeOK, DispTypeOK, DbTypeOK, DispInv, RowStates, InFlight
<1>10. UNCHANGED <<ChanTypeOK, DispTypeOK>>
  BY DEF AckRow, BindTo, AfterFrame, Answer, DbOk, DbFault, ChanTypeOK, DispTypeOK
<1> QED BY <1>1, <1>2, <1>3, <1>4, <1>5, <1>6, <1>7, <1>8, <1>9, <1>10 DEF IInv, TypeOK

\* The gate opens for a bound node only.
LEMMA RecvNodeReadyStep ==
    ASSUME IInv, NEW s \in Sessions, NEW n \in Nodes, NEW g \in Gens, RecvNodeReady(s, n, g) PROVE IInv'
<1> USE IInvParts, ControlAssumption DEF taskVars, chanVars, dbVars, Goto, Waiting
<1>1. TaskTypeOK'
  BY DEF RecvNodeReady, Frame, AfterFrame, Answer, TaskTypeOK, Labels, TaskInv
<1>2. TaskInv'
  <2>1. CASE bound[s] = n /\ ready' = [ready EXCEPT ![s] = TRUE] /\ Goto(s, "activate")
    BY <2>1 DEF RecvNodeReady, Frame, TaskInv, TaskTypeOK
  <2>2. CASE UNCHANGED ready /\ Goto(s, AfterFrame(ready[s], NoReply))
    BY <2>2 DEF RecvNodeReady, Frame, AfterFrame, Answer, TaskInv, TaskTypeOK
  <2> QED BY <2>1, <2>2 DEF RecvNodeReady
<1>3. HubSound'
  BY DEF RecvNodeReady, Frame, AfterFrame, Answer, HubSound, TaskInv, TaskTypeOK, DbTypeOK
<1>4. NoOrphanClaim'
  <2>1. faults' \in Nat /\ faults <= faults'
    BY DEF RecvNodeReady, DbOk, DbFault, DbTypeOK
  <2>2. \A t \in Sessions : bound[t] \in Nodes /\ pc[t] \notin {"idle", "done"} =>
            bound'[t] = bound[t] /\ pc'[t] \notin {"idle", "done"}
    BY DEF RecvNodeReady, Frame, AfterFrame, Answer, TaskTypeOK, TaskInv
  <2>3. UNCHANGED <<rows, disp>>
    BY DEF RecvNodeReady, Frame
  <2> QED BY <2>1, <2>2, <2>3, KeepsClaims DEF DbTypeOK
<1>5. FlushGated'
  BY DEF RecvNodeReady, Frame, AfterFrame, Answer, FlushGated, TaskInv, TaskTypeOK, DispTypeOK, DbTypeOK, DispInv, RowStates, InFlight
<1>6. UNCHANGED <<ChanTypeOK, DispTypeOK, AckInv, DispInv, RowUntilResult>>
  BY DEF RecvNodeReady, Frame, ChanTypeOK, DispTypeOK, AckInv, DispInv, RowUntilResult
<1>7. DbTypeOK'
  BY DEF RecvNodeReady, DbOk, DbFault, DbTypeOK
<1> QED BY <1>1, <1>2, <1>3, <1>4, <1>5, <1>6, <1>7 DEF IInv, TypeOK

\* Leaving a node removes this session's sender from its Hub entry.
LEMMA RebindStep ==
    ASSUME IInv, NEW s \in Sessions, Rebind(s) PROVE IInv'
<1> USE IInvParts, ControlAssumption DEF taskVars, chanVars, dbVars, Goto, Waiting
<1>1. TaskTypeOK'
  BY DEF Rebind, Unregistered, TaskTypeOK, Labels, TaskInv
<1>2. DbTypeOK'
  BY DEF Rebind, Unregistered, DbTypeOK, TaskTypeOK, RowStates, InFlight, Gens, TaskInv
<1>3. TaskInv'
  BY DEF Rebind, Unregistered, TaskInv, TaskTypeOK, Labels, HubSound, DbTypeOK
<1>4. HubSound'
  BY DEF Rebind, Unregistered, HubSound, TaskInv, TaskTypeOK, DbTypeOK
<1>5. NoOrphanClaim'
  BY DEF Rebind, Unregistered, NoOrphanClaim, TaskInv, TaskTypeOK, DbTypeOK, DispTypeOK, DispInv, RowStates, InFlight
<1>6. FlushGated'
  BY DEF Rebind, Unregistered, FlushGated, TaskInv, TaskTypeOK, DispTypeOK, DbTypeOK, DispInv, RowStates, InFlight
<1>7. UNCHANGED <<ChanTypeOK, DispTypeOK, AckInv, DispInv, RowUntilResult>>
  BY DEF Rebind, Unregistered, ChanTypeOK, DispTypeOK, AckInv, DispInv, RowUntilResult
<1> QED BY <1>1, <1>2, <1>3, <1>4, <1>5, <1>6, <1>7 DEF IInv, TypeOK

\* The session has no sender left when it changes node and closes its gate.
LEMMA RebindRequeueStep ==
    ASSUME IInv, NEW s \in Sessions, RebindRequeue(s) PROVE IInv'
<1> USE IInvParts, ControlAssumption DEF taskVars, chanVars, dbVars, Goto, Waiting
<1>1. TaskTypeOK'
  BY DEF RebindRequeue, RequeueNode, Requeued, DbOk, DbFault, Return, Answer, TaskTypeOK, Labels, TaskInv
<1>2. DbTypeOK'
  BY DEF RebindRequeue, RequeueNode, Requeued, DbOk, DbFault, Return, Answer, DbTypeOK, TaskTypeOK, RowStates, InFlight, Gens, TaskInv
<1>3. TaskInv'
  BY DEF RebindRequeue, RequeueNode, Requeued, DbOk, DbFault, Return, Answer, TaskInv, TaskTypeOK, Labels, HubSound, DbTypeOK
<1>4. DispInv'
  BY DEF RebindRequeue, RequeueNode, Requeued, DbOk, DbFault, Return, Answer, DispInv, DispTypeOK, DbTypeOK, FlushGated, RowStates, InFlight, AckInv
<1>5. HubSound'
  BY DEF RebindRequeue, RequeueNode, Requeued, DbOk, DbFault, Return, Answer, HubSound, TaskInv, TaskTypeOK, DbTypeOK
<1>6. RowUntilResult'
  BY DEF RebindRequeue, RequeueNode, Requeued, DbOk, DbFault, Return, Answer, RowUntilResult, DbTypeOK, DispTypeOK, AckInv, DispInv, RowStates, InFlight
<1>7. NoOrphanClaim'
  BY DEF RebindRequeue, RequeueNode, Requeued, DbOk, DbFault, Return, Answer, NoOrphanClaim, TaskInv, TaskTypeOK, DbTypeOK, DispTypeOK, DispInv, RowStates, InFlight
<1>8. FlushGated'
  BY DEF RebindRequeue, RequeueNode, Requeued, DbOk, DbFault, Return, Answer, FlushGated, TaskInv, TaskTypeOK, DispTypeOK, DbTypeOK, DispInv, RowStates, InFlight
<1>9. UNCHANGED <<ChanTypeOK, DispTypeOK, AckInv>>
  BY DEF RebindRequeue, RequeueNode, Requeued, DbOk, DbFault, Return, Answer, ChanTypeOK, DispTypeOK, AckInv
<1> QED BY <1>1, <1>2, <1>3, <1>4, <1>5, <1>6, <1>7, <1>8, <1>9 DEF IInv, TypeOK

\* The timer opens the gate of a bound session.
LEMMA ReadyTimeoutStep ==
    ASSUME IInv, NEW s \in Sessions, ReadyTimeout(s) PROVE IInv'
<1> USE IInvParts, ControlAssumption DEF taskVars, chanVars, dbVars, Goto, Waiting
<1>1. TaskTypeOK'
  BY DEF ReadyTimeout, TaskTypeOK, Labels, TaskInv
<1>2. TaskInv'
  BY DEF ReadyTimeout, TaskInv, TaskTypeOK, Labels, HubSound, DbTypeOK
<1>3. HubSound'
  BY DEF ReadyTimeout, HubSound, TaskInv, TaskTypeOK, DbTypeOK
<1>4. NoOrphanClaim'
  BY DEF ReadyTimeout, NoOrphanClaim, TaskInv, TaskTypeOK, DbTypeOK, DispTypeOK, DispInv, RowStates, InFlight
<1>5. FlushGated'
  BY DEF ReadyTimeout, FlushGated, TaskInv, TaskTypeOK, DispTypeOK, DbTypeOK, DispInv, RowStates, InFlight
<1>6. UNCHANGED <<ChanTypeOK, DispTypeOK, DbTypeOK, AckInv, DispInv, RowUntilResult>>
  BY DEF ReadyTimeout, ChanTypeOK, DispTypeOK, DbTypeOK, AckInv, DispInv, RowUntilResult
<1> QED BY <1>1, <1>2, <1>3, <1>4, <1>5, <1>6 DEF IInv, TypeOK

\* The sender enters the Hub under the bound node, after the gate opened.
LEMMA ActivateStep ==
    ASSUME IInv, NEW s \in Sessions, Activate(s) PROVE IInv'
<1> USE IInvParts, ControlAssumption DEF taskVars, chanVars, dbVars, Goto, Waiting
<1>1. TaskTypeOK'
  BY DEF Activate, TaskTypeOK, Labels, TaskInv
<1>2. DbTypeOK'
  BY DEF Activate, DbTypeOK, TaskTypeOK, RowStates, InFlight, Gens, TaskInv
<1>3. TaskInv'
  BY DEF Activate, TaskInv, TaskTypeOK, Labels, HubSound, DbTypeOK
<1>4. HubSound'
  BY DEF Activate, HubSound, TaskInv, TaskTypeOK, DbTypeOK
<1>5. NoOrphanClaim'
  BY DEF Activate, NoOrphanClaim, TaskInv, TaskTypeOK, DbTypeOK, DispTypeOK, DispInv, RowStates, InFlight
<1>6. FlushGated'
  BY DEF Activate, FlushGated, TaskInv, TaskTypeOK, DispTypeOK, DbTypeOK, DispInv, RowStates, InFlight
<1>7. UNCHANGED <<ChanTypeOK, DispTypeOK, AckInv, DispInv, RowUntilResult>>
  BY DEF Activate, ChanTypeOK, DispTypeOK, AckInv, DispInv, RowUntilResult
<1> QED BY <1>1, <1>2, <1>3, <1>4, <1>5, <1>6, <1>7 DEF IInv, TypeOK

\* Claimed rows are the bound node's, and the claiming session is their witness.
LEMMA ClaimStep ==
    ASSUME IInv, NEW s \in Sessions, Claim(s) PROVE IInv'
<1> USE IInvParts, ControlAssumption DEF taskVars, chanVars, dbVars, Goto, Waiting
<1>1. TaskTypeOK'
  BY DEF Claim, DbOk, DbFault, Return, Answer, Claimable, TaskTypeOK, Labels, TaskInv
<1>2. DbTypeOK'
  BY DEF Claim, DbOk, DbFault, Return, Answer, Claimable, DbTypeOK, TaskTypeOK, RowStates, InFlight, Gens, TaskInv
<1>3. TaskInv'
  BY DEF Claim, DbOk, DbFault, Return, Answer, Claimable, TaskInv, TaskTypeOK, Labels, HubSound, DbTypeOK
<1>4. DispInv'
  BY DEF Claim, DbOk, DbFault, Return, Answer, Claimable, DispInv, DispTypeOK, DbTypeOK, FlushGated, RowStates, InFlight, AckInv
<1>5. HubSound'
  BY DEF Claim, DbOk, DbFault, Return, Answer, Claimable, HubSound, TaskInv, TaskTypeOK, DbTypeOK
<1>6. RowUntilResult'
  BY DEF Claim, DbOk, DbFault, Return, Answer, Claimable, RowUntilResult, DbTypeOK, DispTypeOK, AckInv, DispInv, RowStates, InFlight
<1>7. NoOrphanClaim'
  <2> SUFFICES ASSUME faults' = 0, NEW q \in Runs, rows'[q] \in InFlight
               PROVE \E t \in Sessions : bound'[t] = disp'[q].node /\ pc'[t] \notin {"idle", "done"}
    BY DEF NoOrphanClaim
  <2>1. faults = 0
    BY DEF Claim, DbOk, DbFault, DbTypeOK
  <2>2. \A t \in Sessions : pc[t] \notin {"idle", "done"} => pc'[t] \notin {"idle", "done"}
    BY DEF Claim, Return, Answer, TaskTypeOK
  <2>3. CASE rows[q] \in InFlight
    BY <2>1, <2>2, <2>3 DEF Claim, NoOrphanClaim
  <2>4. CASE rows[q] \notin InFlight
    <3>1. q \in Claimable(bound[s])
      BY <2>4 DEF Claim, DbTypeOK
    <3> QED BY <2>2, <3>1 DEF Claim, Claimable
  <2> QED BY <2>3, <2>4
<1>8. FlushGated'
  BY DEF Claim, DbOk, DbFault, Return, Answer, Claimable, FlushGated, TaskInv, TaskTypeOK, DispTypeOK, DbTypeOK, DispInv, RowStates, InFlight
<1>9. UNCHANGED <<ChanTypeOK, DispTypeOK, AckInv>>
  BY DEF Claim, DbOk, DbFault, Return, Answer, Claimable, ChanTypeOK, DispTypeOK, AckInv
<1> QED BY <1>1, <1>2, <1>3, <1>4, <1>5, <1>6, <1>7, <1>8, <1>9 DEF IInv, TypeOK

\* Sending takes rows out of the batch.
LEMMA SendClaimedStep ==
    ASSUME IInv, NEW s \in Sessions, NEW r \in Runs, SendClaimed(s, r) PROVE IInv'
<1> USE IInvParts, ControlAssumption DEF taskVars, chanVars, dbVars, Goto, Waiting
<1>0. DispatchMsg(r) \in ServerMessages
  BY DEF SendClaimed, Replies, ServerMessages, GenMsg, DispatchMsg, DbTypeOK, TaskInv, ChanTypeOK
<1>1. TaskTypeOK'
  BY <1>0 DEF SendClaimed, Emit, Return, Answer, TaskTypeOK, Labels, TaskInv
<1>2. ChanTypeOK'
  BY <1>0 DEF SendClaimed, Emit, Return, Answer, ChanTypeOK
<1>3. TaskInv'
  BY <1>0 DEF SendClaimed, Emit, Return, Answer, TaskInv, TaskTypeOK, Labels, HubSound, DbTypeOK
<1>4. HubSound'
  BY DEF SendClaimed, Emit, Return, Answer, HubSound, TaskInv, TaskTypeOK, DbTypeOK
<1>5. NoOrphanClaim'
  BY DEF SendClaimed, Emit, Return, Answer, NoOrphanClaim, TaskInv, TaskTypeOK, DbTypeOK, DispTypeOK, DispInv, RowStates, InFlight
<1>6. FlushGated'
  BY DEF SendClaimed, Emit, Return, Answer, FlushGated, TaskInv, TaskTypeOK, DispTypeOK, DbTypeOK, DispInv, RowStates, InFlight
<1>7. UNCHANGED <<DispTypeOK, DbTypeOK, AckInv, DispInv, RowUntilResult>>
  BY DEF SendClaimed, Emit, Return, Answer, DispTypeOK, DbTypeOK, AckInv, DispInv, RowUntilResult
<1> QED BY <1>1, <1>2, <1>3, <1>4, <1>5, <1>6, <1>7 DEF IInv, TypeOK

\* Unsent rows become available again.
LEMMA SendFailedStep ==
    ASSUME IInv, NEW s \in Sessions, SendFailed(s) PROVE IInv'
<1> USE IInvParts, ControlAssumption DEF taskVars, chanVars, dbVars, Goto, Waiting
<1>1. TaskTypeOK'
  BY DEF SendFailed, DbOk, DbFault, Return, Answer, TaskTypeOK, Labels, TaskInv
<1>2. DbTypeOK'
  BY DEF SendFailed, DbOk, DbFault, Return, Answer, DbTypeOK, TaskTypeOK, RowStates, InFlight, Gens, TaskInv
<1>3. TaskInv'
  BY DEF SendFailed, DbOk, DbFault, Return, Answer, TaskInv, TaskTypeOK, Labels, HubSound, DbTypeOK
<1>4. DispInv'
  BY DEF SendFailed, DbOk, DbFault, Return, Answer, DispInv, DispTypeOK, DbTypeOK, FlushGated, RowStates, InFlight, AckInv
<1>5. HubSound'
  BY DEF SendFailed, DbOk, DbFault, Return, Answer, HubSound, TaskInv, TaskTypeOK, DbTypeOK
<1>6. RowUntilResult'
  BY DEF SendFailed, DbOk, DbFault, Return, Answer, RowUntilResult, DbTypeOK, DispTypeOK, AckInv, DispInv, RowStates, InFlight
<1>7. NoOrphanClaim'
  BY DEF SendFailed, DbOk, DbFault, Return, Answer, NoOrphanClaim, TaskInv, TaskTypeOK, DbTypeOK, DispTypeOK, DispInv, RowStates, InFlight
<1>8. FlushGated'
  BY DEF SendFailed, DbOk, DbFault, Return, Answer, FlushGated, TaskInv, TaskTypeOK, DispTypeOK, DbTypeOK, DispInv, RowStates, InFlight
<1>9. UNCHANGED <<ChanTypeOK, DispTypeOK, AckInv>>
  BY DEF SendFailed, DbOk, DbFault, Return, Answer, ChanTypeOK, DispTypeOK, AckInv
<1> QED BY <1>1, <1>2, <1>3, <1>4, <1>5, <1>6, <1>7, <1>8, <1>9 DEF IInv, TypeOK

\* The answer goes out, or the task leaves its loop.
LEMMA ReplyStep ==
    ASSUME IInv, NEW s \in Sessions, Reply(s) PROVE IInv'
<1> USE IInvParts, ControlAssumption DEF taskVars, chanVars, dbVars, Goto, Waiting
<1>0. reply[s] \in ServerMessages
  BY DEF Reply, Replies, ServerMessages, GenMsg, DispatchMsg, DbTypeOK, TaskInv, ChanTypeOK
<1>1. TaskTypeOK'
  BY <1>0 DEF Reply, Emit, TaskTypeOK, Labels, TaskInv
<1>2. ChanTypeOK'
  BY <1>0, EmitType DEF Reply, ChanTypeOK
<1>3. TaskInv'
  BY <1>0 DEF Reply, Emit, TaskInv, TaskTypeOK, Labels, HubSound, DbTypeOK
<1>4. HubSound'
  BY DEF Reply, Emit, HubSound, TaskInv, TaskTypeOK, DbTypeOK
<1>5. NoOrphanClaim'
  <2>1. faults' = 0 => faults = 0
    BY DEF Reply, Emit, DbTypeOK
  <2>2. \A q \in Runs : rows'[q] \in InFlight =>
            rows[q] \in InFlight /\ disp'[q].node = disp[q].node
    BY DEF Reply, Emit, DbTypeOK, DispTypeOK, DispInv, InFlight
  <2>3. \A t \in Sessions : bound[t] \in Nodes /\ pc[t] \notin {"idle", "done"} =>
            bound'[t] = bound[t] /\ pc'[t] \notin {"idle", "done"}
    BY DEF Reply, Emit, TaskTypeOK, TaskInv
  <2> QED BY <2>1, <2>2, <2>3, KeepsClaims
<1>6. FlushGated'
  BY DEF Reply, Emit, FlushGated, TaskInv, TaskTypeOK, DispTypeOK, DbTypeOK, DispInv, RowStates, InFlight
<1>7. UNCHANGED <<DispTypeOK, DbTypeOK, AckInv, DispInv, RowUntilResult>>
  BY DEF Reply, Emit, DispTypeOK, DbTypeOK, AckInv, DispInv, RowUntilResult
<1> QED BY <1>1, <1>2, <1>3, <1>4, <1>5, <1>6, <1>7 DEF IInv, TypeOK

\* A live dispatch moves from one channel to the other.
LEMMA ForwardStep ==
    ASSUME IInv, NEW s \in Sessions, Forward(s) PROVE IInv'
<1> USE IInvParts, ControlAssumption DEF taskVars, chanVars, dbVars, Goto, Waiting
<1>0. Head(push[s]) \in Runs /\ DispatchMsg(Head(push[s])) \in ServerMessages
  BY DEF Forward, Replies, ServerMessages, GenMsg, DispatchMsg, DbTypeOK, TaskInv, ChanTypeOK
<1>1. TaskTypeOK'
  BY <1>0 DEF Forward, Emit, TaskTypeOK, Labels, TaskInv
<1>2. ChanTypeOK'
  <2>1. push' \in [Sessions -> Seq(Runs)] /\ \A t \in Sessions : Len(push'[t]) <= ChanCap
    BY TailType DEF Forward, ChanTypeOK
  <2> QED BY <1>0, <2>1, EmitType DEF Forward, ChanTypeOK
<1>3. TaskInv'
  BY <1>0 DEF Forward, Emit, TaskInv, TaskTypeOK, Labels, HubSound, DbTypeOK
<1>4. HubSound'
  BY DEF Forward, Emit, HubSound, TaskInv, TaskTypeOK, DbTypeOK
<1>5. NoOrphanClaim'
  BY DEF Forward, Emit, NoOrphanClaim, TaskInv, TaskTypeOK, DbTypeOK, DispTypeOK, DispInv, RowStates, InFlight
<1>6. FlushGated'
  BY DEF Forward, Emit, FlushGated, TaskInv, TaskTypeOK, DispTypeOK, DbTypeOK, DispInv, RowStates, InFlight
<1>7. UNCHANGED <<DispTypeOK, DbTypeOK, AckInv, DispInv, RowUntilResult>>
  BY DEF Forward, Emit, DispTypeOK, DbTypeOK, AckInv, DispInv, RowUntilResult
<1> QED BY <1>1, <1>2, <1>3, <1>4, <1>5, <1>6, <1>7 DEF IInv, TypeOK

\* A dead connection empties the response channel.
LEMMA CutStep ==
    ASSUME IInv, NEW s \in Sessions, Cut(s) PROVE IInv'
<1> USE IInvParts, ControlAssumption DEF taskVars, chanVars, dbVars, Goto, Waiting
<1>1. ChanTypeOK'
  BY DEF Cut, ChanTypeOK
<1>2. UNCHANGED <<TaskTypeOK, DispTypeOK, DbTypeOK, TaskInv, AckInv, DispInv, HubSound, RowUntilResult, NoOrphanClaim, FlushGated>>
  BY DEF Cut, TaskTypeOK, DispTypeOK, DbTypeOK, TaskInv, AckInv, DispInv, HubSound, RowUntilResult, NoOrphanClaim, FlushGated
<1> QED BY <1>1, <1>2 DEF IInv, TypeOK

\* The transport reports the end of the stream.
LEMMA DropStep ==
    ASSUME IInv, NEW s \in Sessions, Drop(s) PROVE IInv'
<1> USE IInvParts, ControlAssumption DEF taskVars, chanVars, dbVars, Goto, Waiting
<1>1. ChanTypeOK'
  BY DEF Drop, ChanTypeOK
<1>2. UNCHANGED <<TaskTypeOK, DispTypeOK, DbTypeOK, TaskInv, AckInv, DispInv, HubSound, RowUntilResult, NoOrphanClaim, FlushGated>>
  BY DEF Drop, TaskTypeOK, DispTypeOK, DbTypeOK, TaskInv, AckInv, DispInv, HubSound, RowUntilResult, NoOrphanClaim, FlushGated
<1> QED BY <1>1, <1>2 DEF IInv, TypeOK

\* The task leaves its loop.
LEMMA StreamEndedStep ==
    ASSUME IInv, NEW s \in Sessions, StreamEnded(s) PROVE IInv'
<1> USE IInvParts, ControlAssumption DEF taskVars, chanVars, dbVars, Goto, Waiting
<1>1. TaskTypeOK'
  BY DEF StreamEnded, TaskTypeOK, Labels, TaskInv
<1>2. TaskInv'
  BY DEF StreamEnded, TaskInv, TaskTypeOK, Labels, HubSound, DbTypeOK
<1>3. HubSound'
  BY DEF StreamEnded, HubSound, TaskInv, TaskTypeOK, DbTypeOK
<1>4. NoOrphanClaim'
  BY DEF StreamEnded, NoOrphanClaim, TaskInv, TaskTypeOK, DbTypeOK, DispTypeOK, DispInv, RowStates, InFlight
<1>5. FlushGated'
  BY DEF StreamEnded, FlushGated, TaskInv, TaskTypeOK, DispTypeOK, DbTypeOK, DispInv, RowStates, InFlight
<1>6. UNCHANGED <<ChanTypeOK, DispTypeOK, DbTypeOK, AckInv, DispInv, RowUntilResult>>
  BY DEF StreamEnded, ChanTypeOK, DispTypeOK, DbTypeOK, AckInv, DispInv, RowUntilResult
<1> QED BY <1>1, <1>2, <1>3, <1>4, <1>5, <1>6 DEF IInv, TypeOK

\* The session's own sender leaves the Hub before it requeues.
LEMMA UnregisterStep ==
    ASSUME IInv, NEW s \in Sessions, Unregister(s) PROVE IInv'
<1> USE IInvParts, ControlAssumption DEF taskVars, chanVars, dbVars, Goto, Waiting
<1>1. TaskTypeOK'
  BY DEF Unregister, Unregistered, TaskTypeOK, Labels, TaskInv
<1>2. DbTypeOK'
  BY DEF Unregister, Unregistered, DbTypeOK, TaskTypeOK, RowStates, InFlight, Gens, TaskInv
<1>3. TaskInv'
  BY DEF Unregister, Unregistered, TaskInv, TaskTypeOK, Labels, HubSound, DbTypeOK
<1>4. HubSound'
  BY DEF Unregister, Unregistered, HubSound, TaskInv, TaskTypeOK, DbTypeOK
<1>5. NoOrphanClaim'
  BY DEF Unregister, Unregistered, NoOrphanClaim, TaskInv, TaskTypeOK, DbTypeOK, DispTypeOK, DispInv, RowStates, InFlight
<1>6. FlushGated'
  BY DEF Unregister, Unregistered, FlushGated, TaskInv, TaskTypeOK, DispTypeOK, DbTypeOK, DispInv, RowStates, InFlight
<1>7. UNCHANGED <<ChanTypeOK, DispTypeOK, AckInv, DispInv, RowUntilResult>>
  BY DEF Unregister, Unregistered, ChanTypeOK, DispTypeOK, AckInv, DispInv, RowUntilResult
<1> QED BY <1>1, <1>2, <1>3, <1>4, <1>5, <1>6, <1>7 DEF IInv, TypeOK

\* The witness of the node's claims disappears with the claims themselves.
LEMMA ExitRequeueStep ==
    ASSUME IInv, NEW s \in Sessions, ExitRequeue(s) PROVE IInv'
<1> USE IInvParts, ControlAssumption DEF taskVars, chanVars, dbVars, Goto, Waiting
<1>1. TaskTypeOK'
  BY DEF ExitRequeue, RequeueNode, Requeued, DbOk, DbFault, TaskTypeOK, Labels, TaskInv
<1>2. ChanTypeOK'
  BY DEF ExitRequeue, RequeueNode, Requeued, DbOk, DbFault, ChanTypeOK
<1>3. DbTypeOK'
  BY DEF ExitRequeue, RequeueNode, Requeued, DbOk, DbFault, DbTypeOK, TaskTypeOK, RowStates, InFlight, Gens, TaskInv
<1>4. TaskInv'
  BY DEF ExitRequeue, RequeueNode, Requeued, DbOk, DbFault, TaskInv, TaskTypeOK, Labels, HubSound, DbTypeOK
<1>5. DispInv'
  <2>1. CASE rows' = rows
    BY <2>1 DEF ExitRequeue, DispInv
  <2>2. CASE rows' = Requeued(bound[s])
    BY <2>2 DEF ExitRequeue, Requeued, DispInv, InFlight
  <2> QED BY <2>1, <2>2 DEF ExitRequeue, RequeueNode
<1>6. HubSound'
  BY DEF ExitRequeue, RequeueNode, Requeued, DbOk, DbFault, HubSound, TaskInv, TaskTypeOK, DbTypeOK
<1>7. RowUntilResult'
  BY DEF ExitRequeue, RequeueNode, Requeued, DbOk, DbFault, RowUntilResult, DbTypeOK, DispTypeOK, AckInv, DispInv, RowStates, InFlight
<1>8. NoOrphanClaim'
  <2> SUFFICES ASSUME faults' = 0, NEW q \in Runs, rows'[q] \in InFlight
               PROVE \E t \in Sessions : bound'[t] = disp'[q].node /\ pc'[t] \notin {"idle", "done"}
    BY DEF NoOrphanClaim
  <2>1. faults = 0 /\ disp' = disp
    BY DEF ExitRequeue, RequeueNode, DbOk, DbFault, DbTypeOK
  <2>2. rows[q] \in InFlight /\ disp[q].node # bound[s]
    <3>1. disp[q].node \in Nodes /\ rows[q] \in InFlight
      BY DEF ExitRequeue, RequeueNode, Requeued, DispInv, InFlight
    <3>2. CASE bound[s] = NoNode
      BY <3>1, <3>2
    <3>3. CASE bound[s] # NoNode
      <4>1. rows' = Requeued(bound[s])
        BY <2>1, <3>3 DEF ExitRequeue, RequeueNode, DbOk, DbFault
      <4> QED BY <3>1, <4>1 DEF Requeued, InFlight
    <3> QED BY <3>2, <3>3
  <2>3. PICK t \in Sessions : bound[t] = disp[q].node /\ pc[t] \notin {"idle", "done"}
    BY <2>1, <2>2 DEF NoOrphanClaim
  <2>4. t # s
    BY <2>2, <2>3
  <2>5. bound'[t] = bound[t] /\ pc'[t] = pc[t]
    BY <2>4 DEF ExitRequeue, TaskTypeOK
  <2> QED BY <2>1, <2>3, <2>5
<1>9. FlushGated'
  BY DEF ExitRequeue, RequeueNode, Requeued, DbOk, DbFault, FlushGated, TaskInv, TaskTypeOK, DispTypeOK, DbTypeOK, DispInv, RowStates, InFlight
<1>10. UNCHANGED <<DispTypeOK, AckInv>>
  BY DEF ExitRequeue, RequeueNode, Requeued, DbOk, DbFault, DispTypeOK, AckInv
<1> QED BY <1>1, <1>2, <1>3, <1>4, <1>5, <1>6, <1>7, <1>8, <1>9, <1>10 DEF IInv, TypeOK

\* The transport takes a message.
LEMMA TakeStep ==
    ASSUME IInv, NEW s \in Sessions, Take(s) PROVE IInv'
<1> USE IInvParts, ControlAssumption DEF taskVars, chanVars, dbVars, Goto, Waiting
<1>1. ChanTypeOK'
  BY DEF Take, ChanTypeOK
<1>2. UNCHANGED <<TaskTypeOK, DispTypeOK, DbTypeOK, TaskInv, AckInv, DispInv, HubSound, RowUntilResult, NoOrphanClaim, FlushGated>>
  BY DEF Take, TaskTypeOK, DispTypeOK, DbTypeOK, TaskInv, AckInv, DispInv, HubSound, RowUntilResult, NoOrphanClaim, FlushGated
<1> QED BY <1>1, <1>2 DEF IInv, TypeOK

\* A dispatch holds the sender the Hub has, if any.
LEMMA DispatchStartStep ==
    ASSUME IInv, NEW r \in Runs, NEW n \in Nodes, DispatchStart(r, n) PROVE IInv'
<1> USE IInvParts, ControlAssumption DEF taskVars, chanVars, dbVars, Goto, Waiting
<1>1. DispTypeOK'
  <2>1. hub[n] \in Sessions \cup {NoSession}
    BY DEF DbTypeOK
  <2> QED BY <2>1 DEF DispatchStart, DispTypeOK
<1>2. DispInv'
  BY DEF DispatchStart, DispInv, DispTypeOK, DbTypeOK, FlushGated, RowStates, InFlight, AckInv
<1>3. RowUntilResult'
  BY DEF DispatchStart, RowUntilResult, DbTypeOK, DispTypeOK, AckInv, DispInv, RowStates, InFlight
<1>4. NoOrphanClaim'
  BY DEF DispatchStart, NoOrphanClaim, TaskInv, TaskTypeOK, DbTypeOK, DispTypeOK, DispInv, RowStates, InFlight
<1>5. FlushGated'
  BY DEF DispatchStart, FlushGated, TaskInv, TaskTypeOK, DispTypeOK, DbTypeOK, DispInv, RowStates, InFlight
<1>6. UNCHANGED <<TaskTypeOK, ChanTypeOK, DbTypeOK, TaskInv, AckInv, HubSound>>
  BY DEF DispatchStart, TaskTypeOK, ChanTypeOK, DbTypeOK, TaskInv, AckInv, HubSound
<1> QED BY <1>1, <1>2, <1>3, <1>4, <1>5, <1>6 DEF IInv, TypeOK

\* A live dispatch has no row.
LEMMA HubSendStep ==
    ASSUME IInv, NEW r \in Runs, HubSend(r) PROVE IInv'
<1> USE IInvParts, ControlAssumption DEF taskVars, chanVars, dbVars, Goto, Waiting
<1>1. ChanTypeOK'
  <2>1. CASE push' = push
    BY <2>1 DEF HubSend, ChanTypeOK
  <2>2. CASE /\ Len(push[disp[r].via]) < ChanCap
             /\ push' = [push EXCEPT ![disp[r].via] = Append(@, r)]
    <3>1. disp[r].via \in Sessions
      BY DEF HubSend, DispInv
    <3> QED BY <2>2, <3>1, AppendType DEF HubSend, ChanTypeOK
  <2> QED BY <2>1, <2>2 DEF HubSend
<1>2. DispTypeOK'
  BY DEF HubSend, DispTypeOK
<1>3. DispInv'
  <2> SUFFICES ASSUME NEW q \in Runs
               PROVE DispInv!(q)'
    BY DEF DispInv
  <2>1. CASE q = r
    <3>1. disp'[r].st \in {"live", "unsent"} /\ disp'[r].node = disp[r].node /\ rows' = rows
      <4>1. rows' = rows
        BY DEF HubSend
      <4>2. CASE disp' = [disp EXCEPT ![r] = [disp[r] EXCEPT !.st = "live", !.via = NoSession]]
        BY <4>1, <4>2 DEF DispTypeOK
      <4>3. CASE disp' = [disp EXCEPT ![r] = [disp[r] EXCEPT !.st = "unsent", !.via = NoSession]]
        BY <4>1, <4>3 DEF DispTypeOK
      <4> QED BY <4>2, <4>3 DEF HubSend
    <3>2. disp[r].node \in Nodes /\ rows[r] = "absent"
      BY DEF HubSend, DispInv
    <3> QED BY <2>1, <3>1, <3>2 DEF DispInv
  <2>2. CASE q # r
    <3>1. disp'[q] = disp[q] /\ rows' = rows
      BY <2>2 DEF HubSend, DispTypeOK
    <3> QED BY <3>1 DEF DispInv
  <2> QED BY <2>1, <2>2
<1>4. RowUntilResult'
  <2>1. \A q \in Runs : disp'[q].st = "queued" => disp[q].st = "queued"
    BY DEF HubSend, DispTypeOK
  <2> QED BY <2>1 DEF HubSend, RowUntilResult
<1>5. NoOrphanClaim'
  <2>1. faults' = 0 => faults = 0
    BY DEF HubSend, DbTypeOK
  <2>2. \A q \in Runs : rows'[q] \in InFlight =>
            rows[q] \in InFlight /\ disp'[q].node = disp[q].node
    BY DEF HubSend, DbTypeOK, DispTypeOK, DispInv, InFlight
  <2>3. \A t \in Sessions : bound[t] \in Nodes /\ pc[t] \notin {"idle", "done"} =>
            bound'[t] = bound[t] /\ pc'[t] \notin {"idle", "done"}
    BY DEF HubSend, TaskTypeOK, TaskInv
  <2> QED BY <2>1, <2>2, <2>3, KeepsClaims
<1>6. FlushGated'
  <2>1. \A q \in Runs : disp[q].st = "queued" => disp'[q] = disp[q]
    BY DEF HubSend, DispTypeOK
  <2> QED BY <2>1 DEF HubSend, FlushGated, TaskTypeOK
<1>7. UNCHANGED <<TaskTypeOK, DbTypeOK, TaskInv, AckInv, HubSound>>
  BY DEF HubSend, TaskTypeOK, DbTypeOK, TaskInv, AckInv, HubSound
<1> QED BY <1>1, <1>2, <1>3, <1>4, <1>5, <1>6, <1>7 DEF IInv, TypeOK

\* A new row belongs to a dispatch that had none.
LEMMA EnqueueStep ==
    ASSUME IInv, NEW r \in Runs, Enqueue(r) PROVE IInv'
<1> USE IInvParts, ControlAssumption DEF taskVars, chanVars, dbVars, Goto, Waiting
<1>1. DispTypeOK'
  BY NextIdType DEF Enqueue, DispTypeOK
<1>2. DbTypeOK'
  BY DEF Enqueue, DbOk, DbFault, DbTypeOK, TaskTypeOK, RowStates, InFlight, Gens, TaskInv
<1>3. DispInv'
  <2> SUFFICES ASSUME NEW q \in Runs
               PROVE DispInv!(q)'
    BY DEF DispInv
  <2>1. CASE q = r
    <3>1. /\ \/ disp'[r].st = "queued"
             \/ disp'[r].st = "rejected" /\ rows' = rows
          /\ disp'[r].node = disp[r].node
      BY NextIdType DEF Enqueue, DispTypeOK
    <3>2. disp[r].node \in Nodes /\ rows[r] = "absent"
      BY DEF Enqueue, DispInv
    <3> QED BY <2>1, <3>1, <3>2 DEF DispInv
  <2>2. CASE q # r
    <3>1. disp'[q] = disp[q] /\ rows'[q] = rows[q]
      BY <2>2 DEF Enqueue, DispTypeOK, DbTypeOK
    <3> QED BY <3>1 DEF DispInv
  <2> QED BY <2>1, <2>2
<1>4. RowUntilResult'
  BY DEF Enqueue, DbOk, DbFault, RowUntilResult, DbTypeOK, DispTypeOK, AckInv, DispInv, RowStates, InFlight
<1>5. NoOrphanClaim'
  BY DEF Enqueue, DbOk, DbFault, NoOrphanClaim, TaskInv, TaskTypeOK, DbTypeOK, DispTypeOK, DispInv, RowStates, InFlight
<1>6. FlushGated'
  <2>1. \A q \in Runs : disp[q].st = "queued" => disp'[q] = disp[q]
    BY DEF Enqueue, DispTypeOK
  <2> QED BY <2>1 DEF Enqueue, FlushGated, TaskTypeOK
<1>7. UNCHANGED <<TaskTypeOK, ChanTypeOK, TaskInv, AckInv, HubSound>>
  BY DEF Enqueue, DbOk, DbFault, TaskTypeOK, ChanTypeOK, TaskInv, AckInv, HubSound
<1> QED BY <1>1, <1>2, <1>3, <1>4, <1>5, <1>6, <1>7 DEF IInv, TypeOK

\* A stale row is still claimed.
LEMMA ExpireStep ==
    ASSUME IInv, NEW r \in Runs, Expire(r) PROVE IInv'
<1> USE IInvParts, ControlAssumption DEF taskVars, chanVars, dbVars, Goto, Waiting
<1>1. DbTypeOK'
  BY DEF Expire, DbTypeOK, TaskTypeOK, RowStates, InFlight, Gens, TaskInv
<1>2. DispInv'
  BY DEF Expire, DispInv, DispTypeOK, DbTypeOK, FlushGated, RowStates, InFlight, AckInv
<1>3. RowUntilResult'
  BY DEF Expire, RowUntilResult, DbTypeOK, DispTypeOK, AckInv, DispInv, RowStates, InFlight
<1>4. NoOrphanClaim'
  BY DEF Expire, NoOrphanClaim, TaskInv, TaskTypeOK, DbTypeOK, DispTypeOK, DispInv, RowStates, InFlight
<1>5. UNCHANGED <<TaskTypeOK, ChanTypeOK, DispTypeOK, TaskInv, AckInv, HubSound, FlushGated>>
  BY DEF Expire, TaskTypeOK, ChanTypeOK, DispTypeOK, TaskInv, AckInv, HubSound, FlushGated
<1> QED BY <1>1, <1>2, <1>3, <1>4, <1>5 DEF IInv, TypeOK

\* A new config changes a generation.
LEMMA PutConfigStep ==
    ASSUME IInv, NEW n \in Nodes, PutConfig(n) PROVE IInv'
<1> USE IInvParts, ControlAssumption DEF taskVars, chanVars, dbVars, Goto, Waiting
<1>1. DbTypeOK'
  BY DEF PutConfig, DbTypeOK, TaskTypeOK, RowStates, InFlight, Gens, TaskInv
<1>2. UNCHANGED <<TaskTypeOK, ChanTypeOK, DispTypeOK, TaskInv, AckInv, DispInv, HubSound, RowUntilResult, NoOrphanClaim, FlushGated>>
  BY DEF PutConfig, TaskTypeOK, ChanTypeOK, DispTypeOK, TaskInv, AckInv, DispInv, HubSound, RowUntilResult, NoOrphanClaim, FlushGated
<1> QED BY <1>1, <1>2 DEF IInv, TypeOK

\* A restart empties all tasks and leaves the table alone.
LEMMA RestartStep ==
    ASSUME IInv, Restart PROVE IInv'
<1> USE IInvParts, ControlAssumption DEF taskVars, chanVars, dbVars, Goto, Waiting
<1>1. TaskTypeOK'
  BY DEF Restart, DbOk, DbFault, TaskTypeOK, Labels, TaskInv
<1>2. ChanTypeOK'
  <2>1. <<>> \in Seq(Runs) /\ <<>> \in Seq(ServerMessages) /\ Len(<<>>) = 0
    OBVIOUS
  <2>2. push' \in [Sessions -> Seq(Runs)] /\ out' \in [Sessions -> Seq(ServerMessages)]
    BY <2>1 DEF Restart
  <2>3. \A t \in Sessions : Len(push'[t]) <= ChanCap /\ Len(out'[t]) <= ChanCap
    <3>1. \A t \in Sessions : push'[t] = <<>> /\ out'[t] = <<>>
      BY DEF Restart
    <3> QED BY <2>1, <3>1
  <2>4. cut' \subseteq Sessions /\ live' \in [Sessions -> BOOLEAN]
    BY DEF Restart
  <2> QED BY <2>2, <2>3, <2>4 DEF ChanTypeOK
<1>3. DispTypeOK'
  BY DEF Restart, DbOk, DbFault, DispTypeOK
<1>4. DbTypeOK'
  <2>1. faults' \in Nat
    <3>1. DbFault
      BY DEF Restart
    <3> QED BY <3>1 DEF DbFault, DbTypeOK
  <2>2. hub' \in [Nodes -> Sessions \cup {NoSession}]
    BY DEF Restart
  <2> QED BY <2>1, <2>2 DEF Restart, DbTypeOK, Gens
<1>5. TaskInv'
  BY DEF Restart, DbOk, DbFault, TaskInv, TaskTypeOK, Labels, HubSound, DbTypeOK
<1>6. AckInv'
  BY DEF Restart, DbOk, DbFault, AckInv, TaskTypeOK, DbTypeOK
<1>7. DispInv'
  <2> SUFFICES ASSUME NEW r \in Runs
               PROVE DispInv!(r)'
    BY DEF DispInv
  <2>1. CASE disp[r].st \in {"holding", "unsent"}
    BY <2>1 DEF Restart, DispInv, DispTypeOK
  <2>2. CASE disp[r].st \notin {"holding", "unsent"}
    BY <2>2 DEF Restart, DispInv, DispTypeOK
  <2> QED BY <2>1, <2>2
<1>8. HubSound'
  BY DEF Restart, DbOk, DbFault, HubSound, TaskInv, TaskTypeOK, DbTypeOK
<1>9. RowUntilResult'
  BY DEF Restart, DbOk, DbFault, RowUntilResult, DbTypeOK, DispTypeOK, AckInv, DispInv, RowStates, InFlight
<1>10. NoOrphanClaim'
  <2>1. faults' # 0
    <3>1. DbFault
      BY DEF Restart
    <3> QED BY <3>1 DEF DbFault, DbTypeOK
  <2> QED BY <2>1 DEF NoOrphanClaim
<1>11. FlushGated'
  BY DEF Restart, DbOk, DbFault, FlushGated, TaskInv, TaskTypeOK, DispTypeOK, DbTypeOK, DispInv, RowStates, InFlight
<1> QED BY <1>1, <1>2, <1>3, <1>4, <1>5, <1>6, <1>7, <1>8, <1>9, <1>10, <1>11 DEF IInv, TypeOK

(***************************************************************************)
(* The invariant                                                           *)
(***************************************************************************)
\* The center starts without tasks, rows or senders.
LEMMA InitInv == Init => IInv
<1> SUFFICES ASSUME Init PROVE IInv
  OBVIOUS
<1> USE ControlAssumption DEF Init
<1>1. TaskTypeOK
  BY DEF TaskTypeOK, Labels
<1>2. ChanTypeOK
  <2>1. <<>> \in Seq(Runs) /\ <<>> \in Seq(ServerMessages) /\ Len(<<>>) = 0
    OBVIOUS
  <2> QED BY <2>1 DEF ChanTypeOK
<1>3. DispTypeOK
  BY DEF DispTypeOK
<1>4. DbTypeOK
  BY DEF DbTypeOK, RowStates, Gens
<1>5. TaskInv /\ AckInv /\ DispInv
  BY DEF TaskInv, AckInv, DispInv
<1>6. HubSound /\ RowUntilResult /\ NoOrphanClaim /\ FlushGated
  BY DEF HubSound, RowUntilResult, NoOrphanClaim, InFlight, FlushGated
<1> QED BY <1>1, <1>2, <1>3, <1>4, <1>5, <1>6 DEF IInv, TypeOK

\* Nothing changes in a stuttering step.
LEMMA StutterInv == IInv /\ UNCHANGED vars => IInv'
BY DEF vars, taskVars, chanVars, dbVars, IInv, TypeOK, TaskTypeOK, ChanTypeOK, DispTypeOK, DbTypeOK,
       TaskInv, AckInv, DispInv, HubSound, RowUntilResult, NoOrphanClaim, FlushGated

\* Every step of every task keeps the invariant.
LEMMA NextInv == IInv /\ [Next]_vars => IInv'
<1> SUFFICES ASSUME IInv, [Next]_vars PROVE IInv'
  OBVIOUS
<1>1. CASE UNCHANGED vars
  BY <1>1, StutterInv
<1>2. ASSUME NEW s \in Sessions, RecvAny(s) PROVE IInv'
  BY <1>2, RecvUnboundStep, RecvRegisterStep, RecvHeartbeatStep, RecvPullConfigStep,
     RecvPullSkillsStep, RecvSkillStateStep, RecvReportStep, RecvNodeReadyStep DEF RecvAny
<1>3. ASSUME NEW s \in Sessions, TaskStep(s) PROVE IInv'
  BY <1>3, RegisterRequeueStep, AckRowStep, RebindStep, RebindRequeueStep, ActivateStep,
     ClaimStep, SendClaimedStep, SendFailedStep, ReplyStep, ForwardStep, StreamEndedStep,
     UnregisterStep, ExitRequeueStep DEF TaskStep
<1>4. ASSUME NEW r \in Runs, HttpStep(r) PROVE IInv'
  BY <1>4, DispatchStartStep, HubSendStep, EnqueueStep DEF HttpStep
<1> QED BY <1>1, <1>2, <1>3, <1>4, OpenStep, ReadyTimeoutStep, CutStep, DropStep, TakeStep,
           ExpireStep, PutConfigStep, RestartStep DEF Next

\* IInv is an invariant of the center for any nodes, sessions and runs.
THEOREM Invariance == Spec => []IInv
BY InitInv, NextInv, PTL DEF Spec

(***************************************************************************)
(* What follows from it                                                    *)
(***************************************************************************)
\* Every variable of the session tasks keeps its type, and no mpsc channel of
\* grpc.rs or hub.rs ever holds more than its capacity.
THEOREM TypeCorrect == Spec => []TypeOK
<1>1. IInv => TypeOK
  BY DEF IInv
<1> QED BY <1>1, Invariance, PTL

\* A sender in the Hub belongs to a running, ready session bound to that node:
\* register, unregister, evict and rebind never leave another one behind.
THEOREM HubIsSound == Spec => []HubSound
<1>1. IInv => HubSound
  BY DEF IInv
<1> QED BY <1>1, Invariance, PTL

\* A row of pending_dispatches is deleted only after a result of its run has
\* been stored, whatever fails and however often the center restarts.
THEOREM QueueKeepsRows == Spec => []RowUntilResult
<1>1. IInv => RowUntilResult
  BY DEF IInv
<1> QED BY <1>1, Invariance, PTL

\* Without database failures and restarts a claimed row always has a session
\* that will requeue it: requeue_in_flight_for_node covers every exit.
THEOREM ClaimsAreCovered == Spec => []NoOrphanClaim
<1>1. IInv => NoOrphanClaim
  BY DEF IInv
<1> QED BY <1>1, Invariance, PTL

\* flush_pending only handles rows claimed for the bound node by a session whose
\* ReadyGate is open.
THEOREM FlushIsGated == Spec => []FlushGated
<1>1. IInv => FlushGated
  BY DEF IInv
<1> QED BY <1>1, Invariance, PTL

(***************************************************************************)
(* ControlSession implements DispatchLedger: the accepted runs are the     *)
(* dispatches in state queued, the debts are the rows of pending_dispatches, *)
(* and the stored outcomes are the results.                                *)
(***************************************************************************)
\* No dispatch has been accepted.
LEMMA LedgerInit == Init => Ledger!LInit
BY DEF Init, Ledger!LInit

\* A step that keeps the queued dispatches, the rows and the results is a stutter.
LEMMA LedgerStutter ==
    ASSUME \A q \in Runs : (disp'[q].st = "queued") <=> (disp[q].st = "queued"),
           \A q \in Runs : (rows'[q] = "absent") <=> (rows[q] = "absent"),
           results' = results
    PROVE  UNCHANGED Ledger!ledgerVars
<1>1. {q \in Runs : disp'[q].st = "queued"} = {q \in Runs : disp[q].st = "queued"}
  OBVIOUS
<1>2. {q \in Runs : rows'[q] # "absent"} = {q \in Runs : rows[q] # "absent"}
  OBVIOUS
<1> QED BY <1>1, <1>2 DEF Ledger!ledgerVars

\* A successful enqueue_dispatch accepts the run.
LEMMA EnqueueLedger ==
    ASSUME IInv, NEW r \in Runs, Enqueue(r)
    PROVE  Ledger!Accept(r) \/ UNCHANGED Ledger!ledgerVars
<1> USE IInvParts
<1>1. disp[r].st = "unsent" /\ rows[r] = "absent" /\ results' = results
  BY DEF Enqueue, DispInv, dbVars
<1>2. \A q \in Runs \ {r} : disp'[q] = disp[q] /\ rows'[q] = rows[q]
  BY DEF Enqueue, DispTypeOK, DbTypeOK
<1>3. CASE rows' = [rows EXCEPT ![r] = "available"]
           /\ disp' = [disp EXCEPT ![r] = [@ EXCEPT !.st = "queued", !.id = NextId]]
  <2>1. disp'[r].st = "queued" /\ rows'[r] = "available"
    BY <1>3, NextIdType DEF DispTypeOK, DbTypeOK
  <2>2. {q \in Runs : disp'[q].st = "queued"} = {q \in Runs : disp[q].st = "queued"} \cup {r}
    BY <1>2, <2>1
  <2>3. {q \in Runs : rows'[q] # "absent"} = {q \in Runs : rows[q] # "absent"} \cup {r}
    BY <1>2, <2>1
  <2> QED BY <1>1, <2>2, <2>3 DEF Ledger!Accept
<1>4. CASE rows' = rows /\ disp' = [disp EXCEPT ![r].st = "rejected"]
  <2>1. disp'[r].st = "rejected"
    BY <1>4 DEF DispTypeOK
  <2> QED BY <1>1, <1>2, <1>4, <2>1, LedgerStutter
<1> QED BY <1>3, <1>4 DEF Enqueue

\* store_reported_result stores an outcome, or fails.
LEMMA ReportLedger ==
    ASSUME IInv, NEW s \in Sessions, NEW n \in Nodes, NEW r \in Runs, NEW o \in Outcomes,
           RecvReport(s, n, r, o)
    PROVE  Ledger!Store(r, o) \/ UNCHANGED Ledger!ledgerVars
BY DEF RecvReport, Frame, Ledger!Store, Ledger!ledgerVars, chanVars

\* ack_pending_dispatch settles runs whose outcome is stored.
LEMMA AckLedger ==
    ASSUME IInv, NEW s \in Sessions, AckRow(s)
    PROVE  (\E S \in SUBSET Runs : Ledger!Settle(S)) \/ UNCHANGED Ledger!ledgerVars
<1> USE IInvParts
<1>1. CASE rows' = rows
  BY <1>1, LedgerStutter DEF AckRow
<1>2. CASE rows' = [r \in Runs |-> IF r \in acking[s] /\ disp[r].node = hint[s]
                                   THEN "absent" ELSE rows[r]]
  <2> DEFINE Paid == {r \in Runs : r \in acking[s] /\ disp[r].node = hint[s] /\ rows[r] # "absent"}
  <2>1. \A r \in Paid : results[r] # {}
    BY DEF AckInv
  <2>2. {r \in Runs : rows'[r] # "absent"} = {r \in Runs : rows[r] # "absent"} \ Paid
    BY <1>2
  <2>3. UNCHANGED <<disp, results>>
    BY DEF AckRow
  <2>4. Ledger!Settle(Paid) /\ Paid \in SUBSET Runs
    BY <2>1, <2>2, <2>3 DEF Ledger!Settle
  <2> HIDE DEF Paid
  <2>5. \E S \in SUBSET Runs : Ledger!Settle(S)
    BY <2>4 DEF Ledger!Settle
  <2> QED BY <2>5
<1> QED BY <1>1, <1>2 DEF AckRow

\* Requeueing and claiming move rows between states but neither add nor remove one.
LEMMA RowsLedger ==
    ASSUME IInv, NEW s \in Sessions,
           \/ RegisterRequeue(s) \/ RebindRequeue(s) \/ Claim(s)
           \/ SendFailed(s) \/ ExitRequeue(s)
    PROVE  UNCHANGED Ledger!ledgerVars
<1> USE IInvParts, LedgerStutter DEF DispTypeOK, DbTypeOK, InFlight, RowStates
<1>1. CASE RegisterRequeue(s)
  BY <1>1 DEF RegisterRequeue, RequeueNode, Requeued
<1>2. CASE RebindRequeue(s)
  BY <1>2 DEF RebindRequeue, RequeueNode, Requeued
<1>3. CASE Claim(s)
  BY <1>3 DEF Claim, Claimable
<1>4. CASE SendFailed(s)
  BY <1>4 DEF SendFailed
<1>5. CASE ExitRequeue(s)
  BY <1>5 DEF ExitRequeue, RequeueNode, Requeued
<1> QED BY <1>1, <1>2, <1>3, <1>4, <1>5

\* A live dispatch is in no ledger, and neither expiry nor a restart drops a row.
LEMMA DispatchLedgerStep ==
    ASSUME IInv,
           \/ \E r \in Runs : (\E n \in Nodes : DispatchStart(r, n)) \/ HubSend(r) \/ Expire(r)
           \/ Restart
    PROVE  UNCHANGED Ledger!ledgerVars
<1> USE IInvParts, LedgerStutter DEF dbVars, DispTypeOK, DbTypeOK
<1>1. ASSUME NEW r \in Runs, NEW n \in Nodes, DispatchStart(r, n) PROVE UNCHANGED Ledger!ledgerVars
  BY <1>1 DEF DispatchStart
<1>2. ASSUME NEW r \in Runs, HubSend(r) PROVE UNCHANGED Ledger!ledgerVars
  BY <1>2 DEF HubSend
<1>3. ASSUME NEW r \in Runs, Expire(r) PROVE UNCHANGED Ledger!ledgerVars
  BY <1>3 DEF Expire
<1>4. CASE Restart
  BY <1>4 DEF Restart
<1> QED BY <1>1, <1>2, <1>3, <1>4

\* The other frames and steps of a session touch neither the table nor the dispatches.
LEMMA FrameLedger ==
    ASSUME NEW s \in Sessions,
           \/ Open(s) \/ RecvUnbound(s) \/ Rebind(s) \/ ReadyTimeout(s) \/ Activate(s)
           \/ Reply(s) \/ Forward(s) \/ Cut(s) \/ Drop(s) \/ StreamEnded(s) \/ Unregister(s)
           \/ Take(s) \/ (\E r \in Runs : SendClaimed(s, r))
           \/ \E n \in Nodes : \/ RecvRegister(s, n) \/ RecvHeartbeat(s, n) \/ RecvPullConfig(s, n)
                               \/ RecvPullSkills(s, n) \/ RecvSkillState(s, n)
                               \/ \E g \in Gens : RecvNodeReady(s, n, g)
    PROVE  UNCHANGED Ledger!ledgerVars
BY LedgerStutter DEF dbVars, Frame, Open, RecvRegister, RecvUnbound, RecvHeartbeat,
   RecvPullConfig, RecvPullSkills, RecvSkillState, RecvNodeReady, Rebind, ReadyTimeout, Activate,
   SendClaimed, Reply, Forward, Cut, Drop, StreamEnded, Unregister, Take

\* Every step of the center is a step of the ledger or a stutter.
LEMMA LedgerStep == IInv /\ [Next]_vars => [Ledger!LNext]_(Ledger!ledgerVars)
<1> SUFFICES ASSUME IInv, [Next]_vars PROVE Ledger!LNext \/ UNCHANGED Ledger!ledgerVars
  OBVIOUS
<1>1. CASE UNCHANGED vars
  BY <1>1 DEF vars, dbVars, Ledger!ledgerVars
<1>2. ASSUME NEW s \in Sessions, RecvAny(s) PROVE Ledger!LNext \/ UNCHANGED Ledger!ledgerVars
  BY <1>2, ReportLedger, FrameLedger DEF RecvAny, Ledger!LNext
<1>3. ASSUME NEW s \in Sessions, TaskStep(s) PROVE Ledger!LNext \/ UNCHANGED Ledger!ledgerVars
  BY <1>3, AckLedger, RowsLedger, FrameLedger DEF TaskStep, Ledger!LNext
<1>4. ASSUME NEW r \in Runs, HttpStep(r) PROVE Ledger!LNext \/ UNCHANGED Ledger!ledgerVars
  BY <1>4, EnqueueLedger, DispatchLedgerStep DEF HttpStep, Ledger!LNext
<1>5. ASSUME NEW n \in Nodes, PutConfig(n) PROVE UNCHANGED Ledger!ledgerVars
  BY <1>5 DEF PutConfig, Ledger!ledgerVars
<1> QED BY <1>1, <1>2, <1>3, <1>4, <1>5, DispatchLedgerStep, FrameLedger DEF Next

\* The table is a ledger for any number of nodes, sessions and runs: no dispatch
\* is queued twice and no row disappears before an outcome of its run is stored.
THEOREM LedgerRefinement == Spec => RefinesLedger
<1>1. Init => Ledger!LInit
  BY LedgerInit
<1>2. IInv /\ [Next]_vars => [Ledger!LNext]_(Ledger!ledgerVars)
  BY LedgerStep
<1> QED BY <1>1, <1>2, Invariance, PTL DEF Spec, RefinesLedger, Ledger!LSpec

(***************************************************************************)
(* DispatchDelivery: the node executes a run once per process, and no      *)
(* dispatch comes before a config.                                         *)
(***************************************************************************)
Items == [run : Runs, outcome : Outcomes]
UpFrames == [kind : {"register", "heartbeat", "pull_config"}]
                \cup [kind : {"node_ready"}, gen : Gens]
                \cup [kind : {"report"}, run : Runs, outcome : Outcomes]

NodeTypeOK ==
    /\ nsess \in Sessions \cup {NoSession}
    /\ up \in [Sessions -> Seq(UpFrames)]
    /\ cfg \in [loaded : BOOLEAN, gen : Gens]
    /\ seen \subseteq Runs
    /\ job \subseteq Runs
    /\ spool \in Seq(Items)
    /\ drained \in [Flushers -> Seq(Items)]
    /\ ran \in [Runs -> Nat]
    /\ crashes \in Nat

\* What this process has executed under an id it has seen.
ExecutedIsSeen == \A r \in Runs : ran[r] <= IF r \in seen THEN 1 ELSE 0

\* A stream that was never opened has nothing on it and nobody holds its sender.
UnopenedIsEmpty ==
    /\ \A s \in Sessions : pc[s] = "idle" => s \notin cut /\ push[s] = <<>> /\ out[s] = <<>>
    /\ \A r \in Runs : disp[r].st = "holding" => pc[disp[r].via] # "idle"

\* No dispatch is on its way to the stream, nor can one be sent.
Quiet(s) ==
    /\ ~ready[s]
    /\ push[s] = <<>>
    /\ \A i \in 1..Len(out[s]) : out[s][i].kind # "dispatch"
    /\ \A r \in Runs : disp[r].st = "holding" => disp[r].via # s

NoReadyFrame(s) == \A i \in 1..Len(up[s]) : up[s][i].kind # "node_ready"

Unloaded == nsess # NoSession /\ nsess \notin forced \cup cut /\ ~cfg.loaded

\* While the node has no config it has not said that it is ready, so the stream is quiet.
UnloadedIsQuiet == Unloaded => Quiet(nsess) /\ NoReadyFrame(nsess)

DInv == IInv /\ NodeTypeOK /\ ExecutedIsSeen /\ UnopenedIsEmpty /\ UnloadedIsQuiet

LEMMA FrameTypes ==
    /\ [kind |-> "register"] \in UpFrames
    /\ [kind |-> "heartbeat"] \in UpFrames
    /\ [kind |-> "pull_config"] \in UpFrames
    /\ \A g \in Gens : [kind |-> "node_ready", gen |-> g] \in UpFrames
    /\ \A p \in Items : ReportFrame(p) \in UpFrames /\ ReportFrame(p).kind = "report"
BY DEF UpFrames, ReportFrame, Items

LEMMA InitD == DInit => DInv
<1> SUFFICES ASSUME DInit PROVE DInv
  OBVIOUS
<1>1. IInv
  BY InitInv DEF DInit
<1>2. NodeTypeOK
  <2>1. NodeInit /\ <<>> \in Seq(UpFrames) /\ <<>> \in Seq(Items) /\ NotLoaded \in [loaded : BOOLEAN, gen : Gens]
    BY ControlAssumption DEF DInit, NotLoaded, Gens
  <2> QED BY <2>1 DEF NodeInit, NodeTypeOK
<1>3. ExecutedIsSeen
  BY DEF DInit, NodeInit, ExecutedIsSeen
<1>4. UnopenedIsEmpty
  BY DEF DInit, Init, UnopenedIsEmpty
<1>5. UnloadedIsQuiet
  BY DEF DInit, NodeInit, UnloadedIsQuiet, Unloaded
<1> QED BY <1>1, <1>2, <1>3, <1>4, <1>5 DEF DInv

-----------------------------------------------------------------------------
\* A step of the center after which every quiet stream is quiet but for those in the set.
Calm(loud) ==
    /\ cut' = cut
    /\ \A s \in Sessions : pc'[s] = "idle" => pc[s] = "idle" /\ push'[s] = push[s] /\ out'[s] = out[s]
    /\ \A r \in Runs : disp'[r].st = "holding" => pc'[disp'[r].via] # "idle"
    /\ \A s \in Sessions \ loud : Quiet(s) => Quiet(s)'

\* The steps that leave the channels, the Hub's senders and the gates as they are.
LEMMA CalmIf ==
    ASSUME IInv, UnopenedIsEmpty, UNCHANGED <<cut, push, out, disp>>,
           NEW s \in Sessions, NEW l \in Labels, l # "idle", pc' = [pc EXCEPT ![s] = l],
           NEW loud, \A t \in Sessions \ loud : ready'[t] => ready[t]
    PROVE  Calm(loud)
<1>1. pc \in [Sessions -> Labels] /\ \A r \in Runs : disp[r].st = "holding" => disp[r].via \in Sessions
  BY IInvParts DEF TaskTypeOK, DispInv
<1>2. \A t \in Sessions : pc'[t] = "idle" => pc[t] = "idle"
  BY <1>1
<1>3. \A r \in Runs : disp[r].st = "holding" => pc'[disp[r].via] # "idle"
  BY <1>1, <1>2 DEF UnopenedIsEmpty
<1>4. \A t \in Sessions \ loud : Quiet(t) => Quiet(t)'
  BY DEF Quiet
<1> QED BY <1>2, <1>3, <1>4 DEF Calm

LEMMA BindCalm ==
    ASSUME IInv, UnopenedIsEmpty, UNCHANGED <<cut, push, out, disp, ready>>,
           NEW s \in Sessions, NEW n, BindTo(s, n)
    PROVE  Calm({})
<1>1. PICK l \in Labels : l # "idle" /\ pc' = [pc EXCEPT ![s] = l]
  BY DEF BindTo, Goto, AfterFrame, Answer, Labels
<1> QED BY <1>1, CalmIf

\* A step that sends at most one dispatch to a stream whose gate is open, or none.
LEMMA EmitQuiet ==
    ASSUME IInv, NEW s \in Sessions, NEW m, m.kind # "dispatch", Emit(s, m), NEW t \in Sessions,
           \A i \in 1..Len(out[t]) : out[t][i].kind # "dispatch"
    PROVE  \A i \in 1..Len(out'[t]) : out'[t][i].kind # "dispatch"
<1>1. out \in [Sessions -> Seq(ServerMessages)]
  BY IInvParts DEF ChanTypeOK
<1>2. CASE out'[t] = out[t]
  BY <1>2
<1>3. CASE out'[t] = Append(out[t], m)
  BY <1>1, <1>3
<1> QED BY <1>1, <1>2, <1>3 DEF Emit

LEMMA EmitElsewhere ==
    ASSUME IInv, NEW s \in Sessions, NEW m, Emit(s, m)
    PROVE  \A t \in Sessions \ {s} : out'[t] = out[t]
BY IInvParts DEF ChanTypeOK, Emit

LEMMA RepliesAreNoDispatch == \A m \in Replies : m.kind # "dispatch"
BY DEF Replies, SkillsMsg

-----------------------------------------------------------------------------
\* The steps of the session tasks
LEMMA RecvCalm ==
    ASSUME IInv, UnopenedIsEmpty, NEW s \in Sessions,
           \E n \in Nodes :
              \/ RecvRegister(s, n) \/ RecvHeartbeat(s, n) \/ RecvPullConfig(s, n)
              \/ RecvUnbound(s) \/ RecvSkillState(s, n)
              \/ \E r \in Runs, o \in Outcomes : RecvReport(s, n, r, o)
    PROVE  Calm({})
<1>1. PICK n \in Nodes :
         \/ RecvRegister(s, n) \/ RecvHeartbeat(s, n) \/ RecvPullConfig(s, n)
         \/ RecvUnbound(s) \/ RecvSkillState(s, n)
         \/ \E r \in Runs, o \in Outcomes : RecvReport(s, n, r, o)
  OBVIOUS
<1>2. UNCHANGED <<cut, push, out, disp, ready>>
  BY <1>1 DEF RecvRegister, RecvUnbound, RecvHeartbeat, RecvPullConfig, RecvSkillState, RecvReport, Frame, chanVars
<1>3. BindTo(s, n) \/ \E l \in Labels : l # "idle" /\ pc' = [pc EXCEPT ![s] = l]
  BY <1>1 DEF RecvRegister, RecvUnbound, RecvHeartbeat, RecvPullConfig, RecvSkillState, RecvReport, AfterFrame, Answer, Goto, Labels
<1>4. CASE BindTo(s, n)
  BY <1>2, <1>4, BindCalm
<1>5. CASE \E l \in Labels : l # "idle" /\ pc' = [pc EXCEPT ![s] = l]
  BY <1>2, <1>5, CalmIf
<1> QED BY <1>3, <1>4, <1>5

LEMMA RecvNodeReadyCalm ==
    ASSUME IInv, UnopenedIsEmpty, NEW s \in Sessions, NEW n \in Nodes, NEW g \in Gens, RecvNodeReady(s, n, g)
    PROVE  Calm({s})
<1>1. UNCHANGED <<cut, push, out, disp>>
  BY DEF RecvNodeReady, Frame, chanVars
<1>2. PICK l \in Labels : l # "idle" /\ pc' = [pc EXCEPT ![s] = l]
  BY DEF RecvNodeReady, Goto, AfterFrame, Answer, Labels
<1>3. \A t \in Sessions \ {s} : ready'[t] => ready[t]
  BY IInvParts DEF RecvNodeReady, TaskTypeOK
<1> QED BY <1>1, <1>2, <1>3, CalmIf

LEMMA ReadyTimeoutCalm ==
    ASSUME IInv, UnopenedIsEmpty, NEW s \in Sessions, ReadyTimeout(s) PROVE Calm({s})
<1>1. UNCHANGED <<cut, push, out, disp>> /\ pc' = [pc EXCEPT ![s] = "activate"] /\ "activate" \in Labels
  BY DEF ReadyTimeout, chanVars, Goto, Labels
<1>2. \A t \in Sessions \ {s} : ready'[t] => ready[t]
  BY IInvParts DEF ReadyTimeout, TaskTypeOK
<1> QED BY <1>1, <1>2, CalmIf

\* The steps that send nothing
LEMMA TaskCalm ==
    ASSUME IInv, UnopenedIsEmpty, NEW s \in Sessions,
           \/ RegisterRequeue(s) \/ AckRow(s) \/ Rebind(s) \/ RebindRequeue(s) \/ Activate(s)
           \/ Claim(s) \/ SendFailed(s) \/ StreamEnded(s) \/ Unregister(s)
    PROVE  Calm({})
<1>1. UNCHANGED <<cut, push, out, disp>>
  BY DEF RegisterRequeue, AckRow, Rebind, RebindRequeue, Activate, Claim, SendFailed, StreamEnded,
         Unregister, chanVars
<1>2. \A t \in Sessions : ready'[t] => ready[t]
  BY IInvParts DEF RegisterRequeue, AckRow, Rebind, RebindRequeue, Activate, Claim, SendFailed, StreamEnded,
         Unregister, TaskTypeOK
<1>3. CASE RegisterRequeue(s) \/ AckRow(s)
  <2>1. UNCHANGED ready /\ BindTo(s, hint[s])
    BY <1>3 DEF RegisterRequeue, AckRow
  <2> QED BY <1>1, <2>1, BindCalm
<1>4. CASE Rebind(s) \/ RebindRequeue(s) \/ Activate(s) \/ Claim(s) \/ SendFailed(s) \/ StreamEnded(s) \/ Unregister(s)
  <2>1. PICK l \in Labels : l # "idle" /\ pc' = [pc EXCEPT ![s] = l]
    BY <1>4 DEF Rebind, RebindRequeue, Activate, Claim, SendFailed, StreamEnded, Unregister,
            Goto, Return, Answer, Labels
  <2> QED BY <1>1, <1>2, <2>1, CalmIf
<1> QED BY <1>3, <1>4

\* The steps that write to a stream: a dispatch comes from the batch, which is claimed
\* only with the gate open, or from the Hub's channel.
LEMMA WriteCalm ==
    ASSUME IInv, UnopenedIsEmpty, NEW s \in Sessions,
           (\E r \in Runs : SendClaimed(s, r)) \/ Reply(s) \/ Forward(s)
    PROVE  Calm({})
<1>1. /\ pc \in [Sessions -> Labels] /\ push \in [Sessions -> Seq(Runs)] /\ out \in [Sessions -> Seq(ServerMessages)]
      /\ \A r \in Runs : disp[r].st = "holding" => disp[r].via \in Sessions
  BY IInvParts DEF TaskTypeOK, ChanTypeOK, DispInv
<1>2. UNCHANGED <<cut, disp, ready>>
  BY DEF SendClaimed, Reply, Forward
<1>3. PICK l \in Labels : l # "idle" /\ pc' = [pc EXCEPT ![s] = l]
  <2>1. CASE \E r \in Runs : SendClaimed(s, r)
    <3>1. pc[s] = "send" /\ (UNCHANGED pc \/ Return(s))
      BY <2>1 DEF SendClaimed
    <3>2. CASE UNCHANGED pc
      <4>1. pc' = [pc EXCEPT ![s] = "send"] /\ "send" \in Labels
        BY <1>1, <3>1, <3>2 DEF Labels
      <4> QED BY <4>1
    <3>3. CASE Return(s)
      BY <3>3 DEF Return, Goto, Answer, Labels
    <3> QED BY <3>1, <3>2, <3>3
  <2>2. CASE Reply(s)
    BY <2>2 DEF Reply, Goto, Labels
  <2>3. CASE Forward(s)
    <3>1. pc[s] = "loop" /\ (UNCHANGED pc \/ Goto(s, "exit"))
      BY <2>3 DEF Forward, Waiting
    <3>2. CASE UNCHANGED pc
      <4>1. pc' = [pc EXCEPT ![s] = "loop"] /\ "loop" \in Labels
        BY <1>1, <3>1, <3>2 DEF Labels
      <4> QED BY <4>1
    <3>3. CASE Goto(s, "exit")
      BY <3>3 DEF Goto, Labels
    <3> QED BY <3>1, <3>2, <3>3
  <2> QED BY <2>1, <2>2, <2>3
<1>4. \A t \in Sessions \ {s} : push'[t] = push[t] /\ out'[t] = out[t] /\ pc'[t] = pc[t]
  <2>1. \A t \in Sessions \ {s} : push'[t] = push[t]
    BY <1>1 DEF SendClaimed, Reply, Forward
  <2>2. UNCHANGED out \/ \E m : Emit(s, m)
    BY DEF SendClaimed, Reply, Forward
  <2> QED BY <1>1, <1>3, <2>1, <2>2, EmitElsewhere
<1>5. Quiet(s) => Quiet(s)'
  <2> SUFFICES ASSUME Quiet(s) PROVE Quiet(s)'
    OBVIOUS
  <2>1. ~(\E r \in Runs : SendClaimed(s, r))
    BY IInvParts DEF SendClaimed, FlushGated, Quiet
  <2>2. ~Forward(s)
    BY DEF Forward, Quiet
  <2>3. Reply(s) /\ UNCHANGED push
    BY <2>1, <2>2 DEF Reply
  <2>4. \A i \in 1..Len(out'[s]) : out'[s][i].kind # "dispatch"
    <3>1. CASE UNCHANGED out
      BY <3>1 DEF Quiet
    <3>2. CASE Emit(s, reply[s])
      <4>1. reply[s] \in Replies
        BY <2>3, IInvParts DEF Reply, TaskInv
      <4>2. reply[s].kind # "dispatch"
        BY <4>1, RepliesAreNoDispatch
      <4>3. \A i \in 1..Len(out[s]) : out[s][i].kind # "dispatch"
        BY DEF Quiet
      <4> QED BY <3>2, <4>2, <4>3, EmitQuiet
    <3> QED BY <2>3, <3>1, <3>2 DEF Reply
  <2> QED BY <1>2, <2>3, <2>4 DEF Quiet
<1>6. \A t \in Sessions \ {s} : Quiet(t) => Quiet(t)'
  BY <1>2, <1>4 DEF Quiet
<1>7. pc'[s] # "idle"
  BY <1>1, <1>3
<1>8. \A r \in Runs : disp'[r].st = "holding" => pc'[disp'[r].via] # "idle"
  BY <1>1, <1>2, <1>4, <1>7 DEF UnopenedIsEmpty
<1> QED BY <1>2, <1>4, <1>5, <1>6, <1>7, <1>8 DEF Calm

LEMMA EndCalm ==
    ASSUME IInv, UnopenedIsEmpty, NEW s \in Sessions, ExitRequeue(s) \/ Drop(s) PROVE Calm({})
<1>1. /\ pc \in [Sessions -> Labels] /\ push \in [Sessions -> Seq(Runs)] /\ ready \in [Sessions -> BOOLEAN]
      /\ \A r \in Runs : disp[r].st = "holding" => disp[r].via \in Sessions
  BY IInvParts DEF TaskTypeOK, ChanTypeOK, DispInv
<1>2. UNCHANGED <<cut, disp, out>>
  BY DEF ExitRequeue, Drop
<1>3. CASE ExitRequeue(s)
  <2>1. /\ pc' = [pc EXCEPT ![s] = "done"] /\ push' = [push EXCEPT ![s] = <<>>] /\ ready' = [ready EXCEPT ![s] = FALSE]
    BY <1>3 DEF ExitRequeue, Goto
  <2>2. \A t \in Sessions : pc'[t] = "idle" => pc[t] = "idle" /\ push'[t] = push[t]
    BY <1>1, <2>1
  <2>3. \A t \in Sessions : Quiet(t) => Quiet(t)'
    BY <1>1, <1>2, <2>1 DEF Quiet
  <2>4. \A r \in Runs : disp'[r].st = "holding" => pc'[disp'[r].via] # "idle"
    BY <1>1, <1>2, <2>2 DEF UnopenedIsEmpty
  <2> QED BY <1>2, <2>2, <2>3, <2>4 DEF Calm
<1>4. CASE Drop(s)
  <2>1. UNCHANGED <<pc, push, ready>>
    BY <1>4 DEF Drop, taskVars
  <2> QED BY <1>2, <2>1 DEF Calm, UnopenedIsEmpty, Quiet
<1> QED BY <1>3, <1>4

\* The HTTP handlers: only a sender whose gate is open is cloned.
LEMMA HttpCalm == ASSUME IInv, UnopenedIsEmpty, NEW r \in Runs, HttpStep(r) PROVE Calm({})
<1>1. UNCHANGED <<cut, out, pc, ready>> /\ disp \in [Runs -> [st : {"new", "holding", "unsent", "live", "queued", "rejected"},
                       node : Nodes \cup {NoNode}, via : Sessions \cup {NoSession}, id : Nat]]
      /\ push \in [Sessions -> Seq(Runs)]
  BY IInvParts DEF HttpStep, DispatchStart, HubSend, Enqueue, taskVars, chanVars, DispTypeOK, ChanTypeOK
<1>2. CASE \E n \in Nodes : DispatchStart(r, n)
  <2>1. PICK n \in Nodes : DispatchStart(r, n)
    BY <1>2
  <2>2. /\ UNCHANGED push /\ \A q \in Runs \ {r} : disp'[q] = disp[q]
        /\ disp'[r].st = "holding" => hub[n] # NoSession /\ disp'[r].via = hub[n]
    BY <1>1, <2>1 DEF DispatchStart, chanVars
  <2>3. hub[n] # NoSession => hub[n] \in Sessions /\ ready[hub[n]] /\ pc[hub[n]] # "idle"
    BY IInvParts DEF HubSound, DbTypeOK
  <2>4. \A q \in Runs : disp'[q].st = "holding" => pc'[disp'[q].via] # "idle"
    BY <1>1, <2>2, <2>3 DEF UnopenedIsEmpty
  <2>5. \A t \in Sessions : Quiet(t) => Quiet(t)'
    BY <1>1, <2>2, <2>3 DEF Quiet
  <2> QED BY <1>1, <2>2, <2>4, <2>5 DEF Calm
<1>3. CASE HubSend(r)
  <2>1. disp[r].st = "holding" /\ disp[r].via \in Sessions
    BY <1>3, IInvParts DEF HubSend, DispInv
  <2>2. /\ \A q \in Runs \ {r} : disp'[q] = disp[q]
        /\ disp'[r].st # "holding"
        /\ \A t \in Sessions : t # disp[r].via => push'[t] = push[t]
    BY <1>1, <1>3 DEF HubSend
  <2>3. \A q \in Runs : disp'[q].st = "holding" => pc'[disp'[q].via] # "idle"
    BY <1>1, <2>2 DEF UnopenedIsEmpty
  <2>4. \A t \in Sessions : pc'[t] = "idle" => pc[t] = "idle" /\ push'[t] = push[t]
    BY <1>1, <2>1, <2>2 DEF UnopenedIsEmpty
  <2>5. \A t \in Sessions : Quiet(t) => Quiet(t)'
    BY <1>1, <2>1, <2>2 DEF Quiet
  <2> QED BY <1>1, <2>3, <2>4, <2>5 DEF Calm
<1>4. CASE Enqueue(r)
  <2>1. UNCHANGED push /\ \A q \in Runs : disp'[q].st = "holding" => disp'[q] = disp[q]
    BY <1>1, <1>4 DEF Enqueue, chanVars
  <2> QED BY <1>1, <2>1 DEF Calm, UnopenedIsEmpty, Quiet
<1> QED BY <1>2, <1>3, <1>4 DEF HttpStep

LEMMA TableCalm ==
    ASSUME IInv, UnopenedIsEmpty, (\E r \in Runs : Expire(r)) \/ (\E n \in Nodes : PutConfig(n)) PROVE Calm({})
BY DEF Expire, PutConfig, taskVars, chanVars, Calm, UnopenedIsEmpty, Quiet

LEMMA TaskStepCalm == ASSUME IInv, UnopenedIsEmpty, NEW s \in Sessions, TaskStep(s) PROVE Calm({})
BY TaskCalm, WriteCalm, EndCalm DEF TaskStep

-----------------------------------------------------------------------------
\* The node's steps
LEMMA CenterInv ==
    ASSUME IInv,
           \/ \E s \in Sessions : Open(s) \/ ReadyTimeout(s) \/ TaskStep(s) \/ Cut(s) \/ Drop(s) \/ Take(s)
           \/ \E r \in Runs : HttpStep(r) \/ Expire(r)
           \/ \E n \in Nodes : PutConfig(n)
           \/ Restart \/ UNCHANGED vars
    PROVE  IInv'
BY NextInv DEF Next

LEMMA TailOf ==
    ASSUME NEW S, NEW q \in Seq(S), q # <<>>
    PROVE  /\ Head(q) \in S /\ Tail(q) \in Seq(S) /\ Len(q) \in Nat /\ Len(q) > 0 /\ Head(q) = q[1]
           /\ \A i \in 1..Len(Tail(q)) : i + 1 \in 1..Len(q) /\ Tail(q)[i] = q[i + 1]
OBVIOUS

\* A message that leaves the stream
LEMMA TakeCalm == ASSUME IInv, UnopenedIsEmpty, NEW s \in Sessions, Take(s) PROVE Calm({})
<1>1. /\ out \in [Sessions -> Seq(ServerMessages)] /\ out[s] # <<>> /\ out' = [out EXCEPT ![s] = Tail(@)]
      /\ UNCHANGED <<pc, ready, cut, push, disp>>
  BY IInvParts DEF Take, ChanTypeOK, taskVars
<1>2. \A t \in Sessions : Quiet(t) => Quiet(t)'
  <2> TAKE t \in Sessions
  <2>1. CASE t = s
    <3>1. out'[t] = Tail(out[t]) /\ out[t] \in Seq(ServerMessages) /\ out[t] # <<>>
      BY <1>1, <2>1
    <3>2. \A i \in 1..Len(out'[t]) : i + 1 \in 1..Len(out[t]) /\ out'[t][i] = out[t][i + 1]
      BY <3>1, TailOf
    <3> QED BY <1>1, <3>2 DEF Quiet
  <2>2. CASE t # s
    BY <1>1, <2>2 DEF Quiet
  <2> QED BY <2>1, <2>2
<1>3. \A t \in Sessions : pc'[t] = "idle" => pc[t] = "idle" /\ push'[t] = push[t] /\ out'[t] = out[t]
  BY <1>1 DEF UnopenedIsEmpty
<1> QED BY <1>1, <1>2, <1>3 DEF Calm, UnopenedIsEmpty

LEMMA StutterCalm == ASSUME UnopenedIsEmpty, UNCHANGED vars PROVE Calm({})
BY DEF vars, taskVars, chanVars, Calm, UnopenedIsEmpty, Quiet

\* What is sent up is a frame.
LEMMA SentTypes ==
    ASSUME NodeTypeOK, NEW f \in UpFrames, Sent(<<f>>) \/ NotSent
    PROVE  /\ up' \in [Sessions -> Seq(UpFrames)]
           /\ f.kind # "node_ready" =>
                  \A s \in Sessions : NoReadyFrame(s) => \A i \in 1..Len(up'[s]) : up'[s][i].kind # "node_ready"
<1>1. up \in [Sessions -> Seq(UpFrames)]
  BY DEF NodeTypeOK
<1>2. CASE UNCHANGED up
  BY <1>1, <1>2 DEF NoReadyFrame
<1>3. CASE ~UNCHANGED up
  <2>1. nsess \in Sessions /\ up' = [up EXCEPT ![nsess] = @ \o <<f>>]
    BY <1>3 DEF Sent, NotSent, NodeTypeOK
  <2>2. up[nsess] \in Seq(UpFrames) /\ up[nsess] \o <<f>> = Append(up[nsess], f)
    BY <1>1, <2>1
  <2>3. up' \in [Sessions -> Seq(UpFrames)]
    BY <1>1, <2>1, <2>2
  <2>4. ASSUME f.kind # "node_ready", NEW s \in Sessions, NoReadyFrame(s), NEW i \in 1..Len(up'[s])
        PROVE  up'[s][i].kind # "node_ready"
    <3>1. CASE s # nsess
      BY <1>1, <2>1, <2>4, <3>1 DEF NoReadyFrame
    <3>2. CASE s = nsess
      <4>1. up'[s] = Append(up[s], f) /\ up[s] \in Seq(UpFrames)
        BY <1>1, <2>1, <2>2, <3>2
      <4> QED BY <2>4, <4>1 DEF NoReadyFrame
    <3> QED BY <3>1, <3>2
  <2> QED BY <2>3, <2>4
<1> QED BY <1>2, <1>3

LEMMA ReportTypes ==
    ASSUME NodeTypeOK, NEW p \in Items, SendReport(p)
    PROVE  /\ up' \in [Sessions -> Seq(UpFrames)] /\ spool' \in Seq(Items)
           /\ \A s \in Sessions : NoReadyFrame(s) => \A i \in 1..Len(up'[s]) : up'[s][i].kind # "node_ready"
<1>1. ReportFrame(p) \in UpFrames /\ ReportFrame(p).kind # "node_ready"
  BY FrameTypes
<1>2. Sent(<<ReportFrame(p)>>) \/ NotSent
  BY DEF SendReport
<1>3. spool' \in Seq(Items)
  <2>1. spool \in Seq(Items)
    BY DEF NodeTypeOK
  <2>2. spool' = spool \/ spool' = Append(spool, p)
    BY DEF SendReport
  <2> QED BY <2>1, <2>2
<1> QED BY <1>1, <1>2, <1>3, SentTypes

\* How the parts of the invariant follow, when the session stays the node's.
LEMMA StepD ==
    ASSUME DInv, IInv', NodeTypeOK', ExecutedIsSeen', NEW loud, Calm(loud), nsess' = nsess, forced \subseteq forced',
           cfg.loaded => cfg'.loaded,
           Unloaded' => nsess \notin loud,
           Unloaded' => (NoReadyFrame(nsess) => \A i \in 1..Len(up'[nsess]) : up'[nsess][i].kind # "node_ready")
    PROVE  DInv'
<1>1. UnopenedIsEmpty'
  BY DEF DInv, Calm, UnopenedIsEmpty
<1>2. UnloadedIsQuiet'
  <2> SUFFICES ASSUME Unloaded' PROVE Quiet(nsess)' /\ NoReadyFrame(nsess)'
    BY DEF UnloadedIsQuiet
  <2>1. Unloaded
    BY DEF Unloaded, Calm
  <2>2. Quiet(nsess) /\ NoReadyFrame(nsess) /\ nsess \in Sessions \ loud
    BY <2>1 DEF DInv, UnloadedIsQuiet, Unloaded, NodeTypeOK
  <2>3. \A s \in Sessions \ loud : Quiet(s) => Quiet(s)'
    BY DEF Calm
  <2>4. Quiet(nsess)'
    BY <2>2, <2>3 DEF Quiet
  <2>5. NoReadyFrame(nsess)'
    BY <2>2 DEF NoReadyFrame
  <2> QED BY <2>4, <2>5
<1> QED BY <1>1, <1>2 DEF DInv

LEMMA SameExecuted ==
    ASSUME ExecutedIsSeen, NodeTypeOK, UNCHANGED <<ran, crashes>>, seen \subseteq seen'
    PROVE  ExecutedIsSeen'
BY DEF ExecutedIsSeen, NodeTypeOK

\* Steps of the center that the node has no part in
LEMMA CenterStepD ==
    ASSUME DInv, UNCHANGED <<nodeVars, forced>>,
           \/ \E s \in Sessions : CenterDrop(s) \/ CenterStep(s)
           \/ \E r \in Runs : Http(r) \/ ExpireClaim(r)
           \/ ChangeConfig
    PROVE  DInv'
<1>1. IInv /\ UnopenedIsEmpty /\ NodeTypeOK /\ ExecutedIsSeen
  BY DEF DInv
<1>2. \/ \E s \in Sessions : Drop(s) \/ TaskStep(s)
      \/ \E r \in Runs : HttpStep(r) \/ Expire(r)
      \/ \E n \in Nodes : PutConfig(n)
  BY DeliveryAssumption DEF CenterDrop, CenterStep, Http, ExpireClaim, ChangeConfig
<1>3. IInv'
  BY <1>1, <1>2, CenterInv
<1>4. Calm({})
  BY <1>1, <1>2, EndCalm, TaskStepCalm, HttpCalm, TableCalm
<1>5. NodeTypeOK' /\ ExecutedIsSeen'
  BY <1>1 DEF nodeVars, NodeTypeOK, ExecutedIsSeen
<1>6. nsess' = nsess /\ cfg' = cfg /\ up' = up /\ forced' = forced
  BY DEF nodeVars
<1> QED BY <1>3, <1>4, <1>5, <1>6, StepD DEF NoReadyFrame

LEMMA CenterTimeoutD == ASSUME DInv, NEW s \in Sessions, CenterTimeout(s) PROVE DInv'
<1>1. IInv /\ UnopenedIsEmpty /\ NodeTypeOK /\ ExecutedIsSeen
  BY DEF DInv
<1>2. ReadyTimeout(s) /\ forced' = forced \cup {s} /\ UNCHANGED nodeVars
  BY DEF CenterTimeout
<1>3. IInv' /\ Calm({s})
  BY <1>1, <1>2, CenterInv, ReadyTimeoutCalm
<1>4. NodeTypeOK' /\ ExecutedIsSeen'
  BY <1>1, <1>2 DEF nodeVars, NodeTypeOK, ExecutedIsSeen
<1>5. nsess' = nsess /\ cfg' = cfg /\ up' = up /\ forced \subseteq forced'
  BY <1>2 DEF nodeVars
<1>6. Unloaded' => nsess \notin {s}
  BY <1>2, <1>5 DEF Unloaded
<1> QED BY <1>3, <1>4, <1>5, <1>6, StepD DEF NoReadyFrame

\* A frame of the node reaches the center.
LEMMA CenterRecvD == ASSUME DInv, NEW s \in Sessions, CenterRecv(s) PROVE DInv'
<1> DEFINE f == Head(up[s])
<1>1. IInv /\ UnopenedIsEmpty /\ NodeTypeOK /\ ExecutedIsSeen /\ UnloadedIsQuiet /\ Node \in Nodes
  BY DeliveryAssumption DEF DInv
<1>2. up \in [Sessions -> Seq(UpFrames)] /\ up[s] \in Seq(UpFrames) /\ up[s] # <<>>
  BY <1>1 DEF CenterRecv, NodeTypeOK
<1>3. f \in UpFrames /\ Tail(up[s]) \in Seq(UpFrames) /\ Len(up[s]) > 0 /\ 1 \in 1..Len(up[s]) /\ f = up[s][1]
      /\ \A i \in 1..Len(Tail(up[s])) : i + 1 \in 1..Len(up[s]) /\ Tail(up[s])[i] = up[s][i + 1]
  BY <1>2, TailOf
<1>4. RecvFrame(s, f) /\ up' = [up EXCEPT ![s] = Tail(@)]
      /\ UNCHANGED <<nsess, cfg, seen, job, spool, drained, ran, crashes, forced>>
  BY DEF CenterRecv
<1> HIDE DEF f
<1> DEFINE loud == IF f.kind = "node_ready" THEN {s} ELSE {}
<1>5. IInv' /\ Calm(loud)
  <2>1. CASE f.kind = "node_ready"
    <3>1. f.gen \in Gens
      BY <1>3, <2>1 DEF UpFrames
    <3>2. RecvNodeReady(s, Node, f.gen)
      BY <1>4, <2>1 DEF RecvFrame
    <3> QED BY <1>1, <2>1, <3>1, <3>2, RecvNodeReadyStep, RecvNodeReadyCalm
  <2>2. CASE f.kind # "node_ready"
    <3>1. f.kind = "report" => f.run \in Runs /\ f.outcome \in Outcomes
      BY <1>3 DEF UpFrames
    <3>2. \/ RecvRegister(s, Node) \/ RecvHeartbeat(s, Node) \/ RecvPullConfig(s, Node)
          \/ RecvUnbound(s) \/ RecvSkillState(s, Node)
          \/ \E r \in Runs, o \in Outcomes : RecvReport(s, Node, r, o)
      BY <1>4, <2>2, <3>1 DEF RecvFrame
    <3> QED BY <1>1, <2>2, <3>2, RecvRegisterStep, RecvUnboundStep, RecvHeartbeatStep, RecvPullConfigStep,
               RecvSkillStateStep, RecvReportStep, RecvCalm
  <2> QED BY <2>1, <2>2
<1>6. NodeTypeOK'
  <2>1. up' \in [Sessions -> Seq(UpFrames)]
    BY <1>2, <1>3, <1>4
  <2> QED BY <1>1, <1>4, <2>1 DEF NodeTypeOK
<1>7. ExecutedIsSeen'
  BY <1>1, <1>4 DEF ExecutedIsSeen
<1>8. \A t \in Sessions : NoReadyFrame(t) => \A i \in 1..Len(up'[t]) : up'[t][i].kind # "node_ready"
  <2> TAKE t \in Sessions
  <2>1. CASE t = s
    <3>1. up'[t] = Tail(up[s])
      BY <1>2, <1>4, <2>1
    <3> QED BY <1>3, <2>1, <3>1 DEF NoReadyFrame
  <2>2. CASE t # s
    BY <1>2, <1>4, <2>2 DEF NoReadyFrame
  <2> QED BY <2>1, <2>2
\* A node without a config has sent no NodeReady on its stream.
<1>9. Unloaded' => nsess \notin loud /\ nsess \in Sessions
  <2> SUFFICES ASSUME Unloaded' PROVE nsess \notin loud /\ nsess \in Sessions
    OBVIOUS
  <2>1. Unloaded
    BY <1>4, <1>5 DEF Unloaded, Calm
  <2>2. NoReadyFrame(nsess) /\ nsess \in Sessions
    BY <1>1, <2>1 DEF UnloadedIsQuiet, Unloaded, NodeTypeOK
  <2>3. nsess = s => f.kind # "node_ready"
    BY <1>3, <2>2 DEF NoReadyFrame
  <2> QED BY <2>2, <2>3
<1> HIDE DEF loud
<1> QED BY <1>4, <1>5, <1>6, <1>7, <1>8, <1>9, StepD

-----------------------------------------------------------------------------
\* The node sends, without having read anything.
LEMMA NodeSendsD ==
    ASSUME DInv, UNCHANGED <<vars, nsess, cfg, seen, ran, crashes, forced>>, NodeTypeOK',
           \A s \in Sessions : NoReadyFrame(s) => \A i \in 1..Len(up'[s]) : up'[s][i].kind # "node_ready"
    PROVE  DInv'
<1>1. IInv /\ UnopenedIsEmpty /\ NodeTypeOK /\ ExecutedIsSeen
  BY DEF DInv
<1>2. IInv' /\ Calm({})
  BY <1>1, CenterInv, StutterCalm
<1>3. ExecutedIsSeen'
  BY <1>1 DEF ExecutedIsSeen
<1>4. Unloaded' => nsess \in Sessions
  BY <1>1 DEF Unloaded, NodeTypeOK
<1> QED BY <1>2, <1>3, <1>4, StepD

LEMMA QuietSendsD ==
    ASSUME DInv, OnSkills \/ HeartbeatTick \/ FlushTick \/ Finish \/ (\E f \in Flushers : FlushOne(f))
    PROVE  DInv'
<1>1. NodeTypeOK
  BY DEF DInv
<1>2. UNCHANGED <<vars, nsess, cfg, seen, ran, crashes, forced>>
  BY DEF OnSkills, HeartbeatTick, FlushTick, Finish, FlushOne
<1>3. ASSUME up' \in [Sessions -> Seq(UpFrames)] /\ spool' \in Seq(Items) /\ drained' \in [Flushers -> Seq(Items)],
             job' \subseteq Runs,
             \A s \in Sessions : NoReadyFrame(s) => \A i \in 1..Len(up'[s]) : up'[s][i].kind # "node_ready"
      PROVE  DInv'
  <2>1. NodeTypeOK'
    BY <1>1, <1>2, <1>3 DEF NodeTypeOK
  <2> QED BY <1>2, <1>3, <2>1, NodeSendsD
<1>4. /\ spool \in Seq(Items) /\ drained \in [Flushers -> Seq(Items)] /\ job \subseteq Runs
      /\ up \in [Sessions -> Seq(UpFrames)]
  BY <1>1 DEF NodeTypeOK
<1>5. CASE OnSkills
  <2>1. UNCHANGED <<job, spool, drained>> /\ (Sent(<<[kind |-> "pull_config"]>>) \/ NotSent)
    BY <1>5 DEF OnSkills, TrySend
  <2> QED BY <1>1, <1>3, <1>4, <2>1, SentTypes, FrameTypes
<1>6. CASE HeartbeatTick
  <2>1. UNCHANGED <<job, spool, drained>> /\ Sent(<<[kind |-> "heartbeat"]>>)
    BY <1>6 DEF HeartbeatTick
  <2> QED BY <1>1, <1>3, <1>4, <2>1, SentTypes, FrameTypes
<1>7. CASE FlushTick
  <2>1. UNCHANGED <<job, up>> /\ drained' = [drained EXCEPT !["tick"] = spool] /\ spool' = <<>>
    BY <1>7 DEF FlushTick
  <2>2. drained' \in [Flushers -> Seq(Items)]
    BY <1>4, <2>1
  <2>3. spool' \in Seq(Items)
    BY <2>1
  <2> QED BY <1>3, <1>4, <2>1, <2>2, <2>3 DEF NoReadyFrame
<1>8. CASE Finish
  <2> DEFINE p == [run |-> CHOOSE r \in job : TRUE, outcome |-> "ran"]
  <2>1. p \in Items /\ SendReport(p) /\ job' = {} /\ drained' = drained
    BY <1>4, <1>8, DeliveryAssumption DEF Finish, Items
  <2> HIDE DEF p
  <2> QED BY <1>1, <1>3, <1>4, <2>1, ReportTypes
<1>9. ASSUME NEW f \in Flushers, FlushOne(f) PROVE DInv'
  <2> DEFINE p == Head(drained[f])
  <2>1. drained[f] \in Seq(Items) /\ drained[f] # <<>>
    BY <1>4, <1>9 DEF FlushOne
  <2>2. p \in Items /\ Tail(drained[f]) \in Seq(Items)
    BY <2>1, TailOf
  <2>3. job' = job /\ SendReport(p) /\ drained' \in [Flushers -> Seq(Items)]
    <3>1. CASE drained' = [drained EXCEPT ![f] = Tail(@)]
      BY <1>4, <1>9, <2>2, <3>1 DEF FlushOne, SendReport
    <3>2. CASE drained' = [drained EXCEPT ![f] = <<>>]
      BY <1>4, <1>9, <3>2 DEF FlushOne, SendReport
    <3> QED BY <1>9, <3>1, <3>2 DEF FlushOne
  <2> HIDE DEF p
  <2> QED BY <1>1, <1>3, <1>4, <2>2, <2>3, ReportTypes
<1> QED BY <1>5, <1>6, <1>7, <1>8, <1>9

\* The node takes a message off its stream.
LEMMA ReceivesD ==
    ASSUME DInv, Take(nsess), nsess \in Sessions, UNCHANGED <<nsess, crashes, forced>>, NodeTypeOK', ExecutedIsSeen',
           cfg.loaded => cfg'.loaded,
           Unloaded' => \A s \in Sessions : NoReadyFrame(s) => \A i \in 1..Len(up'[s]) : up'[s][i].kind # "node_ready"
    PROVE  DInv'
<1>1. IInv /\ UnopenedIsEmpty
  BY DEF DInv
<1>2. IInv' /\ Calm({})
  BY <1>1, CenterInv, TakeCalm
<1> QED BY <1>2, StepD

LEMMA ReceiveD == ASSUME DInv, Receive PROVE DInv'
<1>1. IInv /\ NodeTypeOK /\ ExecutedIsSeen /\ out \in [Sessions -> Seq(ServerMessages)]
  BY IInvParts DEF DInv, ChanTypeOK
<1>2. nsess \in Sessions /\ out[nsess] # <<>> /\ Msg \in ServerMessages
  <2>1. nsess # NoSession /\ out[nsess] # <<>>
    BY DEF Receive, OnHeartbeat, OnConfig, OnBadConfig, OnDuplicate, OnCannotRun, OnDispatch, Receiving
  <2>2. nsess \in Sessions
    BY <1>1, <2>1 DEF NodeTypeOK
  <2>3. out[nsess] \in Seq(ServerMessages)
    BY <1>1, <2>2
  <2> QED BY <2>1, <2>2, <2>3, TailOf DEF Msg
<1>3. Take(nsess) /\ UNCHANGED <<nsess, crashes, forced>>
  BY <1>2 DEF Receive, OnHeartbeat, OnConfig, OnBadConfig, OnDuplicate, OnCannotRun, OnDispatch, Consume, Take
<1>4. /\ Msg.kind = "config" => Msg.gen \in Gens
      /\ Msg.kind = "dispatch" => Msg.run \in Runs
  BY <1>2 DEF ServerMessages, Replies, SkillsMsg
<1>5. /\ spool \in Seq(Items) /\ drained \in [Flushers -> Seq(Items)] /\ job \subseteq Runs /\ seen \subseteq Runs
      /\ up \in [Sessions -> Seq(UpFrames)] /\ cfg \in [loaded : BOOLEAN, gen : Gens] /\ crashes \in Nat
      /\ ran \in [Runs -> Nat] /\ nsess \in Sessions
  BY <1>1, <1>2 DEF NodeTypeOK
<1>6. ASSUME up' \in [Sessions -> Seq(UpFrames)], spool' \in Seq(Items), seen' \subseteq Runs, seen \subseteq seen',
             cfg' \in [loaded : BOOLEAN, gen : Gens], cfg.loaded => cfg'.loaded,
             UNCHANGED <<drained, job, ran>>,
             Unloaded' => \A s \in Sessions : NoReadyFrame(s) => \A i \in 1..Len(up'[s]) : up'[s][i].kind # "node_ready"
      PROVE  DInv'
  <2>1. NodeTypeOK'
    BY <1>3, <1>5, <1>6 DEF NodeTypeOK
  <2>2. ExecutedIsSeen'
    BY <1>1, <1>3, <1>6, SameExecuted
  <2> QED BY <1>2, <1>3, <1>6, <2>1, <2>2, ReceivesD
<1>7. CASE OnHeartbeat
  <2>1. UNCHANGED <<cfg, seen, job, spool, drained, ran>>
        /\ (Sent(<<[kind |-> "pull_config"]>>) \/ NotSent \/ UNCHANGED up)
    BY <1>7 DEF OnHeartbeat, Consume, TrySend
  <2>2. CASE UNCHANGED up
    BY <1>5, <1>6, <2>1, <2>2 DEF NoReadyFrame
  <2>3. CASE Sent(<<[kind |-> "pull_config"]>>) \/ NotSent
    BY <1>1, <1>5, <1>6, <2>1, <2>3, SentTypes, FrameTypes
  <2> QED BY <2>1, <2>2, <2>3
<1>8. CASE OnConfig
  <2>1. /\ UNCHANGED <<seen, job, spool, drained, ran>> /\ cfg' = [loaded |-> TRUE, gen |-> Msg.gen]
        /\ Msg.kind = "config" /\ (Sent(<<[kind |-> "node_ready", gen |-> Msg.gen]>>) \/ NotSent)
    BY <1>8 DEF OnConfig, Receiving, Consume, TrySend, Msg
  <2>2. cfg' \in [loaded : BOOLEAN, gen : Gens] /\ cfg'.loaded
    BY <1>4, <2>1
  <2>3. [kind |-> "node_ready", gen |-> Msg.gen] \in UpFrames
    BY <1>4, <2>1, FrameTypes
  <2>4. up' \in [Sessions -> Seq(UpFrames)]
    BY <1>1, <2>1, <2>3, SentTypes
  <2>5. ~Unloaded'
    BY <2>2 DEF Unloaded
  <2> QED BY <1>5, <1>6, <2>1, <2>2, <2>4, <2>5
<1>9. CASE OnBadConfig
  <2>1. UNCHANGED <<up, cfg, seen, job, spool, drained, ran>>
    BY <1>9 DEF OnBadConfig, Consume
  <2> QED BY <1>5, <1>6, <2>1 DEF NoReadyFrame
<1>10. CASE OnDuplicate \/ OnCannotRun
  <2> DEFINE o == IF OnDuplicate THEN "duplicate" ELSE "failed"
  <2>1. PICK p \in Items : SendReport(p)
    <3>1. Msg.run \in Runs
      BY <1>4, <1>10 DEF OnDuplicate, OnCannotRun, Receiving, Msg
    <3>2. [run |-> Msg.run, outcome |-> "duplicate"] \in Items /\ [run |-> Msg.run, outcome |-> "failed"] \in Items
      BY <3>1, DeliveryAssumption DEF Items
    <3> QED BY <1>10, <3>2 DEF OnDuplicate, OnCannotRun
  <2>2. UNCHANGED <<cfg, job, drained, ran>> /\ seen \subseteq seen' /\ seen' \subseteq Runs
    BY <1>4, <1>5, <1>10 DEF OnDuplicate, OnCannotRun, Remembered, Consume, Receiving, Msg
  <2> QED BY <1>1, <1>5, <1>6, <2>1, <2>2, ReportTypes
<1>11. CASE OnDispatch
  <2> DEFINE r == Msg.run
  <2>1. /\ r \in Runs /\ r \notin seen /\ seen' = seen \cup ({r} \ unnamed) /\ job' = {r}
        /\ ran' = [q \in Runs |-> ran[q] + IF q \in {r} \ unnamed THEN 1 ELSE 0]
        /\ UNCHANGED <<up, cfg, spool, drained>>
    BY <1>4, <1>11 DEF OnDispatch, Remembered, Receiving, Msg
  <2> HIDE DEF r
  <2>2. ran' \in [Runs -> Nat]
        /\ \A q \in Runs : ran'[q] = IF q \in {r} \ unnamed THEN ran[q] + 1 ELSE ran[q]
    BY <1>5, <2>1
  <2>3. NodeTypeOK'
    BY <1>3, <1>5, <2>1, <2>2 DEF NodeTypeOK
  <2>4. ExecutedIsSeen'
    <3> SUFFICES ASSUME NEW q \in Runs PROVE ran'[q] <= IF q \in seen' THEN 1 ELSE 0
      BY DEF ExecutedIsSeen
    <3>1. ran[q] <= IF q \in seen THEN 1 ELSE 0
      BY <1>1 DEF ExecutedIsSeen
    <3>2. ran[q] \in Nat
      BY <1>5
    <3>3. CASE q \in {r} \ unnamed
      BY <2>1, <2>2, <3>1, <3>2, <3>3
    <3>4. CASE q \notin {r} \ unnamed
      BY <2>1, <2>2, <3>1, <3>2, <3>4
    <3> QED BY <3>3, <3>4
  <2> QED BY <1>2, <1>3, <2>1, <2>3, <2>4, ReceivesD DEF NoReadyFrame
<1> QED BY <1>7, <1>8, <1>9, <1>10, <1>11 DEF Receive

-----------------------------------------------------------------------------
\* Connections, crashes and restarts
LEMMA NodeNoticesD == ASSUME DInv, NodeNotices PROVE DInv'
<1>1. IInv /\ NodeTypeOK /\ ExecutedIsSeen /\ UnopenedIsEmpty
  BY DEF DInv
<1>2. nsess' = NoSession /\ UNCHANGED <<vars, up, cfg, seen, job, spool, drained, ran, crashes>>
  BY DEF NodeNotices
<1>3. IInv' /\ Calm({})
  BY <1>1, <1>2, CenterInv, StutterCalm
<1>4. NodeTypeOK' /\ ExecutedIsSeen' /\ UnloadedIsQuiet'
  BY <1>1, <1>2 DEF NodeTypeOK, ExecutedIsSeen, UnloadedIsQuiet, Unloaded
<1>5. UnopenedIsEmpty'
  BY <1>1, <1>3 DEF Calm, UnopenedIsEmpty
<1> QED BY <1>3, <1>4, <1>5 DEF DInv

LEMMA ConnectD == ASSUME DInv, NEW s \in Sessions, Connect(s) PROVE DInv'
<1>1. IInv /\ NodeTypeOK /\ ExecutedIsSeen /\ UnopenedIsEmpty /\ TaskInv /\ TaskTypeOK /\ DispInv
  BY IInvParts DEF DInv
<1>2. /\ Open(s) /\ nsess' = s /\ up' = [up EXCEPT ![s] = <<[kind |-> "register"]>>]
      /\ drained' = [drained EXCEPT !["session"] = spool] /\ spool' = <<>>
      /\ UNCHANGED <<cfg, seen, job, ran, crashes, forced>>
  BY DEF Connect
<1>3. pc[s] = "idle" /\ pc' = [pc EXCEPT ![s] = "loop"] /\ UNCHANGED <<ready, cut, push, out, disp>>
  BY <1>2 DEF Open, Goto, chanVars
<1>4. IInv'
  BY <1>1, <1>2, CenterInv
<1>5. NodeTypeOK'
  <2>1. up \in [Sessions -> Seq(UpFrames)] /\ drained \in [Flushers -> Seq(Items)] /\ spool \in Seq(Items)
    BY <1>1 DEF NodeTypeOK
  <2>2. up' \in [Sessions -> Seq(UpFrames)]
    BY <1>2, <2>1, FrameTypes
  <2>3. drained' \in [Flushers -> Seq(Items)]
    BY <1>2, <2>1
  <2>4. spool' \in Seq(Items)
    BY <1>2
  <2> QED BY <1>1, <1>2, <2>2, <2>3, <2>4 DEF NodeTypeOK
<1>6. ExecutedIsSeen'
  BY <1>1, <1>2 DEF ExecutedIsSeen
<1>7. UnopenedIsEmpty'
  <2>1. \A t \in Sessions : pc'[t] = "idle" => pc[t] = "idle"
    BY <1>1, <1>3 DEF TaskTypeOK
  <2>2. \A r \in Runs : disp[r].st = "holding" => disp[r].via \in Sessions
    BY <1>1 DEF DispInv
  <2> QED BY <1>1, <1>3, <2>1, <2>2 DEF UnopenedIsEmpty
<1>8. Quiet(s)
  <2>1. ~ready[s]
    BY <1>1, <1>3, ControlAssumption DEF TaskInv
  <2> QED BY <1>1, <1>3, <2>1 DEF UnopenedIsEmpty, Quiet
<1>9. UnloadedIsQuiet'
  <2>1. Quiet(s)'
    BY <1>3, <1>8 DEF Quiet
  <2>2. up'[s] = <<[kind |-> "register"]>>
    BY <1>1, <1>2 DEF NodeTypeOK
  <2>3. Quiet(nsess)'
    BY <1>2, <2>1 DEF Quiet
  <2>4. NoReadyFrame(nsess)'
    BY <1>2, <2>2 DEF NoReadyFrame
  <2> QED BY <2>3, <2>4 DEF UnloadedIsQuiet
<1> QED BY <1>4, <1>5, <1>6, <1>7, <1>9 DEF DInv

\* What is left of a stream that is cut
LEMMA PrefixTypes ==
    ASSUME NEW S, NEW q \in Seq(S), NEW p \in Prefixes(q)
    PROVE  p \in Seq(S)
<1>1. PICK l \in 0..Len(q) : p = SubSeq(q, 1, l)
  BY DEF Prefixes
<1> QED BY <1>1

LEMMA CutUnopened == ASSUME IInv, UnopenedIsEmpty, NEW s \in Sessions, Cut(s) PROVE UnopenedIsEmpty'
<1>1. /\ pc[s] # "idle" /\ cut' = cut \cup {s} /\ out' = [out EXCEPT ![s] = <<>>]
      /\ UNCHANGED <<pc, push, disp>> /\ out \in [Sessions -> Seq(ServerMessages)]
  BY IInvParts DEF Cut, taskVars, ChanTypeOK
<1> QED BY <1>1 DEF UnopenedIsEmpty

LEMMA SeverD == ASSUME DInv, nsess # NoSession, Sever PROVE DInv'
<1>1. IInv /\ NodeTypeOK /\ ExecutedIsSeen /\ UnopenedIsEmpty /\ nsess \in Sessions
  BY DEF DInv, NodeTypeOK
<1>2. /\ Cut(nsess) /\ UNCHANGED <<nsess, cfg, seen, job, spool, drained, ran, crashes, forced>>
      /\ \E p \in Prefixes(up[nsess]) : up' = [up EXCEPT ![nsess] = p]
  BY DEF Sever
<1>3. IInv' /\ UnopenedIsEmpty'
  BY <1>1, <1>2, CenterInv, CutUnopened
<1>4. up \in [Sessions -> Seq(UpFrames)]
  BY <1>1 DEF NodeTypeOK
<1>5. up' \in [Sessions -> Seq(UpFrames)]
  BY <1>1, <1>2, <1>4, PrefixTypes
<1>6. NodeTypeOK' /\ ExecutedIsSeen'
  BY <1>1, <1>2, <1>5 DEF NodeTypeOK, ExecutedIsSeen
<1>7. UnloadedIsQuiet'
  BY <1>2 DEF Cut, UnloadedIsQuiet, Unloaded
<1> QED BY <1>3, <1>6, <1>7 DEF DInv

LEMMA CrashD == ASSUME DInv, Crash PROVE DInv'
<1>1. IInv /\ NodeTypeOK /\ ExecutedIsSeen /\ UnopenedIsEmpty /\ up \in [Sessions -> Seq(UpFrames)]
  BY DEF DInv, NodeTypeOK
<1>2. /\ crashes' = crashes + 1 /\ nsess' = NoSession /\ cfg' = NotLoaded /\ seen' = {} /\ job' = {}
      /\ drained' = [f \in Flushers |-> <<>>] /\ ran' = [r \in Runs |-> 0] /\ UNCHANGED <<spool, forced>>
  BY DEF Crash
<1>3. IInv' /\ UnopenedIsEmpty' /\ up' \in [Sessions -> Seq(UpFrames)]
  <2>1. CASE UNCHANGED <<vars, up>>
    <3>1. IInv' /\ Calm({})
      BY <1>1, <2>1, CenterInv, StutterCalm
    <3> QED BY <1>1, <2>1, <3>1 DEF Calm, UnopenedIsEmpty
  <2>2. CASE nsess # NoSession /\ Cut(nsess) /\ \E p \in Prefixes(up[nsess]) : up' = [up EXCEPT ![nsess] = p]
    <3>1. nsess \in Sessions
      BY <1>1, <2>2 DEF NodeTypeOK
    <3> QED BY <1>1, <2>2, <3>1, CenterInv, CutUnopened, PrefixTypes
  <2> QED BY <2>1, <2>2 DEF Crash
<1>4. NodeTypeOK'
  <2>1. NotLoaded \in [loaded : BOOLEAN, gen : Gens]
    BY ControlAssumption DEF NotLoaded, Gens
  <2> QED BY <1>1, <1>2, <1>3, <2>1 DEF NodeTypeOK
<1>5. ExecutedIsSeen'
  BY <1>2 DEF ExecutedIsSeen
<1>6. UnloadedIsQuiet'
  BY <1>2 DEF UnloadedIsQuiet, Unloaded
<1> QED BY <1>3, <1>4, <1>5, <1>6 DEF DInv

LEMMA CenterRestartD == ASSUME DInv, CenterRestart PROVE DInv'
<1>1. IInv /\ NodeTypeOK /\ ExecutedIsSeen /\ UnopenedIsEmpty
  BY DEF DInv
<1>2. /\ Restart /\ up' = [s \in Sessions |-> <<>>]
      /\ UNCHANGED <<nsess, cfg, seen, job, spool, drained, ran, crashes, forced>>
  BY DEF CenterRestart
<1>3. IInv'
  BY <1>1, <1>2, CenterInv
<1>4. NodeTypeOK' /\ ExecutedIsSeen'
  BY <1>1, <1>2 DEF NodeTypeOK, ExecutedIsSeen
<1>5. /\ \A s \in Sessions : /\ ready'[s] = FALSE /\ push'[s] = <<>> /\ out'[s] = <<>>
                             /\ s \in cut' <=> pc[s] # "idle"
                             /\ pc'[s] = "idle" <=> pc[s] = "idle"
      /\ \A r \in Runs : disp'[r].st # "holding"
  <2>1. \A s \in Sessions : /\ ready'[s] = FALSE /\ push'[s] = <<>> /\ out'[s] = <<>>
                            /\ s \in cut' <=> pc[s] # "idle"
                            /\ pc'[s] = "idle" <=> pc[s] = "idle"
    BY <1>2 DEF Restart
  <2>2. disp \in [Runs -> [st : {"new", "holding", "unsent", "live", "queued", "rejected"},
                           node : Nodes \cup {NoNode}, via : Sessions \cup {NoSession}, id : Nat]]
    BY <1>1, IInvParts DEF DispTypeOK
  <2>3. \A r \in Runs : disp'[r].st # "holding"
    BY <1>2, <2>2 DEF Restart
  <2> QED BY <2>1, <2>3
<1>6. UnopenedIsEmpty'
  BY <1>5 DEF UnopenedIsEmpty
<1>7. UnloadedIsQuiet'
  <2> SUFFICES ASSUME nsess \in Sessions PROVE Quiet(nsess)' /\ NoReadyFrame(nsess)'
    BY <1>1, <1>2 DEF UnloadedIsQuiet, Unloaded, NodeTypeOK
  <2>1. nsess' = nsess /\ up'[nsess] = <<>>
    BY <1>2
  <2>2. Quiet(nsess)'
    BY <1>5, <2>1 DEF Quiet
  <2>3. NoReadyFrame(nsess)'
    BY <2>1 DEF NoReadyFrame
  <2> QED BY <2>2, <2>3
<1> QED BY <1>3, <1>4, <1>6, <1>7 DEF DInv

-----------------------------------------------------------------------------
LEMMA StutterD == ASSUME DInv, UNCHANGED allVars PROVE DInv'
<1>1. IInv /\ NodeTypeOK /\ ExecutedIsSeen /\ UnopenedIsEmpty
  BY DEF DInv
<1>2. UNCHANGED <<vars, nsess, up, cfg, seen, job, spool, drained, ran, crashes, forced>>
  BY DEF allVars, nodeVars
<1>3. NodeTypeOK'
  BY <1>1, <1>2 DEF NodeTypeOK
<1>4. \A s \in Sessions : NoReadyFrame(s) => \A i \in 1..Len(up'[s]) : up'[s][i].kind # "node_ready"
  BY <1>2 DEF NoReadyFrame
<1> QED BY <1>2, <1>3, <1>4, NodeSendsD

LEMMA DNextD == ASSUME DInv, DNext PROVE DInv'
<1>1. ASSUME NEW s \in Sessions, CenterDrop(s) \/ CenterStep(s) PROVE DInv'
  BY <1>1, CenterStepD DEF CenterDrop, CenterStep
<1>2. ASSUME NEW r \in Runs, Http(r) \/ ExpireClaim(r) PROVE DInv'
  BY <1>2, CenterStepD DEF Http, ExpireClaim
<1>3. ASSUME ChangeConfig PROVE DInv'
  BY <1>3, CenterStepD DEF ChangeConfig
<1>4. ASSUME NEW s \in Sessions, Connect(s) \/ CenterRecv(s) \/ CenterTimeout(s) PROVE DInv'
  BY <1>4, ConnectD, CenterRecvD, CenterTimeoutD
<1>5. ASSUME NodeStep \/ HeartbeatTick \/ FlushTick PROVE DInv'
  BY <1>5, ReceiveD, QuietSendsD, NodeNoticesD DEF NodeStep
<1>6. ASSUME (nsess # NoSession /\ Sever) \/ Crash \/ CenterRestart PROVE DInv'
  BY <1>6, SeverD, CrashD, CenterRestartD
<1> QED BY <1>1, <1>2, <1>3, <1>4, <1>5, <1>6 DEF DNext

\* The center's invariant among them: what is proved of it with any clients holds with
\* the node daemon at the other end.
LEMMA DeliveryInvariant == DSpec => []DInv
<1>1. DInit => DInv
  BY InitD
<1>2. DInv /\ [/\ DNext /\ cuts' + faults' + Cardinality(bad) + Cardinality(unnamed) <= MaxTroubles
               /\ UNCHANGED <<bad, unnamed>>]_<<allVars, bad, unnamed>> => DInv'
  BY DNextD, StutterD
<1> QED BY <1>1, <1>2, PTL DEF DSpec

\* Of seen_dispatch_runs: one process executes a run that has an id at most once, over
\* however many sessions, requeues and restarts of the center it is delivered again.
THEOREM RunsOncePerProcess == DSpec => []AtMostOncePerBoot
<1>1. DInv => AtMostOncePerBoot
  <2> SUFFICES ASSUME DInv, NEW r \in Runs PROVE ran[r] <= 1
    BY DEF AtMostOncePerBoot
  <2>1. ran[r] \in Nat /\ ran[r] <= IF r \in seen THEN 1 ELSE 0
    BY DEF DInv, NodeTypeOK, ExecutedIsSeen
  <2> QED BY <2>1
<1> QED BY <1>1, DeliveryInvariant, PTL

\* Of ReadyGate, activate_ready and apply_config: unless the ready timeout opened the gate,
\* nothing is dispatched to a process before it has applied a config, whatever the Hub, the
\* queue and earlier sessions of the node hold.
THEOREM ConfigComesFirst == DSpec => []ConfigBeforeDispatch
<1>1. DInv => ConfigBeforeDispatch
  BY DEF DInv, UnloadedIsQuiet, Unloaded, Quiet, ConfigBeforeDispatch
<1> QED BY <1>1, DeliveryInvariant, PTL
=================================================================================
