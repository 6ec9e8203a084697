---------------------------- MODULE SkillSyncProofs ----------------------------
(***************************************************************************)
(* A node never holds rows older than the generation it names, for any     *)
(* versions, changes, faults and messages on their way.                    *)
(***************************************************************************)
EXTENDS SkillSync, SequenceTheorems, TLAPS

Entries == [gen : Nat, ver : VersOrNone]
ReportRow == [ver : VersOrNone, state : {"absent", "installed", "failed"}]
Report == [gen : Nat, row : ReportRow]

AnySet == [gen : Nat, at : Nat, live : BOOLEAN, hung : BOOLEAN]

TypeOK ==
    /\ log \in Seq(Entries) /\ Len(log) > 0
    /\ pushes \subseteq [of : Nat, gen : Nat]
    /\ pull \in Nat
    /\ sets \subseteq AnySet
    /\ run \in AnySet
    /\ host \in [gen : Nat, at : Nat, ver : VersOrNone, store : SUBSET Versions, report : Report]

\* A generation that is lower than an earlier one was set back in between.
GenerationsGrow ==
    \A j, k \in 1..Len(log) :
        j <= k => log[j].gen <= log[k].gen \/ \E i \in (j + 1)..k : Lowered(i)

\* A generation that was named at change `at` or before.
Named(gen, at) == \E j \in 1..at : log[j].gen = gen

\* What was read for a set is the generation of some change there was then.
ReadsCovered ==
    /\ \A p \in pushes : p.gen = NotRead \/ Named(p.gen, Len(log))
    /\ pull = NotRead \/ Named(pull, Len(log))

Covered(gen, at) == at \in 1..Len(log) /\ Named(gen, at)

SetsCovered ==
    /\ \A s \in sets : Covered(s.gen, s.at)
    /\ run = NoSet \/ Covered(run.gen, run.at)
    /\ Covered(host.gen, host.at)
    /\ Covered(0, 1)

YInv == TypeOK /\ GenerationsGrow /\ ReadsCovered /\ SetsCovered

LEMMA InitY == Init => YInv
<1> SUFFICES ASSUME Init PROVE YInv
  OBVIOUS
<1>1. /\ log = [i \in 1..(Earlier + 1) |-> [gen |-> i - 1, ver |-> i - 1]]
      /\ Earlier \in Nat /\ \A i \in 1..(Earlier + 1) : i - 1 \in VersOrNone
  BY SyncAssumption DEF Init, VersOrNone, None
<1>2. log \in Seq(Entries) /\ Len(log) = Earlier + 1
  BY <1>1 DEF Entries
<1>3. \A i \in 1..Len(log) : log[i].gen = i - 1
  BY <1>1, <1>2
<1>4. NotRead \in Nat
  BY SyncAssumption DEF NotRead
<1>5. TypeOK
  BY <1>1, <1>2, <1>4 DEF Init, TypeOK, AnySet, NoSet, NewHost, NoReport, Absent, Report, ReportRow, VersOrNone, None
<1>6. GenerationsGrow
  BY <1>1, <1>2, <1>3 DEF GenerationsGrow
<1>7. SetsCovered
  <2>1. Covered(0, 1)
    BY <1>1, <1>2, <1>3 DEF Covered, Named
  <2> QED BY <2>1 DEF Init, SetsCovered, NewHost
<1> QED BY <1>5, <1>6, <1>7 DEF Init, YInv, ReadsCovered

LEMMA LastGeneration ==
    ASSUME TypeOK
    PROVE  Generation = log[Len(log)].gen /\ Generation \in Nat /\ Len(log) \in 1..Len(log)
<1>1. Len(log) \in Nat /\ Len(log) \in 1..Len(log)
  BY DEF TypeOK
<1>2. log[Len(log)] \in Entries
  BY <1>1, ElementOfSeq DEF TypeOK
<1> QED BY <1>1, <1>2 DEF Generation, Last, Entries

\* Everything but a change leaves the log alone.
LEMMA Keeps ==
    ASSUME YInv, UNCHANGED log, TypeOK', ReadsCovered', SetsCovered'
    PROVE  YInv'
BY DEF YInv, GenerationsGrow, Lowered

LEMMA ChangeY == ASSUME YInv, NEW v \in VersOrNone, Change(v) PROVE YInv'
<1> USE DEF YInv
<1>1. TypeOK /\ Len(log) \in Nat /\ Len(log) \in 1..Len(log)
  BY LastGeneration DEF TypeOK
<1>2. \A i \in 1..Len(log) : log[i] \in Entries /\ log[i].gen \in Nat
  <2> SUFFICES ASSUME NEW i \in 1..Len(log) PROVE log[i] \in Entries
    BY DEF Entries
  <2> QED BY ElementOfSeq DEF TypeOK
<1>3. PICK seen \in 1..Len(log) : log' = Append(log, [gen |-> log[seen].gen + 1, ver |-> v])
  BY DEF Change
<1> DEFINE e == [gen |-> log[seen].gen + 1, ver |-> v]
<1>4. e \in Entries /\ e.gen \in Nat
  BY <1>2 DEF Entries
<1>5. /\ log' \in Seq(Entries) /\ Len(log') = Len(log) + 1 /\ log'[Len(log) + 1] = e
      /\ \A i \in 1..Len(log) : log'[i] = log[i]
  BY <1>1, <1>3, <1>4, AppendProperties DEF TypeOK
<1>6. UNCHANGED <<pull, sets, run, host>>
  BY DEF Change, nodeVars
<1>7. pushes' \subseteq pushes \cup {[of |-> Len(log), gen |-> NotRead]}
  BY DEF Change
<1>8. NotRead \in Nat
  BY SyncAssumption DEF NotRead
<1> HIDE DEF e
<1>9. TypeOK'
  BY <1>1, <1>5, <1>6, <1>7, <1>8 DEF TypeOK
<1>10. \A i \in 2..Len(log) : Lowered(i) => Lowered(i)'
  BY <1>1, <1>5 DEF Lowered
\* The new change is no lower than the last one, or sets it back itself.
<1>11. GenerationsGrow'
  <2> SUFFICES ASSUME NEW j \in 1..Len(log'), NEW k \in 1..Len(log'), j <= k
               PROVE log'[j].gen <= log'[k].gen \/ \E i \in (j + 1)..k : Lowered(i)'
    BY DEF GenerationsGrow
  <2>1. CASE k \in 1..Len(log)
    <3>1. j \in 1..Len(log)
      BY <1>1, <2>1
    <3>2. log[j].gen <= log[k].gen \/ \E i \in (j + 1)..k : Lowered(i)
      BY <2>1, <3>1 DEF GenerationsGrow
    <3>3. \A i \in (j + 1)..k : i \in 2..Len(log)
      BY <1>1, <2>1, <3>1
    <3> QED BY <1>5, <1>10, <2>1, <3>1, <3>2, <3>3
  <2>2. CASE k = Len(log) + 1 /\ j \in 1..Len(log)
    <3> DEFINE last == Len(log)
    <3>1. last \in 1..Len(log) /\ j <= last /\ log[j].gen \in Nat /\ log[last].gen \in Nat
      BY <1>1, <1>2, <2>2
    <3>2. log[j].gen <= log[last].gen \/ \E i \in (j + 1)..last : Lowered(i)
      BY <2>2, <3>1 DEF GenerationsGrow
    <3>3. CASE \E i \in (j + 1)..last : Lowered(i)
      <4>1. PICK i \in (j + 1)..last : Lowered(i)
        BY <3>3
      <4>2. i \in 2..Len(log) /\ i \in (j + 1)..k
        BY <1>1, <2>2, <4>1
      <4> QED BY <1>10, <4>1, <4>2
    <3>4. CASE e.gen < log[last].gen
      <4>1. Lowered(k)'
        BY <1>1, <1>5, <2>2, <3>1, <3>4 DEF Lowered
      <4>2. k \in (j + 1)..k
        BY <1>1, <2>2
      <4> QED BY <4>1, <4>2
    <3>5. CASE log[j].gen <= log[last].gen /\ ~(e.gen < log[last].gen)
      BY <1>4, <1>5, <2>2, <3>1, <3>5
    <3> QED BY <3>2, <3>3, <3>4, <3>5
  <2>3. CASE k = Len(log) + 1 /\ j = Len(log) + 1
    BY <1>4, <1>5, <2>3
  <2> QED BY <1>1, <1>5, <2>1, <2>2, <2>3
<1>12. \A gen : \A at \in 1..Len(log) : Named(gen, at) => Named(gen, at)' /\ Named(gen, Len(log))'
  <2> SUFFICES ASSUME NEW gen, NEW at \in 1..Len(log), Named(gen, at)
               PROVE Named(gen, at)' /\ Named(gen, Len(log))'
    OBVIOUS
  <2>1. PICK j \in 1..at : log[j].gen = gen
    BY DEF Named
  <2>2. j \in 1..Len(log) /\ j \in 1..Len(log')
    BY <1>1, <1>5
  <2> QED BY <1>5, <2>1, <2>2 DEF Named
<1>13. ReadsCovered'
  <2>1. \A p \in pushes : p.gen = NotRead \/ Named(p.gen, Len(log))'
    BY <1>1, <1>12 DEF ReadsCovered
  <2>2. \A p \in pushes' : p.gen = NotRead \/ Named(p.gen, Len(log))'
    BY <1>7, <2>1
  <2>3. pull' = NotRead \/ Named(pull, Len(log))'
    <3>1. pull = NotRead \/ Named(pull, Len(log))
      BY DEF ReadsCovered
    <3>2. CASE pull = NotRead
      BY <1>6, <3>2 DEF NotRead
    <3>3. CASE Named(pull, Len(log))
      BY <1>1, <1>6, <1>12, <3>3
    <3> QED BY <3>1, <3>2, <3>3
  <2> QED BY <1>6, <2>2, <2>3 DEF ReadsCovered, NotRead
<1>14. \A gen, at : Covered(gen, at) => Covered(gen, at)'
  BY <1>1, <1>5, <1>12 DEF Covered
<1>15. SetsCovered'
  BY <1>6, <1>14 DEF SetsCovered, NoSet
<1> QED BY <1>9, <1>11, <1>13, <1>15

\* build_desired reads the rows after the generation: in between it can only grow.
LEMMA PushY == ASSUME YInv, Push PROVE YInv'
<1> USE DEF YInv
<1>1. PICK p \in pushes : PushRead(p) \/ PushSend(p)
  BY DEF Push
<1>2. /\ TypeOK /\ Generation = log[Len(log)].gen /\ Generation \in Nat /\ Len(log) \in 1..Len(log)
      /\ p \in [of : Nat, gen : Nat] /\ (p.gen = NotRead \/ Named(p.gen, Len(log)))
      /\ Named(Generation, Len(log))
  BY LastGeneration DEF TypeOK, ReadsCovered, Named
<1>3. CASE PushRead(p)
  <2>1. /\ UNCHANGED <<log, pull, sets, run, host>>
        /\ pushes' \subseteq pushes \cup {[p EXCEPT !.gen = Generation]}
    BY <1>3 DEF PushRead, nodeVars
  <2>2. [p EXCEPT !.gen = Generation] \in [of : Nat, gen : Nat] /\ [p EXCEPT !.gen = Generation].gen = Generation
    BY <1>2
  <2>3. TypeOK'
    BY <2>1, <2>2 DEF TypeOK
  <2>4. \A q \in pushes' : q.gen = NotRead \/ Named(q.gen, Len(log))
    BY <1>2, <2>1, <2>2 DEF ReadsCovered, Named
  <2>5. ReadsCovered'
    BY <1>2, <2>1, <2>4 DEF ReadsCovered, Named
  <2>6. SetsCovered'
    BY <2>1 DEF SetsCovered, Covered, Named
  <2> QED BY <2>1, <2>3, <2>5, <2>6, Keeps
<1>4. CASE PushSend(p)
  <2> DEFINE s == Set(p.gen, Len(log))
  <2>1. UNCHANGED <<log, pull, run, host>> /\ pushes' \subseteq pushes /\ sets' \subseteq sets \cup {s}
    BY <1>4 DEF PushSend, nodeVars
  <2>2. s \in AnySet /\ Covered(s.gen, s.at)
    BY <1>2, <1>4 DEF Set, Covered, PushSend, Named, AnySet
  <2> HIDE DEF s
  <2>3. TypeOK'
    BY <2>1, <2>2 DEF TypeOK
  <2>4. ReadsCovered'
    BY <2>1 DEF ReadsCovered, Named
  <2>5. SetsCovered'
    BY <2>1, <2>2 DEF SetsCovered, Covered, Named
  <2> QED BY <2>1, <2>3, <2>4, <2>5, Keeps
<1> QED BY <1>1, <1>3, <1>4

\* So it does for a session's answer to PullSkills.
LEMMA AnswerY == ASSUME YInv, Answer PROVE YInv'
<1> USE DEF YInv
<1>1. /\ TypeOK /\ Generation \in Nat /\ Len(log) \in 1..Len(log)
      /\ Named(Generation, Len(log))
  BY LastGeneration DEF Named
<1>2. CASE PullRead
  <2>1. UNCHANGED <<log, pushes, sets, run, host>> /\ pull' = Generation
    BY <1>2 DEF PullRead, nodeVars
  <2>2. TypeOK'
    BY <1>1, <2>1 DEF TypeOK
  <2>3. ReadsCovered'
    BY <1>1, <2>1 DEF ReadsCovered, Named
  <2>4. SetsCovered'
    BY <2>1 DEF SetsCovered, Covered, Named
  <2> QED BY <2>1, <2>2, <2>3, <2>4, Keeps
<1>3. CASE PullSend
  <2> DEFINE s == Set(pull, Len(log))
  <2>1. /\ UNCHANGED <<log, pushes, run, host>> /\ pull' = NotRead /\ sets' \subseteq sets \cup {s}
        /\ pull # NotRead /\ NotRead \in Nat
    BY <1>3, SyncAssumption DEF PullSend, nodeVars, NotRead
  <2>2. s \in AnySet /\ Covered(s.gen, s.at)
    BY <1>1, <2>1 DEF Set, Covered, ReadsCovered, TypeOK, Named, AnySet
  <2> HIDE DEF s
  <2>3. TypeOK'
    BY <2>1, <2>2 DEF TypeOK
  <2>4. ReadsCovered'
    BY <2>1 DEF ReadsCovered, Named
  <2>5. SetsCovered'
    BY <2>1, <2>2 DEF SetsCovered, Covered, Named
  <2> QED BY <2>1, <2>3, <2>4, <2>5, Keeps
<1> QED BY <1>2, <1>3 DEF Answer

\* What only drops messages, or is about reports and the connection.
LEMMA DropsY ==
    ASSUME YInv, UNCHANGED <<log, run, host>>, pull' \in {pull, NotRead}, pushes' \subseteq pushes, sets' \subseteq sets
    PROVE  YInv'
<1> USE DEF YInv
<1>1. NotRead \in Nat
  BY SyncAssumption DEF NotRead
<1>2. TypeOK'
  BY <1>1 DEF TypeOK
<1>3. ReadsCovered'
  BY DEF ReadsCovered, Named
<1>4. SetsCovered'
  BY DEF SetsCovered, Covered, Named
<1> QED BY <1>2, <1>3, <1>4, Keeps

\* The host takes generation and rows over together.
LEMMA FinishY == ASSUME YInv, Finish PROVE YInv'
<1> USE DEF YInv
<1>1. run # NoSet /\ Covered(run.gen, run.at) /\ UNCHANGED <<log, pushes, pull, sets>> /\ run' = NoSet
  BY DEF Finish, SetsCovered, centerVars
<1>2. run \in AnySet
      /\ host \in [gen : Nat, at : Nat, ver : VersOrNone, store : SUBSET Versions, report : Report]
      /\ log[run.at] \in Entries
  BY <1>1, ElementOfSeq DEF TypeOK, Covered, Named
<1>3. Wanted(run.at) \in VersOrNone
  BY <1>2 DEF Wanted, Entries
<1>4. PICK row \in ReportRow, ver \in VersOrNone :
          host' = [host EXCEPT !.gen = run.gen, !.at = run.at, !.ver = ver,
                               !.store = @ \cup ({ver} \ {None}),
                               !.report = [gen |-> run.gen, row |-> row]]
  <2>1. RowOf(Wanted(run.at)) \in ReportRow /\ Failed(Wanted(run.at)) \in ReportRow
    BY <1>3 DEF RowOf, Failed, Absent, ReportRow, VersOrNone
  <2> QED BY <1>2, <1>3, <2>1 DEF Finish
<1>5. ver \in Versions \cup {None}
  BY DEF VersOrNone
<1>6. host' \in [gen : Nat, at : Nat, ver : VersOrNone, store : SUBSET Versions, report : Report]
      /\ host'.gen = run.gen /\ host'.at = run.at
  <2>1. host.store \cup ({ver} \ {None}) \in SUBSET Versions
    BY <1>2, <1>5
  <2>2. [gen |-> run.gen, row |-> row] \in Report
    BY <1>2 DEF Report, AnySet
  <2> QED BY <1>2, <1>4, <2>1, <2>2 DEF AnySet
<1>7. TypeOK'
  BY <1>1, <1>6 DEF TypeOK, NoSet, AnySet
<1>8. ReadsCovered'
  BY <1>1 DEF ReadsCovered, Named
<1>9. SetsCovered'
  BY <1>1, <1>6 DEF SetsCovered, Covered, Named
<1> QED BY <1>1, <1>7, <1>8, <1>9, Keeps

\* A download that hangs leaves generation and rows as they are.
LEMMA HangY == ASSUME YInv, Hang PROVE YInv'
<1> USE DEF YInv
<1>1. UNCHANGED <<log, pushes, pull, sets, host>> /\ run' = [run EXCEPT !.hung = TRUE] /\ run # NoSet
  BY DEF Hang, centerVars
<1>2. run \in AnySet
  BY DEF TypeOK
<1>3. run' \in AnySet /\ run'.gen = run.gen /\ run'.at = run.at
  BY <1>1, <1>2 DEF AnySet
<1>4. TypeOK'
  BY <1>1, <1>3 DEF TypeOK
<1>5. ReadsCovered'
  BY <1>1 DEF ReadsCovered, Named
<1>6. SetsCovered'
  BY <1>1, <1>3 DEF SetsCovered, Covered, Named
<1> QED BY <1>1, <1>4, <1>5, <1>6, Keeps

LEMMA BeginY == ASSUME YInv, NEW s \in sets, Begin(s) PROVE YInv'
<1> USE DEF YInv
<1>1. UNCHANGED <<log, pushes, pull, host>> /\ sets' \subseteq sets /\ (run' = run \/ run' = s)
  BY DEF Begin, centerVars
<1>2. TypeOK'
  BY <1>1 DEF TypeOK
<1>3. ReadsCovered'
  BY <1>1 DEF ReadsCovered, Named
<1>4. SetsCovered'
  BY <1>1 DEF SetsCovered, Covered, Named
<1> QED BY <1>1, <1>2, <1>3, <1>4, Keeps

\* A node that restarts goes on with what it had applied, or from nothing.
LEMMA NodeRestartY == ASSUME YInv, NodeRestart PROVE YInv'
<1> USE DEF YInv
<1>1. /\ UNCHANGED <<log, pushes>> /\ sets' = {} /\ run' = NoSet /\ pull' = NotRead
      /\ NotRead \in Nat
  BY SyncAssumption DEF NodeRestart, Dropped, NotRead
<1>2. host \in [gen : Nat, at : Nat, ver : VersOrNone, store : SUBSET Versions, report : Report]
  BY DEF TypeOK
<1>3. /\ host' \in [gen : Nat, at : Nat, ver : VersOrNone, store : SUBSET Versions, report : Report]
      /\ \/ host'.gen = host.gen /\ host'.at = host.at
         \/ host'.gen = 0 /\ host'.at = 1
  <2>1. RowOf(host.ver) \in ReportRow /\ Failed(host.ver) \in ReportRow
    BY <1>2 DEF RowOf, Failed, Absent, ReportRow, VersOrNone
  <2>2. [gen |-> host.gen, row |-> RowOf(host.ver)] \in Report /\ [gen |-> 0, row |-> Failed(host.ver)] \in Report
    BY <1>2, <2>1 DEF Report
  <2>3. \/ host' = [host EXCEPT !.report = [gen |-> host.gen, row |-> RowOf(host.ver)]]
        \/ host' = [host EXCEPT !.gen = 0, !.at = 1, !.ver = None, !.store = @ \ {host.ver},
                                !.report = [gen |-> 0, row |-> Failed(host.ver)]]
    BY DEF NodeRestart
  <2>4. None \in VersOrNone /\ host.store \ {host.ver} \in SUBSET Versions
    BY <1>2 DEF VersOrNone
  <2> DEFINE known == [gen |-> host.gen, row |-> RowOf(host.ver)]
             broken == [gen |-> 0, row |-> Failed(host.ver)]
             rest == host.store \ {host.ver}
  <2>5. known \in Report /\ broken \in Report /\ rest \in SUBSET Versions
    BY <2>2, <2>4
  <2>6. host' = [host EXCEPT !.report = known]
        \/ host' = [host EXCEPT !.gen = 0, !.at = 1, !.ver = None, !.store = rest, !.report = broken]
    BY <2>3
  <2> HIDE DEF known, broken, rest
  <2>7. CASE host' = [host EXCEPT !.report = known]
    BY <1>2, <2>5, <2>7
  <2>8. CASE host' = [host EXCEPT !.gen = 0, !.at = 1, !.ver = None, !.store = rest, !.report = broken]
    BY <1>2, <2>4, <2>5, <2>8
  <2> QED BY <2>6, <2>7, <2>8
<1>4. Covered(0, 1)
  BY DEF SetsCovered
<1>5. TypeOK'
  BY <1>1, <1>3 DEF TypeOK, NoSet, AnySet
<1>6. ReadsCovered'
  BY <1>1 DEF ReadsCovered, Named
<1>7. SetsCovered'
  BY <1>1, <1>3, <1>4 DEF SetsCovered, Covered, Named
<1> QED BY <1>1, <1>5, <1>6, <1>7, Keeps

\* A center that restarts forgets the tickets of the sets it sent.
LEMMA CenterRestartY == ASSUME YInv, CenterRestart PROVE YInv'
<1> USE DEF YInv
<1>1. PICK kept \in SUBSET sets : sets' = {Void(s) : s \in kept}
  BY DEF CenterRestart
<1>2. /\ UNCHANGED <<log, host>> /\ pushes' = {} /\ run' = Void(run) /\ pull' = NotRead
      /\ NotRead \in Nat
  BY SyncAssumption DEF CenterRestart, Dropped, NotRead
<1>3. \A s \in AnySet :
          /\ Void(s) \in AnySet
          /\ Void(s).gen = s.gen /\ Void(s).at = s.at
          /\ s = NoSet => Void(s) = NoSet
  BY DEF Void, AnySet
<1>4. \A s \in sets' : s \in AnySet /\ Covered(s.gen, s.at)
  BY <1>1, <1>3 DEF TypeOK, SetsCovered
<1>5. run' \in AnySet /\ (run' = NoSet \/ Covered(run'.gen, run'.at))
  BY <1>2, <1>3 DEF TypeOK, SetsCovered
<1>6. TypeOK'
  BY <1>2, <1>4, <1>5 DEF TypeOK
<1>7. ReadsCovered'
  BY <1>2 DEF ReadsCovered, Named
<1>8. SetsCovered'
  BY <1>2, <1>4, <1>5 DEF SetsCovered, Covered, Named
<1> QED BY <1>2, <1>6, <1>7, <1>8, Keeps

LEMMA NextY == YInv /\ [Next]_syncVars => YInv'
<1> SUFFICES ASSUME YInv, [Next]_syncVars PROVE YInv'
  OBVIOUS
<1>1. CASE \E v \in VersOrNone : Change(v)
  BY <1>1, ChangeY
<1>2. CASE Push \/ Answer
  BY <1>2, PushY, AnswerY
<1>3. CASE Task \/ Hang
  BY <1>3, BeginY, FinishY, HangY DEF Task
<1>4. CASE NodeRestart \/ CenterRestart
  BY <1>4, NodeRestartY, CenterRestartY
<1>5. CASE Take \/ (\E r \in reports : LoseReport(r)) \/ Connect \/ Ready \/ Heartbeat
  BY <1>5, DropsY DEF Take, TakeReport, LoseReport, Connect, Ready, Heartbeat, centerVars, nodeVars
<1>6. CASE Cut
  BY <1>6, DropsY DEF Cut, Dropped, nodeVars
<1>7. CASE UNCHANGED syncVars
  BY <1>7, DropsY DEF syncVars
<1> QED BY <1>1, <1>2, <1>3, <1>4, <1>5, <1>6, <1>7 DEF Next

\* The generation that a node is told, or has applied, was read no later than the rows
\* that came with it, which are at least as new unless a change planned from an old
\* snapshot set the generation back in between.
THEOREM GenerationsAreCovered == Spec => []GenerationCoversRows
<1>1. YInv => GenerationCoversRows
  <2> SUFFICES ASSUME YInv, NEW s \in sets \cup {run, Set(host.gen, host.at)}, s # NoSet
               PROVE \E j \in 1..s.at :
                        /\ log[j].gen = s.gen
                        /\ log[s.at].gen >= s.gen \/ \E i \in (j + 1)..s.at : Lowered(i)
    BY DEF GenerationCoversRows
  <2>1. Covered(s.gen, s.at)
    BY DEF YInv, TypeOK, SetsCovered, Set
  <2>2. PICK j \in 1..s.at : log[j].gen = s.gen
    BY <2>1 DEF Covered, Named
  <2>3. j \in 1..Len(log) /\ s.at \in 1..Len(log) /\ j <= s.at
    BY <2>1 DEF Covered, YInv, TypeOK
  <2>4. log[j] \in Entries /\ log[s.at] \in Entries
    BY <2>3, ElementOfSeq DEF YInv, TypeOK
  <2>5. log[j].gen <= log[s.at].gen \/ \E i \in (j + 1)..s.at : Lowered(i)
    BY <2>3 DEF YInv, GenerationsGrow
  <2> QED BY <2>2, <2>4, <2>5 DEF Entries
<1> QED BY <1>1, InitY, NextY, PTL DEF Spec

=============================================================================
