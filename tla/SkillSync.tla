------------------------------- MODULE SkillSync -------------------------------
(***************************************************************************)
(* How a change of the desired skills reaches a node and how its outcome   *)
(* comes back: build_desired, push_pending and apply_report of             *)
(* skill_delivery.rs, the frames of grpc.rs that are about skills, and the *)
(* tasks of the node around SkillHost::reconcile.  One node and one skill. *)
(***************************************************************************)
EXTENDS Naturals, FiniteSets, Sequences, SequencesExt

CONSTANTS
    Versions,    \* versions of the skill
    Earlier,     \* changes before the node first connects, each to a new version
    MaxChanges,  \* bound on changes of the desired set
    MaxFaults,   \* bound on cuts, stops and failures of every kind
    MaxFlight    \* bound on reports, and on desired sets, on their way at once

None == 0
VersOrNone == Versions \cup {None}

ASSUME SyncAssumption ==
    /\ Versions \subseteq Nat \ {0}
    /\ Earlier \in Nat /\ 1..Earlier \subseteq Versions
    /\ MaxChanges \in Nat /\ MaxFaults \in Nat /\ MaxFlight \in Nat \ {0}

VARIABLES
    log,      \* the desired set of the node after each change, and its generation
    actual,   \* node_skills_actual
    pushes,   \* push_pending under way in HTTP handlers
    asked,    \* a PullSkills frame is on its way
    pull,     \* the generation read for it
    conn,     \* session of the node
    sets,     \* desired sets sent to the node and not begun
    host,     \* SkillHost: what is applied, and what it would report
    run,      \* the set being reconciled
    reports,  \* reports the center has not taken
    faults,
    misled    \* accidents that leave node or center with an old view

centerVars == <<log, actual, pushes, pull>>
nodeVars == <<host, run>>
syncVars == <<log, actual, pushes, asked, pull, conn, sets, host, run, reports, faults, misled>>

(***************************************************************************)
(* Desired sets and reports                                                *)
(***************************************************************************)
Generation == Last(log).gen
Wanted(at) == log[at].ver

\* A set carries the generation that was read, the rows that were read after it,
\* and fetch tickets, which the center forgets when it stops.  A download for it
\* may hang.
Set(g, at) == [gen |-> g, at |-> at, live |-> TRUE, hung |-> FALSE]
NoSet == [gen |-> 0, at |-> 0, live |-> FALSE, hung |-> FALSE]
NotRead == MaxChanges + 1

\* The row of the skill in a report: none, or a version that is installed or failed.
Absent == [ver |-> None, state |-> "absent"]
RowOf(v) == IF v = None THEN Absent ELSE [ver |-> v, state |-> "installed"]

\* Mutant: a version that failed has no row.
FailedSilent(v) == Absent

Failed(v) == [ver |-> v, state |-> "failed"]
NoReport == [gen |-> 0, row |-> Absent]

\* The host: the set it applied, the version it runs, the packages it has and
\* what snapshot answers.
NewHost == [gen |-> 0, at |-> 1, ver |-> None, store |-> {}, report |-> NoReport]

Init ==
    /\ log = [i \in 1..(Earlier + 1) |-> [gen |-> i - 1, ver |-> i - 1]]
    /\ actual = NoReport
    /\ pushes = {} /\ asked = FALSE /\ pull = NotRead
    /\ conn = "down" /\ sets = {} /\ reports = {}
    /\ host = NewHost /\ run = NoSet
    /\ faults = 0 /\ misled = {}

Room(inFlight) == Cardinality(inFlight) < MaxFlight

Fault == faults < MaxFaults /\ faults' = faults + 1

(***************************************************************************)
(* The center: changes and desired sets                                    *)
(***************************************************************************)
\* Versions are numbered in the order in which they are first wanted.
Fresh == 1 + Max({log[i].ver : i \in 1..Len(log)})

\* A request commits a change it planned from the snapshot of its transaction,
\* which may be older than the last commit: it writes the next generation of what
\* it saw.  Only a connected node is pushed to.
Change(v) ==
    /\ Len(log) <= MaxChanges /\ v <= Fresh
    /\ \E seen \in 1..Len(log) :
          /\ v # log[seen].ver
          /\ log' = Append(log, [gen |-> log[seen].gen + 1, ver |-> v])
          /\ misled' = IF seen = Len(log) THEN misled ELSE misled \cup {"stale"}
    /\ pushes' = IF conn = "ready" THEN pushes \cup {[of |-> Len(log), gen |-> NotRead]} ELSE pushes
    /\ UNCHANGED <<actual, asked, pull, conn, sets, nodeVars, reports, faults>>

\* push_pending: build_desired reads the generation, then the rows.
PushRead(p) ==
    /\ p.gen = NotRead
    /\ pushes' = (pushes \ {p}) \cup IF conn = "ready" THEN {[p EXCEPT !.gen = Generation]} ELSE {}
    /\ UNCHANGED <<log, actual, asked, pull, conn, sets, nodeVars, reports, faults, misled>>

\* Mutant: the generation is read when the set is sent, the rows are those that the
\* request planned from.
PushSendOwn(p) ==
    /\ p.gen # NotRead /\ Room(sets)
    /\ pushes' = pushes \ {p}
    /\ sets' = IF conn = "ready" THEN sets \cup {Set(Generation, p.of)} ELSE sets
    /\ UNCHANGED <<log, actual, asked, pull, conn, nodeVars, reports, faults, misled>>

PushSend(p) ==
    /\ p.gen # NotRead /\ Room(sets)
    /\ pushes' = pushes \ {p}
    /\ sets' = IF conn = "ready" THEN sets \cup {Set(p.gen, Len(log))} ELSE sets
    /\ UNCHANGED <<log, actual, asked, pull, conn, nodeVars, reports, faults, misled>>

\* The PullSkills frame, answered by the session task.
PullRead ==
    /\ asked /\ pull = NotRead
    /\ pull' = Generation
    /\ UNCHANGED <<log, actual, pushes, asked, conn, sets, nodeVars, reports, faults, misled>>

\* A failed read is answered with an error, which the node only logs.
PullSend ==
    /\ pull # NotRead /\ Room(sets)
    /\ \/ sets' = sets \cup {Set(pull, Len(log))} /\ UNCHANGED <<faults, misled>>
       \/ Fault /\ misled' = misled \cup {"unanswered"} /\ UNCHANGED sets
    /\ asked' = FALSE
    /\ pull' = NotRead
    /\ UNCHANGED <<log, actual, pushes, conn, nodeVars, reports>>

(***************************************************************************)
(* The center: reports                                                     *)
(***************************************************************************)
\* The generation a report is compared with is that of the rows there are.
Known == IF actual.row = Absent THEN 0 ELSE actual.gen

\* apply_report.  What cannot be stored is not sent again.  A report is sent by a
\* task of its own, and a session that ended may still have some to work off:
\* they come in any order.
TakeReport(r) ==
    /\ \/ /\ actual' = IF r.gen < Known THEN actual ELSE r
          /\ misled' = IF actual = host.report /\ actual' # actual
                       THEN misled \cup {"overtaken"} ELSE misled
          /\ UNCHANGED faults
       \/ Fault /\ misled' = misled \cup {"unstored"} /\ UNCHANGED actual
    /\ reports' = reports \ {r}
    /\ UNCHANGED <<log, pushes, asked, pull, conn, sets, nodeVars>>

\* Without a session the node drops a report.
LoseReport(r) ==
    /\ conn = "down"
    /\ reports' = reports \ {r}
    /\ UNCHANGED <<centerVars, asked, conn, sets, nodeVars, faults, misled>>

(***************************************************************************)
(* The session                                                             *)
(***************************************************************************)
\* The node asks for its skills right after Register.  If a reconcile of an earlier
\* session has the lock for longer than ready_bound, it reports what is known.
Connect ==
    /\ conn = "down"
    /\ conn' = "bound"
    /\ asked' = TRUE
    /\ \/ run # NoSet /\ Room(reports) /\ reports' = reports \cup {host.report}
       \/ UNCHANGED reports
    /\ UNCHANGED <<centerVars, sets, nodeVars, faults, misled>>

\* NodeReady puts the sender of the session into the hub.
Ready ==
    /\ conn = "bound"
    /\ conn' = "ready"
    /\ UNCHANGED <<centerVars, asked, sets, nodeVars, reports, faults, misled>>

\* Inner.seen: a set that is begun is at least as new as the one applied.
Seen == IF run.gen > host.gen THEN run.gen ELSE host.gen

\* Mutant: a node that is one generation behind does not ask.
HeartbeatLax ==
    /\ conn # "down" /\ ~asked
    /\ Generation > host.gen + 1 /\ Generation > Seen
    /\ asked' = TRUE
    /\ UNCHANGED <<centerVars, conn, sets, nodeVars, reports, faults, misled>>

\* A heartbeat tells the node the generation; should_pull.  Its answer is taken
\* together with it: an older generation asks for nothing a newer one does not.
Heartbeat ==
    /\ conn # "down" /\ ~asked
    /\ Generation > host.gen /\ Generation > Seen
    /\ asked' = TRUE
    /\ UNCHANGED <<centerVars, conn, sets, nodeVars, reports, faults, misled>>

\* What was on its way in the session is lost, or has been received already.
Dropped ==
    /\ conn' = "down" /\ asked' = FALSE /\ pull' = NotRead
    /\ reports' \in SUBSET reports

Cut ==
    /\ conn # "down" /\ Fault
    /\ Dropped
    /\ sets' \in SUBSET sets
    /\ UNCHANGED <<log, actual, pushes, nodeVars, misled>>

(***************************************************************************)
(* The node                                                                *)
(***************************************************************************)
\* A host that found its skill damaged has no report of the set it runs.
Damaged == host.report.row.state = "failed" /\ host.gen = 0

Noop(s) == s.gen < host.gen \/ (s.gen = host.gen /\ ~Damaged)

\* Mutant: a set that is applied already is not answered with a report.
BeginSilent(s) ==
    /\ run = NoSet
    /\ sets' = sets \ {s}
    /\ run' = IF Noop(s) THEN run ELSE s
    /\ UNCHANGED <<centerVars, asked, conn, host, reports, faults, misled>>

\* drive_skills gives each set to a task of its own, and one at a time has the
\* lock.  What is known is reported again, and also when the first reconcile of
\* a session outlasts ready_bound.
Begin(s) ==
    /\ run = NoSet /\ Room(reports)
    /\ sets' = sets \ {s}
    /\ run' = IF Noop(s) THEN run ELSE s
    /\ \/ reports' = reports \cup {host.report}
       \/ ~Noop(s) /\ UNCHANGED reports
    /\ UNCHANGED <<centerVars, asked, conn, host, faults, misled>>

\* GrpcArtifactSource::fetch sets no timeout: a download whose peer is gone without
\* a word goes on for as long as the node runs, with the lock.
Hang ==
    /\ run # NoSet /\ Wanted(run.at) \notin host.store \cup {None}
    /\ Fault
    /\ run' = [run EXCEPT !.hung = TRUE]
    /\ UNCHANGED <<centerVars, asked, conn, sets, host, reports, misled>>

\* A package the host does not have is fetched, with the ticket of the set.  An
\* install that fails leaves the version there was, and is not tried again.
Finish ==
    /\ run # NoSet /\ ~run.hung /\ Room(reports)
    /\ LET v    == Wanted(run.at)
           done(row, ver) ==
               host' = [host EXCEPT !.gen = run.gen, !.at = run.at, !.ver = ver,
                                    !.store = @ \cup ({ver} \ {None}),
                                    !.report = [gen |-> run.gen, row |-> row]]
       IN  \/ /\ v \in host.store \cup {None} \/ run.live
              /\ done(RowOf(v), v)
              /\ UNCHANGED faults
           \/ /\ v \notin host.store \cup {None}
              /\ IF run.live THEN Fault ELSE UNCHANGED faults
              /\ done(Failed(v), host.ver)
    /\ reports' = reports \cup {host'.report}
    /\ run' = NoSet
    /\ UNCHANGED <<centerVars, asked, conn, sets, misled>>

(***************************************************************************)
(* Stops                                                                   *)
(***************************************************************************)
\* The node restarts from its disk.  It has forgotten that an install failed; a
\* skill whose files were damaged is off, and its generation is 0.
NodeRestart ==
    /\ Fault
    /\ Dropped
    /\ \/ /\ host' = [host EXCEPT !.report = [gen |-> host.gen, row |-> RowOf(host.ver)]]
          /\ misled' = IF host.report.row.state = "failed" THEN misled \cup {"forgot"} ELSE misled
       \/ /\ host.ver # None
          /\ host' = [host EXCEPT !.gen = 0, !.at = 1, !.ver = None, !.store = @ \ {host.ver},
                                  !.report = [gen |-> 0, row |-> Failed(host.ver)]]
          /\ UNCHANGED misled
    /\ sets' = {} /\ run' = NoSet
    /\ UNCHANGED <<log, actual, pushes>>

Void(s) == IF s = NoSet THEN s ELSE [s EXCEPT !.live = FALSE]

CenterRestart ==
    /\ Fault
    /\ Dropped
    /\ pushes' = {}
    /\ \E kept \in SUBSET sets : sets' = {Void(s) : s \in kept}
    /\ run' = Void(run)
    /\ UNCHANGED <<log, actual, host, misled>>

(***************************************************************************)
(* The specification                                                       *)
(***************************************************************************)
Push == \E p \in pushes : PushRead(p) \/ PushSend(p)
Answer == PullRead \/ PullSend
Task == (\E s \in sets : Begin(s)) \/ Finish
Take == \E r \in reports : TakeReport(r)

Next ==
    \/ \E v \in VersOrNone : Change(v)
    \/ Push \/ Answer \/ Take \/ (\E r \in reports : LoseReport(r))
    \/ Connect \/ Ready \/ Heartbeat \/ Cut
    \/ Task \/ Hang
    \/ NodeRestart \/ CenterRestart

\* The tasks of both sides run on, but for a download that hangs; frames arrive
\* while a session lasts; the node reconnects in a loop and sends heartbeats by
\* the clock.
Fairness ==
    /\ WF_syncVars(Push) /\ WF_syncVars(Answer) /\ WF_syncVars(Take) /\ WF_syncVars(Task)
    /\ WF_syncVars(Connect) /\ WF_syncVars(Ready) /\ WF_syncVars(Heartbeat)

Spec == Init /\ [][Next]_syncVars /\ Fairness

(***************************************************************************)
(* Properties                                                              *)
(***************************************************************************)
Rows == {Absent} \cup [ver : Versions, state : {"installed", "failed"}]
Reports == [gen : 0..MaxChanges, row : Rows]
Sets == [gen : 0..MaxChanges, at : 1..Len(log), live : BOOLEAN, hung : BOOLEAN]

\* A stale change may set the generation back.
Lowered(i) == log[i].gen < log[i - 1].gen
SetBack == \E i \in 2..Len(log) : Lowered(i)

\* The generation a node is told was the newest when it was read, no later than the
\* rows: those are at least as new, unless a stale change set the generation back
\* in between.
GenerationCoversRows ==
    \A s \in sets \cup {run, Set(host.gen, host.at)} :
        s # NoSet => \E j \in 1..s.at :
            /\ log[j].gen = s.gen
            /\ \/ log[s.at].gen >= s.gen
               \/ \E i \in (j + 1)..s.at : Lowered(i)

\* Once changes and faults are over the node has worked through the rows the
\* center has, unless a change was planned from an old snapshot or a download hangs.
Converges ==
    <>[](\/ host.gen = Generation /\ Wanted(host.at) = Last(log).ver
         \/ "stale" \in misled \/ run.hung)

\* And the center knows what the node would report, unless a report could not be
\* stored, one overtook the report that emptied the table, a PullSkills was answered
\* with an error, a download hangs, or the generation was set back, so that what the
\* node reports looks old.
CenterLearns ==
    <>[](\/ actual = host.report \/ run.hung \/ SetBack
         \/ misled \cap {"overtaken", "unstored", "unanswered"} # {})

\* derived_state, for a connected node.
View ==
    CASE actual.row = RowOf(Last(log).ver)                                   -> "installed"
      [] actual.row.state = "failed" /\ actual.gen = Generation -> "failed"
      [] OTHER                                                  -> "pending"

\* An operator does not see a skill pending forever, but for these accidents and
\* a restart of the node, which forgets that an install failed.
PendingEnds == <>[](View # "pending" \/ run.hung \/ misled # {})
=============================================================================
