----------------------------- MODULE SkillDesired -----------------------------
(***************************************************************************)
(* The transactions of the center that write the desired and the actual    *)
(* skills of nodes and the audit chain: skill_desired.rs, apply_report of  *)
(* skill_delivery.rs and append_audit of tags.rs.  MySQL runs them under   *)
(* REPEATABLE READ: the first plain SELECT of a transaction fixes what all *)
(* its later ones see, a locking read and a write act on the current rows, *)
(* and what a transaction wrote appears when it commits.                   *)
(***************************************************************************)
EXTENDS Naturals, Sequences, FiniteSets

CONSTANTS
    Nodes,
    Skills,
    MaxVersion,  \* versions of a skill, oldest first, are 1..MaxVersion
    OldNodes,    \* node_too_old or platform_unsupported for the newest version
    HttpOps,     \* install, rollback and uninstall requests
    TagOps,      \* requests that change tags
    NodeOps,     \* session tasks of the center, storing what nodes report
    NoOp,        \* nobody holds the license row
    DeniedRuns,  \* runs whose result lists denied capabilities
    MaxEvents    \* bound on audit events

Ops == HttpOps \cup TagOps \cup NodeOps

None == 0
Versions == 1..MaxVersion

ASSUME DesiredAssumption ==
    /\ NoOp \notin Ops
    /\ HttpOps \cap TagOps = {} /\ HttpOps \cap NodeOps = {} /\ TagOps \cap NodeOps = {}
    /\ MaxVersion \in Nat /\ MaxEvents \in Nat
    /\ OldNodes \subseteq Nodes /\ IsFiniteSet(Skills)

VARIABLES
    gens,     \* node_skill_sets.generation, 0 without a row
    desired,  \* node_skills_desired
    actual,   \* node_skills_actual, with applied_generation
    chain,    \* audit_events in the order of their ids
    lock,     \* who holds the row of license_state
    st,       \* where each transaction stands
    req,      \* what it is going to write
    view,     \* what its snapshot shows of the other tables
    stale     \* nodes changed from an outdated generation

skillVars == <<gens, desired, actual, chain, lock, st, req, view, stale>>

\* What node_skills_actual or a report says of a skill.
Absent == [ver |-> None, state |-> "absent"]
Row == [ver : Versions, state : {"installed", "failed"}] \cup {Absent}
NoRows == [k \in Skills |-> Absent]

Event(kind, prev, run) == [kind |-> kind, prev |-> prev, run |-> run]

Nothing == [n \in Nodes |-> [gen |-> 0, rows |-> NoRows]]
Unread == [at |-> 0, actual |-> Nothing]

\* Only session tasks read node_skills_actual.
Snapshot(o) == [at |-> Len(chain), actual |-> IF o \in NodeOps THEN actual ELSE Nothing]

Idle == [kind |-> "idle"]

Init ==
    /\ gens = [n \in Nodes |-> 0]
    /\ desired = [n \in Nodes |-> [k \in Skills |-> None]]
    /\ actual = Nothing
    /\ chain = <<>>
    /\ lock = NoOp
    /\ st = [o \in Ops |-> "idle"]
    /\ req = [o \in Ops |-> Idle]
    /\ view = [o \in Ops |-> Unread]
    /\ stale = {}

(***************************************************************************)
(* The license row                                                         *)
(***************************************************************************)
\* A change locks once it is planned, a session task first of all.
Waiting(o) == st[o] = IF o \in NodeOps THEN "idle" ELSE "lock"

\* Mutant: SELECT without FOR UPDATE.
LockFree(o) ==
    /\ o \notin TagOps /\ Waiting(o)
    /\ o \in NodeOps => Len(chain) < MaxEvents
    /\ st' = [st EXCEPT ![o] = IF o \in HttpOps THEN "commit" ELSE "read"]
    /\ UNCHANGED <<gens, desired, actual, chain, lock, req, view, stale>>

\* lock_chain.  It is held until the transaction ends.
Lock(o) ==
    /\ o \notin TagOps /\ Waiting(o) /\ lock = NoOp
    /\ o \in NodeOps => Len(chain) < MaxEvents
    /\ lock' = o
    /\ st' = [st EXCEPT ![o] = IF o \in HttpOps THEN "commit" ELSE "read"]
    /\ UNCHANGED <<gens, desired, actual, chain, req, view, stale>>

\* The transaction ends; a session task goes on to its next frame.
End(o) ==
    /\ st' = [st EXCEPT ![o] = IF o \in NodeOps THEN "idle" ELSE "done"]
    /\ lock' = IF lock = o THEN NoOp ELSE lock
    /\ req' = [req EXCEPT ![o] = Idle]
    /\ view' = [view EXCEPT ![o] = Unread]

\* A query fails, or the center stops: nothing is written.
Rollback(o) ==
    /\ st[o] \in {"lock", "read", "commit"}
    /\ UNCHANGED <<gens, desired, actual, chain, stale>>
    /\ End(o)

(***************************************************************************)
(* Changes of the desired set                                              *)
(***************************************************************************)
\* previous_version
Previous(v) ==
    LET older == {w \in Versions : w < v}
    IN  IF older = {} THEN None ELSE CHOOSE w \in older : \A x \in older : x <= w

\* classify_install, classify_rollback, classify_uninstall: the version the
\* snapshot calls for, on the nodes where it calls for anything.  A rollback to
\* an explicit version is an install.
Plan(how, k, v, S) ==
    LET target(n) == CASE how = "install"   -> v
                       [] how = "rollback"  -> Previous(desired[n][k])
                       [] how = "uninstall" -> None
        acts == {n \in S : /\ target(n) # desired[n][k]
                           /\ how # "uninstall" =>
                                  target(n) # None /\ ~(n \in OldNodes /\ target(n) = MaxVersion)}
    IN  [n \in acts |-> [gen |-> gens[n] + 1, ver |-> target(n)]]

\* The snapshot is taken when prepare reads the nodes, before the lock.  Requests
\* refused before they write anything are left out.
BeginChange(o, how, k, v, S) ==
    /\ o \in HttpOps /\ st[o] = "idle"
    /\ how = "rollback" => \E n \in S : Previous(desired[n][k]) # None
    /\ req' = [req EXCEPT ![o] = [kind |-> "change", skill |-> k, plan |-> Plan(how, k, v, S)]]
    /\ view' = [view EXCEPT ![o] = Snapshot(o)]
    /\ st' = [st EXCEPT ![o] = "lock"]
    /\ UNCHANGED <<gens, desired, actual, chain, lock, stale>>

\* Nodes whose rows persist writes: a DELETE that removes nothing sets no
\* generation.
Hits(o) ==
    {n \in DOMAIN req[o].plan : req[o].plan[n].ver # None \/ desired[n][req[o].skill] # None}

\* Mutant: delete_desired is not followed by set_generation.
CommitChangeNoBump(o) ==
    /\ st[o] = "commit" /\ req[o].kind = "change"
    /\ LET plan == req[o].plan
       IN  /\ gens' = [n \in Nodes |-> IF n \in Hits(o) /\ plan[n].ver # None
                                       THEN plan[n].gen ELSE gens[n]]
           /\ desired' = [n \in Nodes |-> IF n \in Hits(o)
                                          THEN [desired[n] EXCEPT ![req[o].skill] = plan[n].ver]
                                          ELSE desired[n]]
           /\ stale' = stale \cup {n \in Hits(o) : plan[n].gen # gens[n] + 1}
    /\ chain' = Append(chain, Event("change", view[o].at, None))
    /\ UNCHANGED actual
    /\ End(o)

\* persist, and the commit.
CommitChange(o) ==
    /\ st[o] = "commit" /\ req[o].kind = "change"
    /\ LET plan == req[o].plan
       IN  /\ gens' = [n \in Nodes |-> IF n \in Hits(o) THEN plan[n].gen ELSE gens[n]]
           /\ desired' = [n \in Nodes |-> IF n \in Hits(o)
                                          THEN [desired[n] EXCEPT ![req[o].skill] = plan[n].ver]
                                          ELSE desired[n]]
           /\ stale' = stale \cup {n \in Hits(o) : plan[n].gen # gens[n] + 1}
    /\ chain' = Append(chain, Event("change", view[o].at, None))
    /\ UNCHANGED actual
    /\ End(o)

(***************************************************************************)
(* What nodes report.  These transactions lock before they read.           *)
(***************************************************************************)
Read(o, q) ==
    /\ st[o] = "read"
    /\ req' = [req EXCEPT ![o] = q]
    /\ view' = [view EXCEPT ![o] = Snapshot(o)]
    /\ st' = [st EXCEPT ![o] = "commit"]
    /\ UNCHANGED <<gens, desired, actual, chain, lock, stale>>

\* A node reports the rows of any generation the center has reached.
ReadReport(o) ==
    \E n \in Nodes, rows \in [Skills -> Row] : \E g \in 0..gens[n] :
        Read(o, [kind |-> "report", node |-> n, gen |-> g, rows |-> rows])

ReadDenial(o) == \E r \in DeniedRuns : Read(o, [kind |-> "denial", run |-> r])

\* MAX(applied_generation) over the rows of a node: 0 if it has none.
AppliedGen(a) == IF a.rows = NoRows THEN 0 ELSE a.gen

\* maybe_audit: an event for each skill whose row is new or different.
Changed(old, new) == {k \in Skills : new[k] # Absent /\ new[k] # old[k]}

\* Events of one transaction follow one another.
Appended(count, kind, at) ==
    chain \o [i \in 1..count |-> Event(kind, IF i = 1 THEN at ELSE Len(chain) + i - 1, None)]

\* apply_report: an older report is dropped, any other replaces all rows.
CommitReport(o) ==
    /\ st[o] = "commit" /\ req[o].kind = "report"
    /\ LET n   == req[o].node
           old == view[o].actual[n]
       IN  IF req[o].gen < AppliedGen(old)
           THEN UNCHANGED <<actual, chain>>
           ELSE /\ actual' = [actual EXCEPT ![n] = [gen |-> req[o].gen, rows |-> req[o].rows]]
                /\ chain' = Appended(Cardinality(Changed(old.rows, req[o].rows)),
                                     "report", view[o].at)
    /\ UNCHANGED <<gens, desired, stale>>
    /\ End(o)

\* store_reported_result: at most one event for a run.
CommitDenial(o) ==
    /\ st[o] = "commit" /\ req[o].kind = "denial"
    /\ chain' = IF \E i \in 1..view[o].at : chain[i].kind = "denial" /\ chain[i].run = req[o].run
                THEN chain
                ELSE Append(chain, Event("denial", view[o].at, req[o].run))
    /\ UNCHANGED <<gens, desired, actual, stale>>
    /\ End(o)

(***************************************************************************)
(* Tags: append_audit of tags.rs takes no lock of the chain                *)
(***************************************************************************)
\* A node none of the other transactions is about: the row of the node, which
\* tags.rs locks, keeps nobody waiting.
BeginTag(o) ==
    /\ o \in TagOps /\ st[o] = "idle"
    /\ view' = [view EXCEPT ![o] = Snapshot(o)]
    /\ req' = [req EXCEPT ![o] = [kind |-> "tag"]]
    /\ st' = [st EXCEPT ![o] = "commit"]
    /\ UNCHANGED <<gens, desired, actual, chain, lock, stale>>

CommitTag(o) ==
    /\ st[o] = "commit" /\ req[o].kind = "tag"
    /\ chain' = Append(chain, Event("tag", view[o].at, None))
    /\ UNCHANGED <<gens, desired, actual, stale>>
    /\ End(o)

(***************************************************************************)
(* The specification                                                       *)
(***************************************************************************)
Hows == {"install", "rollback", "uninstall"}

Change(o) ==
    \/ \E how \in Hows, k \in Skills, v \in Versions, S \in SUBSET Nodes \ {{}} :
           BeginChange(o, how, k, v, S)
    \/ CommitChange(o)

Store(o) == Lock(o) \/ ReadReport(o) \/ ReadDenial(o) \/ CommitReport(o) \/ CommitDenial(o)

Tag(o) == BeginTag(o) \/ CommitTag(o)

Next == \E o \in Ops : Change(o) \/ Store(o) \/ Tag(o) \/ Rollback(o)

Spec == Init /\ [][Next]_skillVars

(***************************************************************************)
(* Properties                                                              *)
(***************************************************************************)
\* The audit chain forks only around a writer that reads before it locks or does
\* not lock: transactions of nodes never hash the same predecessor.
ForkHasCause ==
    \A i \in 1..Len(chain) : chain[i].prev # i - 1 =>
        \E j \in (chain[i].prev + 1)..i : chain[j].kind \in {"change", "tag"}

\* A result stored again does not repeat its denial event.
OneDenialPerRun ==
    \A i, j \in 1..Len(chain) :
        chain[i].kind = "denial" /\ chain[j].kind = "denial" /\ chain[i].run = chain[j].run => i = j

\* Until a change is made from an outdated generation, the generation of a node
\* counts the changes of its desired set, no more and no less.
GenerationCountsChanges ==
    [][\A n \in Nodes \ stale' :
           gens'[n] = gens[n] + (IF desired'[n] # desired[n] THEN 1 ELSE 0)]_skillVars
=============================================================================
