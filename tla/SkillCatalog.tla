------------------------------ MODULE SkillCatalog ------------------------------
(***************************************************************************)
(* The catalog of one skill (skill_catalog.rs, artifact.rs), a bundle that *)
(* names it (skill_bundles.rs) and the requests that put a version of it   *)
(* on a node.  An upload and a delete hold the lock of the skill; a        *)
(* request that installs reads the versions before its transaction and     *)
(* locks nothing of the catalog.                                           *)
(***************************************************************************)
EXTENDS Naturals, FiniteSets, FiniteSetsExt

CONSTANTS
    Packages,  \* what authors upload: a version and a payload
    Requests   \* HTTP requests that may run at once

None == 0
Versions == {p.ver : p \in Packages}

ASSUME CatalogAssumption == \A p \in Packages : p.ver \in Nat \ {None}

VARIABLES
    versions,   \* skill_versions: the package registered under a version
    artifacts,  \* skill_artifacts
    desired,    \* node_skills_desired: the package a node shall run
    actual,     \* node_skills_actual: the version the node last reported
    bundle,     \* version_req of the bundle's item
    reqs,       \* requests in progress
    task,       \* the set the node works on
    runs,       \* the version the node would report
    met         \* kinds of requests that were open together with a delete

tables == <<versions, artifacts, desired, actual, bundle>>
vars == <<versions, artifacts, desired, actual, bundle, reqs, task, runs, met>>

NoPackage == [ver |-> None, load |-> "none"]
PackOrNone == Packages \cup {NoPackage}
AnyVersion == 1 + Max(Versions)  \* the requirement "*"

Idle == [kind |-> "idle"]
NoTask == [pack |-> NoPackage, caps |-> NoPackage, busy |-> FALSE]

Init ==
    /\ versions = [v \in Versions |-> NoPackage]
    /\ artifacts = {}
    /\ desired = NoPackage /\ actual = None /\ bundle = None
    /\ reqs = [r \in Requests |-> Idle]
    /\ task = NoTask /\ runs = None
    /\ met = {}

Registered == {v \in Versions : versions[v] # NoPackage}
OpenKinds(rs) == {rs[r].kind : r \in Requests} \ {"idle"}

\* A request goes on to a next step, or ends.
Goto(r, state) ==
    /\ reqs' = [reqs EXCEPT ![r] = state]
    /\ met' = IF "delete" \in OpenKinds(reqs') THEN met \cup OpenKinds(reqs') ELSE met

\* lock_skill: only a delete is seen holding it, an upload is one step.
Unlocked == "delete" \notin OpenKinds(reqs)

(***************************************************************************)
(* Uploads                                                                 *)
(***************************************************************************)
\* Mutant: a later version of a skill is written without its bytes.
RegisterBare(p) ==
    /\ Unlocked
    /\ versions[p.ver] = NoPackage
    /\ versions' = [versions EXCEPT ![p.ver] = p]
    /\ artifacts' = IF Registered = {} THEN artifacts \cup {p} ELSE artifacts
    /\ UNCHANGED <<desired, actual, bundle, reqs, task, runs, met>>

\* persist registers a version that is not there, together with its bytes, and
\* refuses other bytes for one that is.
Register(p) ==
    /\ Unlocked
    /\ versions[p.ver] = NoPackage
    /\ versions' = [versions EXCEPT ![p.ver] = p]
    /\ artifacts' = artifacts \cup {p}
    /\ UNCHANGED <<desired, actual, bundle, reqs, task, runs, met>>

\* The same bytes again: the transaction is rolled back, and ensure_artifact
\* looks for the bytes and stores them if they are gone.
Again(r, p) ==
    /\ Unlocked /\ reqs[r] = Idle
    /\ versions[p.ver] = p
    /\ Goto(r, [kind |-> "again", pack |-> p])
    /\ UNCHANGED <<tables, task, runs>>

EnsureArtifact(r) ==
    /\ reqs[r].kind = "again"
    /\ artifacts' = artifacts \cup {reqs[r].pack}
    /\ Goto(r, Idle)
    /\ UNCHANGED <<versions, desired, actual, bundle, task, runs>>

(***************************************************************************)
(* Deletes                                                                 *)
(***************************************************************************)
\* Mutant: only what nodes reported counts.
InUseActual(v) == v \in {actual, bundle}

\* version_in_use: a bundle counts when it names just this version.
InUse(v) == v \in {desired.ver, actual, bundle}

DeleteCheck(r, v) ==
    /\ Unlocked /\ reqs[r] = Idle
    /\ versions[v] # NoPackage /\ ~InUse(v)
    /\ Goto(r, [kind |-> "delete", ver |-> v])
    /\ UNCHANGED <<tables, task, runs>>

\* Mutant: the bytes stay when their version goes.
DeleteCommitKeeps(r) ==
    /\ reqs[r].kind = "delete"
    /\ versions' = [versions EXCEPT ![reqs[r].ver] = NoPackage]
    /\ Goto(r, Idle)
    /\ UNCHANGED <<artifacts, desired, actual, bundle, task, runs>>

DeleteCommit(r) ==
    /\ reqs[r].kind = "delete"
    /\ LET v == reqs[r].ver IN
           /\ versions' = [versions EXCEPT ![v] = NoPackage]
           /\ artifacts' = artifacts \ {versions[v]}
    /\ Goto(r, Idle)
    /\ UNCHANGED <<desired, actual, bundle, task, runs>>

(***************************************************************************)
(* Bundles                                                                 *)
(***************************************************************************)
\* create_bundle, replace_bundle and delete_bundle do not look at the catalog.
SetBundle(req) ==
    /\ bundle' = req
    /\ UNCHANGED <<versions, artifacts, desired, actual, reqs, task, runs, met>>

Matching(req) == {v \in Registered : req \in {v, AnyVersion}}

(***************************************************************************)
(* Requests that change what a node shall run                              *)
(***************************************************************************)
\* install and install_bundle resolve the version, and compare the capabilities
\* the operator accepted with those it has now.
Plan(r, v) ==
    /\ reqs[r] = Idle
    /\ \/ v \in Registered
       \/ bundle # None /\ Matching(bundle) # {} /\ v = Max(Matching(bundle))
    /\ Goto(r, [kind |-> "install", pack |-> versions[v]])
    /\ UNCHANGED <<tables, task, runs>>

\* rollback reads all versions there are.
PlanRollback(r) ==
    /\ reqs[r] = Idle /\ Registered # {}
    /\ Goto(r, [kind |-> "rollback", known |-> {versions[v] : v \in Registered}])
    /\ UNCHANGED <<tables, task, runs>>

\* previous_version, once the transaction has the row.
Below(known) == {p \in known : p.ver < desired.ver}
Target(req) ==
    IF req.kind = "install" THEN {req.pack}
    ELSE {p \in Below(req.known) : \A q \in Below(req.known) : q.ver <= p.ver}

Commit(r) ==
    /\ reqs[r].kind \in {"install", "rollback"}
    /\ LET chosen == Target(reqs[r]) IN
           IF chosen = {} THEN UNCHANGED desired ELSE desired' \in chosen
    /\ Goto(r, Idle)
    /\ UNCHANGED <<versions, artifacts, actual, bundle, task, runs>>

Uninstall ==
    /\ desired # NoPackage
    /\ desired' = NoPackage
    /\ UNCHANGED <<versions, artifacts, actual, bundle, reqs, task, runs, met>>

(***************************************************************************)
(* The node                                                                *)
(***************************************************************************)
\* build_desired joins the row with the version of its name: the sha is that of
\* the row, size and capabilities are those of the version.  Without the version
\* the skill is not in the set.
Send ==
    /\ ~task.busy
    /\ task' = IF desired = NoPackage \/ versions[desired.ver] = NoPackage
               THEN [NoTask EXCEPT !.busy = TRUE]
               ELSE [pack |-> desired, caps |-> versions[desired.ver], busy |-> TRUE]
    /\ UNCHANGED <<tables, reqs, runs, met>>

\* The node fetches the bytes and runs them; when they are not there its report
\* names the version all the same.
Finish ==
    /\ task.busy
    /\ runs' = task.pack.ver
    /\ task' = NoTask
    /\ UNCHANGED <<tables, reqs, met>>

Report ==
    /\ actual' = runs
    /\ UNCHANGED <<versions, artifacts, desired, bundle, reqs, task, runs, met>>

Next ==
    \/ \E p \in Packages : Register(p)
    \/ \E r \in Requests :
           \/ \E p \in Packages : Again(r, p)
           \/ \E v \in Versions : DeleteCheck(r, v) \/ Plan(r, v)
           \/ EnsureArtifact(r) \/ DeleteCommit(r) \/ PlanRollback(r) \/ Commit(r)
    \/ \E req \in Versions \cup {None, AnyVersion} : SetBundle(req)
    \/ Uninstall \/ Send \/ Finish \/ Report

Spec == Init /\ [][Next]_vars

(***************************************************************************)
(* Properties                                                              *)
(***************************************************************************)
\* delete_version removes bytes only with the last version that has them,
\* whatever uploads of the same bytes are under way: no registered version is
\* without its bytes.
VersionsHaveBytes == \A v \in Registered : versions[v] \in artifacts

\* Bytes without a version remain only when an upload repeated a version while
\* it was deleted, outside the lock.
OrphanHasCause == artifacts \subseteq {versions[v] : v \in Versions} \/ "again" \in met

\* A node is made to run only what is registered and stored, and the capabilities
\* it is sent are those of the bytes it is to fetch, which are what the operator
\* accepted, unless the version was deleted while a request that had read it was open.
DesiredIsRegistered ==
    \/ /\ desired = NoPackage \/ desired \in {versions[v] : v \in Versions} \cap artifacts
       /\ task.caps = task.pack
    \/ met \cap {"install", "rollback"} # {}
=============================================================================
