-------------------------- MODULE SkillCatalogProofs --------------------------
(***************************************************************************)
(* The properties of SkillCatalog for any packages and any number of       *)
(* requests at once.                                                       *)
(***************************************************************************)
EXTENDS SkillCatalog, TLAPS

Req ==
    {Idle} \cup [kind : {"again"}, pack : Packages] \cup [kind : {"install"}, pack : PackOrNone]
    \cup [kind : {"delete"}, ver : Versions] \cup [kind : {"rollback"}, known : SUBSET Packages]

\* A version names the package that was registered under it.
TypeOK ==
    /\ versions \in [Versions -> PackOrNone]
    /\ \A v \in Versions : versions[v] # NoPackage => versions[v].ver = v
    /\ artifacts \subseteq Packages
    /\ desired \in PackOrNone
    /\ reqs \in [Requests -> Req]

\* Whatever is open together with a delete is in met.
DeletesAreMet == "delete" \in OpenKinds(reqs) => OpenKinds(reqs) \subseteq met

\* A package is registered still, unless requests of a kind met a delete.
Stays(p, kind) == versions[p.ver] = p \/ kind \in met
Lapsed == met \cap {"install", "rollback"} # {}

\* What the requests have read holds until a delete comes in between.
ReadsHold ==
    \A r \in Requests :
        /\ reqs[r].kind = "again" => Stays(reqs[r].pack, "again")
        /\ reqs[r].kind = "install" => reqs[r].pack = NoPackage \/ Stays(reqs[r].pack, "install")
        /\ reqs[r].kind = "rollback" => \A p \in reqs[r].known : Stays(p, "rollback")
        /\ reqs[r].kind = "delete" => reqs[r].ver # desired.ver \/ Lapsed

\* So do the desired version and the set the node works on.
WantedHolds ==
    \/ /\ desired = NoPackage \/ versions[desired.ver] = desired
       /\ task.caps = task.pack
    \/ Lapsed

CInv ==
    /\ TypeOK /\ DeletesAreMet /\ ReadsHold /\ WantedHolds
    /\ VersionsHaveBytes /\ OrphanHasCause

LEMMA PackageTypes ==
    /\ NoPackage \notin Packages /\ NoPackage.ver \notin Versions
    /\ \A p \in Packages : p.ver \in Versions
BY CatalogAssumption DEF NoPackage, Versions, None

\* Goto changes one request, and takes down what a delete meets.
LEMMA GotoMeets ==
    ASSUME TypeOK, DeletesAreMet, NEW r \in Requests, NEW state \in Req, Goto(r, state)
    PROVE  /\ reqs' \in [Requests -> Req]
           /\ reqs'[r] = state /\ \A q \in Requests \ {r} : reqs'[q] = reqs[q]
           /\ DeletesAreMet' /\ met \subseteq met'
BY DEF TypeOK, Goto, DeletesAreMet

\* A request that is open together with a delete is in met.
LEMMA OpenIsMet ==
    ASSUME DeletesAreMet, NEW r \in Requests, NEW q \in Requests,
           reqs[q].kind = "delete", reqs[r].kind # "idle"
    PROVE  reqs[r].kind \in met
BY DEF DeletesAreMet, OpenKinds

LEMMA InitC == Init => CInv
BY PackageTypes DEF Init, CInv, TypeOK, DeletesAreMet, ReadsHold, WantedHolds, VersionsHaveBytes,
    OrphanHasCause, Registered, OpenKinds, NoTask, NoPackage, PackOrNone, Idle, Req

\* persist writes a version and its bytes at once, while no delete is open.
LEMMA RegisterKeeps ==
    ASSUME CInv, NEW p \in Packages, Register(p) PROVE CInv'
<1> USE PackageTypes DEF CInv, Register
<1>1. TypeOK'
  BY DEF TypeOK, PackOrNone
<1>2. versions'[p.ver] = p /\ \A v \in Versions : versions[v] # NoPackage => versions'[v] = versions[v]
  BY DEF TypeOK
<1>3. \A q \in Packages : \A k : Stays(q, k) => Stays(q, k)'
  BY <1>2 DEF Stays
<1>4. DeletesAreMet' /\ ReadsHold'
  BY <1>3 DEF DeletesAreMet, OpenKinds, ReadsHold, Lapsed, TypeOK, Req, PackOrNone, Idle
<1>5. WantedHolds'
  BY <1>2 DEF WantedHolds, Lapsed, TypeOK, PackOrNone
<1>6. VersionsHaveBytes'
  <2>1. \A v \in Versions : versions'[v] = IF v = p.ver THEN p ELSE versions[v]
    BY DEF TypeOK
  <2> QED BY <2>1 DEF VersionsHaveBytes, Registered
<1>7. OrphanHasCause'
  <2>1. \A v \in Versions : versions[v] \in artifacts => versions'[v] = versions[v]
    BY <1>2 DEF TypeOK
  <2> QED BY <1>2, <2>1 DEF OrphanHasCause
<1> QED BY <1>1, <1>4, <1>5, <1>6, <1>7

\* The same bytes again are bytes of a registered version.
LEMMA AgainKeeps ==
    ASSUME CInv, NEW r \in Requests, NEW p \in Packages, Again(r, p) PROVE CInv'
<1> USE PackageTypes DEF CInv
<1> DEFINE state == [kind |-> "again", pack |-> p]
<1>1. state \in Req /\ Goto(r, state)
  BY DEF Again, Req
<1>2. /\ reqs' \in [Requests -> Req]
      /\ reqs'[r] = state /\ \A q \in Requests \ {r} : reqs'[q] = reqs[q]
      /\ DeletesAreMet' /\ met \subseteq met'
  BY <1>1, GotoMeets
<1> HIDE DEF state
<1>3. UNCHANGED <<versions, artifacts, desired, task>> /\ versions[p.ver] = p
  BY DEF Again, tables
<1>4. TypeOK' /\ VersionsHaveBytes'
  BY <1>2, <1>3 DEF TypeOK, VersionsHaveBytes, Registered
<1>5. ReadsHold'
  BY <1>2, <1>3 DEF ReadsHold, Stays, Lapsed, state
<1>6. WantedHolds' /\ OrphanHasCause'
  BY <1>2, <1>3 DEF WantedHolds, Lapsed, OrphanHasCause
<1> QED BY <1>2, <1>4, <1>5, <1>6

\* ensure_artifact stores the bytes of what was a version when it was read.
LEMMA EnsureKeeps ==
    ASSUME CInv, NEW r \in Requests, EnsureArtifact(r) PROVE CInv'
<1> USE PackageTypes DEF CInv
<1>1. Goto(r, Idle) /\ Idle \in Req /\ reqs[r].kind = "again"
  BY DEF EnsureArtifact, Req
<1>2. /\ reqs' \in [Requests -> Req]
      /\ reqs'[r] = Idle /\ \A q \in Requests \ {r} : reqs'[q] = reqs[q]
      /\ DeletesAreMet' /\ met \subseteq met'
  BY <1>1, GotoMeets
<1>3. reqs[r].pack \in Packages
  BY <1>1 DEF TypeOK, Req, Idle
<1>4. UNCHANGED <<versions, desired, task>> /\ artifacts' = artifacts \cup {reqs[r].pack}
  BY DEF EnsureArtifact
<1>5. TypeOK' /\ VersionsHaveBytes' /\ WantedHolds'
  BY <1>2, <1>3, <1>4 DEF TypeOK, VersionsHaveBytes, Registered, WantedHolds, Lapsed
<1>6. ReadsHold'
  BY <1>2, <1>4 DEF ReadsHold, Stays, Lapsed, Idle
<1>7. versions[reqs[r].pack.ver] = reqs[r].pack \/ "again" \in met
  BY <1>1 DEF ReadsHold, Stays
<1>8. OrphanHasCause'
  BY <1>2, <1>3, <1>4, <1>7 DEF OrphanHasCause
<1> QED BY <1>2, <1>5, <1>6, <1>8

\* A delete begins when nothing it sees uses the version.
LEMMA DeleteCheckKeeps ==
    ASSUME CInv, NEW r \in Requests, NEW v \in Versions, DeleteCheck(r, v) PROVE CInv'
<1> USE PackageTypes DEF CInv
<1> DEFINE state == [kind |-> "delete", ver |-> v]
<1>1. state \in Req /\ Goto(r, state)
  BY DEF DeleteCheck, Req
<1>2. /\ reqs' \in [Requests -> Req]
      /\ reqs'[r] = state /\ \A q \in Requests \ {r} : reqs'[q] = reqs[q]
      /\ DeletesAreMet' /\ met \subseteq met'
  BY <1>1, GotoMeets
<1> HIDE DEF state
<1>3. UNCHANGED <<versions, artifacts, desired, task>> /\ v # desired.ver
  BY DEF DeleteCheck, InUse, tables
<1>4. TypeOK' /\ VersionsHaveBytes' /\ WantedHolds' /\ OrphanHasCause'
  BY <1>2, <1>3 DEF TypeOK, VersionsHaveBytes, Registered, WantedHolds, Lapsed, OrphanHasCause
<1>5. ReadsHold'
  BY <1>2, <1>3 DEF ReadsHold, Stays, Lapsed, state
<1> QED BY <1>2, <1>4, <1>5

\* It takes the bytes of its version along, which are those of no other one, and
\* what others have read of it they had read while it was open.
LEMMA DeleteKeeps ==
    ASSUME CInv, NEW r \in Requests, DeleteCommit(r) PROVE CInv'
<1> USE PackageTypes DEF CInv
<1> DEFINE v == reqs[r].ver
<1>1. Goto(r, Idle) /\ Idle \in Req /\ reqs[r].kind = "delete" /\ v \in Versions
  BY DEF DeleteCommit, TypeOK, Req, Idle
<1>2. /\ reqs' \in [Requests -> Req]
      /\ reqs'[r] = Idle /\ \A q \in Requests \ {r} : reqs'[q] = reqs[q]
      /\ DeletesAreMet' /\ met \subseteq met'
  BY <1>1, GotoMeets
<1>3. /\ versions' = [versions EXCEPT ![v] = NoPackage]
      /\ artifacts' = artifacts \ {versions[v]} /\ UNCHANGED <<desired, task>>
  BY DEF DeleteCommit
<1>4. v # desired.ver \/ Lapsed
  BY <1>1 DEF ReadsHold
<1> HIDE DEF v
<1>5. TypeOK'
  BY <1>1, <1>2, <1>3 DEF TypeOK, PackOrNone
<1>6. VersionsHaveBytes' /\ OrphanHasCause'
  BY <1>1, <1>2, <1>3 DEF VersionsHaveBytes, OrphanHasCause, Registered, TypeOK, PackOrNone
<1>7. WantedHolds'
  BY <1>1, <1>2, <1>3, <1>4 DEF WantedHolds, Lapsed, TypeOK
<1>8. \A q \in Requests \ {r} : reqs[q].kind # "idle" => reqs[q].kind \in met'
  BY <1>1, <1>2, OpenIsMet
<1>9. ReadsHold'
  BY <1>1, <1>2, <1>3, <1>8 DEF ReadsHold, Stays, Lapsed, Idle
<1> QED BY <1>2, <1>5, <1>6, <1>7, <1>9

\* install and install_bundle read what is registered.
LEMMA PlanKeeps ==
    ASSUME CInv, NEW r \in Requests, NEW v \in Versions, Plan(r, v) PROVE CInv'
<1> USE PackageTypes DEF CInv
<1> DEFINE state == [kind |-> "install", pack |-> versions[v]]
<1>1. state \in Req /\ Goto(r, state)
  BY DEF Plan, Req, TypeOK
<1>2. /\ reqs' \in [Requests -> Req]
      /\ reqs'[r] = state /\ \A q \in Requests \ {r} : reqs'[q] = reqs[q]
      /\ DeletesAreMet' /\ met \subseteq met'
  BY <1>1, GotoMeets
<1> HIDE DEF state
<1>3. UNCHANGED <<versions, artifacts, desired, task>>
  BY DEF Plan, tables
<1>4. TypeOK' /\ VersionsHaveBytes' /\ WantedHolds' /\ OrphanHasCause'
  BY <1>2, <1>3 DEF TypeOK, VersionsHaveBytes, Registered, WantedHolds, Lapsed, OrphanHasCause
<1>5. ReadsHold'
  BY <1>2, <1>3 DEF ReadsHold, Stays, Lapsed, TypeOK, state
<1> QED BY <1>2, <1>4, <1>5

\* rollback reads all that is registered.
LEMMA PlanRollbackKeeps ==
    ASSUME CInv, NEW r \in Requests, PlanRollback(r) PROVE CInv'
<1> USE PackageTypes DEF CInv
<1> DEFINE known == {versions[v] : v \in Registered}
           state == [kind |-> "rollback", known |-> known]
<1>1. \A p \in known : p \in Packages /\ versions[p.ver] = p
  BY DEF Registered, TypeOK, PackOrNone
<1>2. state \in Req /\ Goto(r, state)
  BY <1>1 DEF PlanRollback, Req
<1>3. /\ reqs' \in [Requests -> Req]
      /\ reqs'[r] = state /\ \A q \in Requests \ {r} : reqs'[q] = reqs[q]
      /\ DeletesAreMet' /\ met \subseteq met'
  BY <1>2, GotoMeets
<1>4. state.kind = "rollback" /\ state.known = known
  OBVIOUS
<1> HIDE DEF state, known
<1>5. UNCHANGED <<versions, artifacts, desired, task>>
  BY DEF PlanRollback, tables
<1>6. TypeOK' /\ VersionsHaveBytes' /\ WantedHolds' /\ OrphanHasCause'
  BY <1>3, <1>5 DEF TypeOK, VersionsHaveBytes, Registered, WantedHolds, Lapsed, OrphanHasCause
<1>7. ReadsHold'
  BY <1>1, <1>3, <1>4, <1>5 DEF ReadsHold, Stays, Lapsed
<1> QED BY <1>3, <1>6, <1>7

\* A request that chose before a delete writes what it chose.
LEMMA CommitKeeps ==
    ASSUME CInv, NEW r \in Requests, Commit(r) PROVE CInv'
<1> USE PackageTypes DEF CInv
<1> DEFINE kind == reqs[r].kind
<1>1. Goto(r, Idle) /\ Idle \in Req /\ kind \in {"install", "rollback"}
  BY DEF Commit, Req
<1>2. /\ reqs' \in [Requests -> Req]
      /\ reqs'[r] = Idle /\ \A q \in Requests \ {r} : reqs'[q] = reqs[q]
      /\ DeletesAreMet' /\ met \subseteq met'
  BY <1>1, GotoMeets
<1>3. UNCHANGED <<versions, artifacts, task>> /\ (desired' = desired \/ desired' \in Target(reqs[r]))
  BY DEF Commit
<1>4. desired' = desired \/ desired' = NoPackage \/ (desired' \in Packages /\ Stays(desired', kind))
  <2>1. CASE kind = "install"
    BY <1>3, <2>1 DEF Target, TypeOK, Req, PackOrNone, Idle, ReadsHold
  <2>2. CASE kind = "rollback"
    <3>1. reqs[r].known \subseteq Packages
      BY <2>2 DEF TypeOK, Req, Idle
    <3> QED BY <1>3, <2>2, <3>1 DEF Target, Below, ReadsHold
  <2> QED BY <1>1, <2>1, <2>2
<1>5. TypeOK' /\ VersionsHaveBytes' /\ OrphanHasCause'
  BY <1>2, <1>3, <1>4 DEF TypeOK, PackOrNone, VersionsHaveBytes, Registered, OrphanHasCause
<1>6. WantedHolds'
  BY <1>1, <1>2, <1>3, <1>4 DEF WantedHolds, Lapsed, Stays
<1>7. \A q \in Requests \ {r} : reqs[q].kind = "delete" => kind \in met'
  BY <1>1, <1>2, OpenIsMet
<1>8. ReadsHold'
  BY <1>1, <1>2, <1>3, <1>7 DEF ReadsHold, Stays, Lapsed, Idle
<1> QED BY <1>2, <1>5, <1>6, <1>8

\* uninstall, build_desired, the node and bundles read and change no version.
LEMMA OtherKeeps ==
    ASSUME CInv,
           \/ \E req : SetBundle(req)
           \/ Uninstall \/ Send \/ Finish \/ Report \/ UNCHANGED vars
    PROVE  CInv'
<1> USE PackageTypes DEF CInv
<1>1. UNCHANGED <<versions, artifacts, reqs, met>> /\ desired' \in {desired, NoPackage}
  BY DEF SetBundle, Uninstall, Send, Finish, Report, vars, tables
<1>2. TypeOK' /\ VersionsHaveBytes' /\ OrphanHasCause'
  BY <1>1 DEF TypeOK, PackOrNone, VersionsHaveBytes, Registered, OrphanHasCause
<1>3. DeletesAreMet'
  BY <1>1 DEF DeletesAreMet, OpenKinds
<1>4. ReadsHold'
  BY <1>1 DEF ReadsHold, Stays, Lapsed, TypeOK, Req, Idle
<1>5. WantedHolds'
  <2>1. CASE Send
    BY <1>1, <2>1 DEF Send, NoTask, WantedHolds, Lapsed, tables
  <2>2. CASE ~Send
    BY <1>1, <2>2 DEF SetBundle, Uninstall, Finish, Report, vars, tables, NoTask, WantedHolds, Lapsed
  <2> QED BY <2>1, <2>2
<1> QED BY <1>2, <1>3, <1>4, <1>5

LEMMA NextC == CInv /\ [Next]_vars => CInv'
BY RegisterKeeps, AgainKeeps, EnsureKeeps, DeleteCheckKeeps, DeleteKeeps, PlanKeeps,
   PlanRollbackKeeps, CommitKeeps, OtherKeeps DEF Next

LEMMA Catalog == Spec => []CInv
BY InitC, NextC, PTL DEF Spec

\* A registered version always has its bytes, however many uploads, deletes and
\* repeated uploads of skill_catalog.rs overlap.
THEOREM BytesStay == Spec => []VersionsHaveBytes
<1>1. CInv => VersionsHaveBytes
  BY DEF CInv
<1> QED BY <1>1, Catalog, PTL

\* delete_version leaves bytes behind only next to an upload of the same ones.
THEOREM OrphansHaveCause == Spec => []OrphanHasCause
<1>1. CInv => OrphanHasCause
  BY DEF CInv
<1> QED BY <1>1, Catalog, PTL

\* persist of skill_desired.rs makes a node run only what is registered, unless it
\* was deleted while an install or a rollback that had read it was open.
THEOREM DesiredStays == Spec => []DesiredIsRegistered
<1>1. CInv => DesiredIsRegistered
  BY PackageTypes DEF CInv, DesiredIsRegistered, WantedHolds, Lapsed, VersionsHaveBytes, Registered,
     TypeOK, PackOrNone
<1> QED BY <1>1, Catalog, PTL
=============================================================================
