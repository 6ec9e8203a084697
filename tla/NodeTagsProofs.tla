---------------------------- MODULE NodeTagsProofs ----------------------------
(***************************************************************************)
(* The properties of NodeTags for any nodes, requests, targets and limit.  *)
(***************************************************************************)
EXTENDS NodeTags, FiniteSetTheorems, TLAPS

Rows == [center : [Keys -> Values \cup {None}],
         declared : [value : Values \cup {None}, valid : BOOLEAN]]
Asked == [Keys -> Values \cup {"remove", "keep"}]
Views == [Nodes -> UNION {[keys -> Values \cup {None}] : keys \in SUBSET Keys}]
Reasons == SUBSET {"effective", "invalid"}
Shown == {[target EXCEPT !.expected = e] : target \in Targets, e \in SUBSET SUBSET Nodes}

Req ==
    {Idle}
    \cup [kind : {"set"}, ids : {{n} : n \in Nodes}, key : Keys, edit : Asked,
          expect : {"any", "dev"}, count : Nat, stale : BOOLEAN]
    \cup [kind : {"bulk"}, ids : SUBSET Nodes, edit : Asked, count : Nat, locked : SUBSET Nodes,
          snap : {None} \cup [Nodes -> Rows], stale : BOOLEAN]
    \cup [kind : {"shown"}, target : Shown, count : Nat]
    \cup [kind : {"read"}, target : Shown, count : Nat, view : Views, why : [Nodes -> Reasons]]
    \cup [kind : {"ready"}, nodes : SUBSET Nodes, prod : SUBSET Nodes, count : Nat, why : [Nodes -> Reasons]]

TypeOK ==
    /\ labels \in [Nodes -> Labels]
    /\ rows \in [Nodes -> Rows]
    /\ reqs \in [Requests -> Req]

\* The center serves requests once the backfill is done.
FilledFirst == (\E r \in Requests : reqs[r].kind # "idle") => filled = Nodes

\* A bulk request has locked the first of its nodes, and sees those as they are
\* unless its snapshot was stale when it came to one.
BulkFits(q, now) ==
    q.kind = "bulk" =>
        /\ q.locked \subseteq q.ids /\ q.ids # {}
        /\ \A n \in q.locked, m \in q.ids \ q.locked : n < m
        /\ q.locked # {} => q.snap \in [Nodes -> Rows]
        /\ q.stale \/ \A n \in q.locked : q.snap[n] = now[n]

BulksFit == \A r \in Requests : BulkFits(reqs[r], rows)

LocksApart ==
    \A r, q \in Requests :
        r # q /\ reqs[r].kind = "bulk" /\ reqs[q].kind = "bulk" => reqs[r].locked \cap reqs[q].locked = {}

\* A reason that has held ever since is in the view, or still to be read.
CheckFits(q, now) ==
    /\ q.kind = "read" =>
           \A n \in Nodes : q.why[n] \subseteq Why(now[n]) /\ ("effective" \in q.why[n] => IsProd(q.view[n]))
    /\ q.kind = "ready" => {n \in q.nodes : q.why[n] # {}} \subseteq q.prod

ChecksFit == \A r \in Requests : CheckFits(reqs[r], rows)

NInv == TypeOK /\ FilledFirst /\ BulksFit /\ LocksApart /\ ChecksFit

LEMMA InitN == Init => NInv
<1> SUFFICES ASSUME Init PROVE NInv
  OBVIOUS
<1>1. labels \in [Nodes -> Labels]
  BY TagsAssumption DEF Init
<1>2. [center |-> [k \in Keys |-> None], declared |-> Absent] \in Rows
  BY DEF Rows, Absent, Declared, None
<1>3. rows \in [Nodes -> Rows]
  BY <1>2 DEF Init
<1>4. \A r \in Requests : reqs[r].kind = "idle"
  BY DEF Init, Idle
<1>5. reqs \in [Requests -> Req]
  BY DEF Init, Req
<1> QED BY <1>1, <1>3, <1>4, <1>5
    DEF NInv, TypeOK, FilledFirst, BulksFit, LocksApart, ChecksFit, BulkFits, CheckFits

-----------------------------------------------------------------------------
\* What the rows of a node mean
LEMMA DeclaredType == ASSUME NEW label \in Labels PROVE Declared(label) \in [value : Values \cup {None}, valid : BOOLEAN]
BY DEF Declared, Labels, Values, None

\* The view of effective tags has env = prod whenever that is the node's effective env.
LEMMA ViewShows ==
    ASSUME NEW row \in Rows, EffectiveOf(row) = "prod"
    PROVE  IsProd(EffectiveView(row))
<1> DEFINE own == {k \in Keys : row.center[k] # None}
           declared == IF row.declared.valid /\ row.declared.value # None THEN {"env"} ELSE {}
<1>1. CASE row.center["env"] # None
  <2>1. "env" \in own /\ row.center["env"] = "prod"
    BY <1>1 DEF EffectiveOf, Keys
  <2> QED BY <2>1 DEF EffectiveView, IsProd
<1>2. CASE row.center["env"] = None
  <2>1. "env" \notin own /\ "env" \in declared /\ row.declared.value = "prod"
    BY <1>2 DEF EffectiveOf, None
  <2> QED BY <2>1 DEF EffectiveView, IsProd
<1> QED BY <1>1, <1>2

LEMMA ViewType == ASSUME TypeOK PROVE View \in Views
<1> SUFFICES ASSUME NEW n \in Nodes
             PROVE EffectiveView(rows[n]) \in UNION {[keys -> Values \cup {None}] : keys \in SUBSET Keys}
  BY DEF View, Views
<1> DEFINE row == rows[n]
           own == {k \in Keys : row.center[k] # None}
           declared == IF row.declared.valid /\ row.declared.value # None THEN {"env"} ELSE {}
<1>1. row \in Rows
  BY DEF TypeOK
<1>2. own \cup declared \in SUBSET Keys
  BY DEF Keys
<1>3. EffectiveView(row) \in [own \cup declared -> Values \cup {None}]
  BY <1>1, <1>2 DEF EffectiveView, Rows
<1> QED BY <1>2, <1>3

LEMMA PlanType ==
    ASSUME NEW row, NEW edit \in Asked
    PROVE  Plan(row, edit) \in [Keys -> Values \cup {None, "keep"}]
<1> DEFINE freed == {k \in CenterKeys(row) : edit[k] = "remove"}
           added == {k \in Keys \ CenterKeys(row) : edit[k] \in Values}
           room(k) == Cardinality(CenterKeys(row) \ freed) + Cardinality(added \cap Before(k)) < MaxCenter
<1>1. \A k \in Keys : Plan(row, edit)[k] =
          CASE k \in freed -> None
            [] k \in added /\ room(k) -> edit[k]
            [] k \in CenterKeys(row) /\ edit[k] \in Values -> edit[k]
            [] OTHER -> "keep"
  BY DEF Plan
<1> HIDE DEF freed, room
<1>2. \A k \in Keys : Plan(row, edit)[k] \in Values \cup {None, "keep"}
  BY <1>1
<1>3. Plan(row, edit) = [k \in Keys |-> Plan(row, edit)[k]]
  BY DEF Plan
<1> QED BY <1>2, <1>3

LEMMA AppliedType ==
    ASSUME NEW row \in Rows, NEW plan \in [Keys -> Values \cup {None, "keep"}]
    PROVE  Applied(row, plan) \in Rows
<1> DEFINE center == [k \in Keys |-> IF plan[k] = "keep" THEN row.center[k] ELSE plan[k]]
<1>1. center \in [Keys -> Values \cup {None}]
  BY DEF Rows
<1>2. Applied(row, plan) = [row EXCEPT !.center = center]
  BY DEF Applied
<1> HIDE DEF center
<1> QED BY <1>1, <1>2 DEF Rows

-----------------------------------------------------------------------------
\* Requests that read, check or lock
LEMMA GoesOn ==
    ASSUME NInv, NEW r \in Requests, NEW state \in Req, reqs' = [reqs EXCEPT ![r] = state],
           UNCHANGED <<labels, rows, filled>>, filled = Nodes,
           BulkFits(state, rows), CheckFits(state, rows),
           state.kind = "bulk" =>
               \A q \in Requests \ {r} : reqs[q].kind = "bulk" => state.locked \cap reqs[q].locked = {}
    PROVE  NInv'
<1> USE DEF NInv
<1>1. reqs'[r] = state /\ \A q \in Requests \ {r} : reqs'[q] = reqs[q]
  BY DEF TypeOK
<1>2. TypeOK' /\ FilledFirst'
  BY DEF TypeOK, FilledFirst
<1>3. BulksFit'
  <2> SUFFICES ASSUME NEW q \in Requests PROVE BulkFits(reqs'[q], rows)
    BY DEF BulksFit
  <2> QED BY <1>1 DEF BulksFit
<1>4. ChecksFit'
  <2> SUFFICES ASSUME NEW q \in Requests PROVE CheckFits(reqs'[q], rows)
    BY DEF ChecksFit
  <2> QED BY <1>1 DEF ChecksFit
<1>5. LocksApart'
  BY <1>1 DEF LocksApart
<1> QED BY <1>2, <1>3, <1>4, <1>5

-----------------------------------------------------------------------------
\* Writes of rows: what checks remember of a reason is dropped with the reason
LEMMA TrackedFields ==
    ASSUME NEW q \in Req, NEW new \in [Nodes -> Rows]
    PROVE  /\ Tracked(q, new) \in Req
           /\ q.kind \notin {"read", "ready"} => Tracked(q, new) = q
           /\ q.kind \in {"read", "ready"} =>
                 /\ Tracked(q, new).kind = q.kind
                 /\ \A n \in Nodes : Tracked(q, new).why[n] = q.why[n] \cap Why(new[n])
           /\ q.kind = "read" => Tracked(q, new).view = q.view
           /\ q.kind = "ready" => Tracked(q, new).nodes = q.nodes /\ Tracked(q, new).prod = q.prod
<1> DEFINE why == [n \in Nodes |-> q.why[n] \cap Why(new[n])]
<1>1. CASE q.kind \in {"read", "ready"}
  <2>1. why \in [Nodes -> Reasons] /\ \A n \in Nodes : why[n] = q.why[n] \cap Why(new[n])
    BY <1>1 DEF Req, Reasons, Idle
  <2>2. "why" \in DOMAIN q
    BY <1>1 DEF Req, Idle
  <2>3. Tracked(q, new) = [q EXCEPT !.why = why]
    BY <2>2 DEF Tracked
  <2> HIDE DEF why
  <2>4. CASE q.kind = "read"
    <3>1. q \in [kind : {"read"}, target : Shown, count : Nat, view : Views, why : [Nodes -> Reasons]]
      BY <2>4 DEF Req, Idle
    <3> QED BY <2>1, <2>3, <2>4, <3>1 DEF Req
  <2>5. CASE q.kind = "ready"
    <3>1. q \in [kind : {"ready"}, nodes : SUBSET Nodes, prod : SUBSET Nodes, count : Nat,
                 why : [Nodes -> Reasons]]
      BY <2>5 DEF Req, Idle
    <3> QED BY <2>1, <2>3, <2>5, <3>1 DEF Req
  <2> QED BY <1>1, <2>4, <2>5
<1>2. CASE q.kind \notin {"read", "ready"}
  <2>1. "why" \notin DOMAIN q
    BY <1>2 DEF Req, Idle
  <2> QED BY <1>2, <2>1 DEF Tracked
<1> QED BY <1>1, <1>2

\* A write of some nodes by requests that end, none of them locked by another.
LEMMA Writes ==
    ASSUME NInv, NEW new \in [Nodes -> Rows], NEW states \in [Requests -> Req], Write(new, states),
           filled = Nodes, UNCHANGED filled, labels' \in [Nodes -> Labels],
           \A q \in Requests : states[q] = reqs[q] \/ states[q].kind = "idle",
           \A q \in Requests : states[q].kind = "bulk" => \A n \in states[q].locked : new[n] = rows[n]
    PROVE  NInv'
<1> USE DEF NInv
<1>1. rows' = new /\ \A q \in Requests : reqs'[q] = Tracked(states[q], new)
  BY DEF Write
<1>2. \A q \in Requests : states[q] \in Req
  OBVIOUS
<1>3. reqs' \in [Requests -> Req]
  <2>1. reqs' = [q \in Requests |-> Tracked(states[q], new)]
    BY DEF Write
  <2>2. \A q \in Requests : Tracked(states[q], new) \in Req
    BY <1>2, TrackedFields
  <2> QED BY <2>1, <2>2
<1>4. TypeOK' /\ FilledFirst'
  BY <1>1, <1>3 DEF TypeOK, FilledFirst
<1>5. \A q \in Requests : reqs'[q].kind = "bulk" => reqs'[q] = states[q] /\ reqs[q] = states[q]
  BY <1>1, <1>2, TrackedFields
<1>6. BulksFit'
  <2> SUFFICES ASSUME NEW q \in Requests, reqs'[q].kind = "bulk" PROVE BulkFits(reqs'[q], new)
    BY <1>1 DEF BulksFit, BulkFits
  <2>1. reqs'[q] = reqs[q] /\ BulkFits(reqs[q], rows) /\ \A n \in reqs[q].locked : new[n] = rows[n]
    BY <1>5 DEF BulksFit
  <2> QED BY <2>1 DEF BulkFits
<1>7. LocksApart'
  BY <1>5 DEF LocksApart
<1>8. ChecksFit'
  <2> SUFFICES ASSUME NEW q \in Requests, reqs'[q].kind \in {"read", "ready"}
               PROVE CheckFits(reqs'[q], new)
    BY <1>1 DEF ChecksFit, CheckFits
  <2>1. states[q].kind \in {"read", "ready"} /\ states[q] = reqs[q]
    BY <1>1, <1>2, TrackedFields
  <2>2. reqs[q] \in Req /\ reqs[q].kind \in {"read", "ready"} /\ CheckFits(reqs[q], rows)
        /\ reqs'[q] = Tracked(reqs[q], new)
    BY <1>1, <1>2, <2>1 DEF ChecksFit
  <2>3. CASE reqs[q].kind = "read"
    BY <2>2, <2>3, TrackedFields DEF CheckFits
  <2>4. CASE reqs[q].kind = "ready"
    <3>1. \A n \in reqs[q].nodes : n \in Nodes
      BY <2>2, <2>4 DEF Req, Idle
    <3> QED BY <2>2, <2>4, <3>1, TrackedFields DEF CheckFits
  <2> QED BY <2>2, <2>3, <2>4
<1> QED BY <1>4, <1>6, <1>7, <1>8

-----------------------------------------------------------------------------
\* Nodes
LEMMA BackfillInv == ASSUME NInv, NEW n \in Nodes, Backfill(n) PROVE NInv'
<1> USE DEF NInv
<1>1. \A r \in Requests : reqs[r].kind = "idle"
  BY DEF Backfill, FilledFirst
<1>2. rows' \in [Nodes -> Rows]
  <2>1. labels[n] \in Labels /\ rows \in [Nodes -> Rows]
    BY DEF TypeOK
  <2>2. Declared(labels[n]) \in [value : Values \cup {None}, valid : BOOLEAN]
    BY <2>1, DeclaredType
  <2> QED BY <2>1, <2>2 DEF Backfill, Rows
<1> QED BY <1>1, <1>2
    DEF Backfill, TypeOK, FilledFirst, BulksFit, BulkFits, LocksApart, ChecksFit, CheckFits

LEMMA RegisterInv == ASSUME NInv, NEW n \in Nodes, NEW label \in Labels, Register(n, label) PROVE NInv'
<1> DEFINE new == [rows EXCEPT ![n].declared = Declared(label)]
<1>1. rows \in [Nodes -> Rows] /\ reqs \in [Requests -> Req] /\ labels \in [Nodes -> Labels]
  BY DEF NInv, TypeOK
<1>2. new \in [Nodes -> Rows] /\ \A m \in Nodes \ {n} : new[m] = rows[m]
  BY <1>1, DeclaredType DEF Rows
<1>3. /\ Write(new, reqs) /\ filled = Nodes /\ UNCHANGED filled /\ labels' \in [Nodes -> Labels]
      /\ n \notin Locked
  BY <1>1 DEF Register, Ready
<1>4. \A q \in Requests : reqs[q].kind = "bulk" => n \notin reqs[q].locked /\ reqs[q].locked \subseteq Nodes
  BY <1>1, <1>3 DEF Locked, Req, Idle
<1> HIDE DEF new
<1> QED BY <1>1, <1>2, <1>3, <1>4, Writes

-----------------------------------------------------------------------------
\* Requests
LEMMA CountsAreNat == ASSUME NEW S \in SUBSET Nodes PROVE Cardinality(S) \in Nat
BY TagsAssumption, FS_Subset, FS_CardinalityType

LEMMA SetRequestInv ==
    ASSUME NInv, NEW r \in Requests, NEW n \in Nodes, NEW k \in Keys, NEW value \in Values \cup {"remove"},
           NEW expect \in {"any", "dev"}, NEW count \in {0, 1}, SetRequest(r, n, k, value, expect, count)
    PROVE  NInv'
<1> DEFINE edit == [Edit("keep", "keep") EXCEPT ![k] = value]
           state == [kind |-> "set", ids |-> {n}, key |-> k, edit |-> edit,
                     expect |-> expect, count |-> count, stale |-> FALSE]
<1>1. edit \in Asked
  BY DEF Edit, Asked, Keys
<1> HIDE DEF edit
<1>2. state \in Req /\ state.kind = "set"
  BY <1>1 DEF Req
<1>3. reqs' = [reqs EXCEPT ![r] = state] /\ UNCHANGED <<labels, rows, filled>> /\ filled = Nodes
  BY DEF SetRequest, Begin, Ready, edit
<1> HIDE DEF state
<1>4. BulkFits(state, rows) /\ CheckFits(state, rows)
  BY <1>2 DEF BulkFits, CheckFits
<1> QED BY <1>2, <1>3, <1>4, GoesOn

LEMMA BulkRequestInv ==
    ASSUME NInv, NEW r \in Requests, NEW ids \in Bulks, NEW edit \in Edits, NEW count \in Counts,
           BulkRequest(r, ids, edit, count)
    PROVE  NInv'
<1> DEFINE state == [kind |-> "bulk", ids |-> ids, edit |-> edit, count |-> count,
                     locked |-> {}, snap |-> None, stale |-> FALSE]
<1>1. edit \in Asked
  BY DEF Edits, Edit, Asked, Keys, Values
<1>2. count \in Nat /\ ids \subseteq Nodes /\ ids # {}
  BY TagsAssumption, CountsAreNat DEF Counts
<1>3. state \in Req /\ state.kind = "bulk" /\ state.locked = {} /\ state.ids = ids
  BY <1>1, <1>2 DEF Req
<1>4. reqs' = [reqs EXCEPT ![r] = state] /\ UNCHANGED <<labels, rows, filled>> /\ filled = Nodes
  BY DEF BulkRequest, Begin, Ready
<1> HIDE DEF state
<1>5. BulkFits(state, rows) /\ CheckFits(state, rows)
  BY <1>2, <1>3 DEF BulkFits, CheckFits
<1> QED BY <1>3, <1>4, <1>5, GoesOn

\* A bulk request takes the next lock, and with the first one its snapshot.
LEMMA BulkLockInv == ASSUME NInv, NEW r \in Requests, BulkLock(r) PROVE NInv'
<1> DEFINE q == reqs[r]
<1>1. PICK n \in NextLocks(q) :
          /\ n \notin Locked
          /\ LET snap == IF q.locked = {} THEN rows ELSE q.snap IN
             Step(r, [q EXCEPT !.locked = @ \cup {n}, !.snap = snap, !.stale = @ \/ snap[n] # rows[n]])
  BY DEF BulkLock
<1> DEFINE snap == IF q.locked = {} THEN rows ELSE q.snap
           state == [q EXCEPT !.locked = @ \cup {n}, !.snap = snap, !.stale = @ \/ snap[n] # rows[n]]
<1>2. /\ rows \in [Nodes -> Rows] /\ q.kind = "bulk" /\ BulkFits(q, rows) /\ filled = Nodes
      /\ q \in [kind : {"bulk"}, ids : SUBSET Nodes, edit : Asked, count : Nat, locked : SUBSET Nodes,
                snap : {None} \cup [Nodes -> Rows], stale : BOOLEAN]
  <2>1. reqs[r] \in Req /\ q.kind = "bulk"
    BY DEF NInv, TypeOK, BulkLock
  <2> QED BY <2>1 DEF NInv, TypeOK, BulkLock, BulksFit, FilledFirst, Req, Idle
<1>3. snap \in [Nodes -> Rows] /\ n \in Nodes
  BY <1>2 DEF BulkFits, NextLocks
<1>4. /\ state.kind = "bulk" /\ state.ids = q.ids /\ state.locked = q.locked \cup {n} /\ state.snap = snap
      /\ state.stale = (q.stale \/ snap[n] # rows[n])
      /\ state \in [kind : {"bulk"}, ids : SUBSET Nodes, edit : Asked, count : Nat, locked : SUBSET Nodes,
                    snap : {None} \cup [Nodes -> Rows], stale : BOOLEAN]
  <2>1. (q.stale \/ snap[n] # rows[n]) \in BOOLEAN
    BY <1>2
  <2> HIDE DEF snap, q
  <2> QED BY <1>2, <1>3, <2>1
<1>5. reqs' = [reqs EXCEPT ![r] = state] /\ UNCHANGED <<labels, rows, filled>>
  BY <1>1 DEF Step
<1>6. \A m \in q.ids \ q.locked : n <= m
  BY DEF NextLocks
<1>7. n \in q.ids \ q.locked /\ q.ids \subseteq Nat
  BY <1>2, TagsAssumption DEF NextLocks
<1>8. \A m \in q.locked : snap[m] = rows[m] \/ q.stale
  BY <1>2 DEF BulkFits
<1>9. \A p \in Requests \ {r} : reqs[p].kind = "bulk" => n \notin reqs[p].locked
  BY <1>1 DEF Locked
<1>10. \A p \in Requests \ {r} : reqs[p].kind = "bulk" => reqs[p].locked \cap q.locked = {}
  BY <1>2 DEF NInv, LocksApart
<1> HIDE DEF q, snap, state
<1>11. CheckFits(state, rows)
  BY <1>4 DEF CheckFits
<1>12. BulkFits(state, rows)
  <2>1. \A i \in state.locked, m \in state.ids \ state.locked : i < m
    BY <1>2, <1>4, <1>6, <1>7 DEF BulkFits
  <2>2. state.stale \/ \A i \in state.locked : state.snap[i] = rows[i]
    BY <1>4, <1>8
  <2> QED BY <1>2, <1>3, <1>4, <1>7, <2>1, <2>2 DEF BulkFits
<1>13. state \in Req
  BY <1>4 DEF Req
<1>14. \A p \in Requests \ {r} : reqs[p].kind = "bulk" => state.locked \cap reqs[p].locked = {}
  BY <1>4, <1>9, <1>10
<1> QED BY <1>2, <1>5, <1>11, <1>12, <1>13, <1>14, GoesOn

LEMMA PreviewInv ==
    ASSUME NInv, NEW r \in Requests, NEW target \in Targets, NEW named \in BOOLEAN, Preview(r, target, named)
    PROVE  NInv'
<1> DEFINE nodes == ResolveParsed(target, View)
           seen == IF named THEN {nodes} ELSE {}
           shown == [target EXCEPT !.expected = seen]
           count == Cardinality({n \in nodes : CountsAsProd(rows[n])})
           state == [kind |-> "shown", target |-> shown, count |-> count]
<1>1. nodes \subseteq Nodes
  BY DEF ResolveParsed, View
<1>2. seen \in SUBSET SUBSET Nodes
  BY <1>1
<1>3. count \in Nat
  BY <1>1, CountsAreNat
<1>4. reqs' = [reqs EXCEPT ![r] = state] /\ UNCHANGED <<labels, rows, filled>> /\ filled = Nodes
  BY DEF Preview, Begin, Ready
<1> HIDE DEF seen, count
<1>5. shown \in Shown
  BY <1>2 DEF Shown
<1> HIDE DEF shown
<1>6. state \in Req /\ state.kind = "shown"
  BY <1>3, <1>5 DEF Req
<1> HIDE DEF state
<1>7. BulkFits(state, rows) /\ CheckFits(state, rows)
  BY <1>6 DEF BulkFits, CheckFits
<1> QED BY <1>4, <1>6, <1>7, GoesOn

\* The reasons a check starts with are those that its first read shows.
LEMMA ReadEffectiveInv == ASSUME NInv, NEW r \in Requests, ReadEffective(r) PROVE NInv'
<1> DEFINE q == reqs[r]
           why == [n \in Nodes |-> Why(rows[n])]
           state == [kind |-> "read", target |-> q.target, count |-> q.count, view |-> View, why |-> why]
<1>1. TypeOK /\ q.kind = "shown" /\ filled = Nodes
  BY DEF NInv, ReadEffective, FilledFirst
<1>2. q.target \in Shown /\ q.count \in Nat
  <2>1. q \in Req /\ q.kind = "shown"
    BY <1>1 DEF TypeOK
  <2> QED BY <2>1 DEF Req, Idle
<1>3. why \in [Nodes -> Reasons] /\ \A n \in Nodes : why[n] = Why(rows[n])
  BY DEF Why, Reasons
<1>4. View \in Views /\ \A n \in Nodes : EffectiveOf(rows[n]) = "prod" => IsProd(View[n])
  BY <1>1, ViewType, ViewShows DEF View, TypeOK
<1>5. reqs' = [reqs EXCEPT ![r] = state] /\ UNCHANGED <<labels, rows, filled>>
  BY DEF ReadEffective, Step
<1> HIDE DEF why, q
<1>6. state \in Req /\ state.kind = "read" /\ state.view = View /\ state.why = why
  BY <1>2, <1>3, <1>4 DEF Req
<1> HIDE DEF state
<1>7. BulkFits(state, rows)
  BY <1>6 DEF BulkFits
<1>8. CheckFits(state, rows)
  BY <1>3, <1>4, <1>6 DEF CheckFits, Why
<1> QED BY <1>1, <1>5, <1>6, <1>7, <1>8, GoesOn

\* The second read of a check finds the nodes that are prod by an invalid row.
LEMMA CheckInv == ASSUME NInv, NEW r \in Requests, Check(r) PROVE NInv'
<1> DEFINE q == reqs[r]
           nodes == ResolveParsed(q.target, q.view)
           prod == ProdSeen(nodes, q.view, rows)
           state == [kind |-> "ready", nodes |-> nodes, prod |-> prod, count |-> q.count, why |-> q.why]
<1>1. TypeOK /\ q.kind = "read" /\ filled = Nodes /\ CheckFits(q, rows)
  BY DEF NInv, Check, FilledFirst, ChecksFit
<1>2. q.count \in Nat /\ q.view \in Views /\ q.why \in [Nodes -> Reasons]
  <2>1. q \in Req /\ q.kind = "read"
    BY <1>1 DEF TypeOK
  <2> QED BY <2>1 DEF Req, Idle
<1>3. nodes \subseteq Nodes
  BY <1>2 DEF ResolveParsed, Views
<1>4. prod \subseteq Nodes
  BY <1>3 DEF ProdSeen
<1>5. \A n \in nodes : q.why[n] # {} => n \in prod
  <2> SUFFICES ASSUME NEW n \in nodes, NEW w \in q.why[n] PROVE n \in prod
    OBVIOUS
  <2>1. n \in Nodes /\ w \in Why(rows[n])
    BY <1>1, <1>3 DEF CheckFits
  <2>2. CASE w = "effective"
    BY <1>1, <2>1, <2>2 DEF CheckFits, ProdSeen
  <2>3. CASE w = "invalid"
    BY <2>1, <2>3 DEF Why, ProdSeen
  <2> QED BY <2>1, <2>2, <2>3 DEF Why
<1>6. /\ reqs' = [reqs EXCEPT ![r] = state] \/ reqs' = [reqs EXCEPT ![r] = Idle]
      /\ UNCHANGED <<labels, rows, filled>>
  BY DEF Check, Step
<1> HIDE DEF q, nodes, prod
<1>7. state \in Req /\ state.kind = "ready" /\ state.nodes = nodes /\ state.prod = prod /\ state.why = q.why
  BY <1>2, <1>3, <1>4 DEF Req
<1> HIDE DEF state
<1>8. BulkFits(state, rows) /\ CheckFits(state, rows)
  BY <1>5, <1>7 DEF BulkFits, CheckFits
<1>9. Idle \in Req /\ Idle.kind = "idle" /\ BulkFits(Idle, rows) /\ CheckFits(Idle, rows)
  BY DEF Req, Idle, BulkFits, CheckFits
<1> QED BY <1>1, <1>6, <1>7, <1>8, <1>9, GoesOn

LEMMA SubmitInv == ASSUME NInv, NEW r \in Requests, Submit(r) PROVE NInv'
<1>1. Idle \in Req /\ Idle.kind = "idle" /\ BulkFits(Idle, rows) /\ CheckFits(Idle, rows)
  BY DEF Req, Idle, BulkFits, CheckFits
<1>2. reqs' = [reqs EXCEPT ![r] = Idle] /\ UNCHANGED <<labels, rows, filled>> /\ filled = Nodes
  BY DEF Submit, Step, NInv, FilledFirst
<1> QED BY <1>1, <1>2, GoesOn

\* set_center_tag and delete_center_tag write one node, which nobody has locked, and
\* only if its being prod is confirmed.
LEMMA SetApplyInv ==
    ASSUME NInv, NEW r \in Requests, SetApply(r)
    PROVE  /\ NInv'
           /\ rows' # rows =>
                 Confirmed({n \in reqs[r].ids : CountsAsProd(rows[n]) \/ CountsAsProd(rows[n])'}, reqs[r].count)
<1> DEFINE q == reqs[r]
<1>1. /\ rows \in [Nodes -> Rows] /\ reqs \in [Requests -> Req] /\ labels \in [Nodes -> Labels]
      /\ q.kind = "set" /\ filled = Nodes
  BY DEF NInv, TypeOK, SetApply, FilledFirst
<1>2. q \in [kind : {"set"}, ids : {{n} : n \in Nodes}, key : Keys, edit : Asked,
             expect : {"any", "dev"}, count : Nat, stale : BOOLEAN]
  BY <1>1 DEF Req, Idle
<1>3. PICK n \in Nodes : q.ids = {n}
  BY <1>2
<1>4. (CHOOSE m \in q.ids : TRUE) = n
  BY <1>3
<1> DEFINE plan == Plan(rows[n], q.edit)
           prod == {m \in {n} : SetTouches(rows[n], plan)}
           done == (q.expect = "any" \/ rows[n].center[q.key] = q.expect) /\ Confirmed(prod, q.count)
           new == IF done THEN [rows EXCEPT ![n] = Applied(rows[n], plan)] ELSE rows
           states == [reqs EXCEPT ![r] = Idle]
<1>5. n \notin Locked /\ Write(new, states) /\ UNCHANGED <<labels, filled>>
  BY <1>3, <1>4 DEF SetApply
<1>6. Applied(rows[n], plan) \in Rows
  BY <1>1, <1>2, PlanType, AppliedType
<1>7. new \in [Nodes -> Rows] /\ \A m \in Nodes \ {n} : new[m] = rows[m]
  BY <1>1, <1>6
<1>8. /\ states \in [Requests -> Req] /\ states[r].kind = "idle"
      /\ \A p \in Requests \ {r} : states[p] = reqs[p]
  BY <1>1 DEF Req, Idle
<1>9. \A p \in Requests : reqs[p].kind = "bulk" => n \notin reqs[p].locked /\ reqs[p].locked \subseteq Nodes
  BY <1>1, <1>5 DEF Locked, Req, Idle
<1>10. NInv'
  <2> HIDE DEF new, states, q
  <2>1. \A p \in Requests : states[p] = reqs[p] \/ states[p].kind = "idle"
    BY <1>8
  <2>2. \A p \in Requests : states[p].kind = "bulk" => \A m \in states[p].locked : new[m] = rows[m]
    BY <1>7, <1>8, <1>9
  <2> QED BY <1>1, <1>5, <1>7, <1>8, <2>1, <2>2, Writes
<1>11. ASSUME rows' # rows
       PROVE  Confirmed({m \in q.ids : CountsAsProd(rows[m]) \/ CountsAsProd(rows[m])'}, q.count)
  <2>1. done /\ rows' = [rows EXCEPT ![n] = Applied(rows[n], plan)]
    BY <1>5, <1>11 DEF Write
  <2>2. rows'[n] = Applied(rows[n], plan)
    BY <1>1, <2>1
  <2>3. CountsAsProd(rows[n])' <=> CountsAsProd(Applied(rows[n], plan))
    BY <2>2 DEF CountsAsProd, InvalidProd, EffectiveOf
  <2>4. prod = {m \in q.ids : CountsAsProd(rows[m]) \/ CountsAsProd(rows[m])'}
    BY <1>3, <2>3 DEF SetTouches, Touches
  <2> QED BY <2>1, <2>4
<1> QED BY <1>10, <1>11

\* A bulk request writes the nodes it has locked, and only if those among them that are
\* prod, or become so, are confirmed.
LEMMA BulkApplyInv ==
    ASSUME NInv, NEW r \in Requests, BulkApply(r)
    PROVE  /\ NInv'
           /\ rows' # rows /\ ~reqs[r].stale =>
                 Confirmed({n \in reqs[r].ids : CountsAsProd(rows[n]) \/ CountsAsProd(rows[n])'}, reqs[r].count)
<1> DEFINE q == reqs[r]
           plan(n) == Plan(q.snap[n], q.edit)
           prod == {n \in q.ids : Touches(q.snap[n], plan(n))}
           new == [n \in Nodes |-> IF n \in q.ids /\ Confirmed(prod, q.count)
                                   THEN Applied(rows[n], plan(n)) ELSE rows[n]]
           states == [reqs EXCEPT ![r] = Idle]
<1>1. /\ rows \in [Nodes -> Rows] /\ reqs \in [Requests -> Req] /\ labels \in [Nodes -> Labels]
      /\ q.kind = "bulk" /\ filled = Nodes /\ q.locked = q.ids /\ BulkFits(q, rows)
  BY DEF NInv, TypeOK, BulkApply, FilledFirst, BulksFit
<1>2. q \in [kind : {"bulk"}, ids : SUBSET Nodes, edit : Asked, count : Nat, locked : SUBSET Nodes,
             snap : {None} \cup [Nodes -> Rows], stale : BOOLEAN]
  BY <1>1 DEF Req, Idle
<1>3. q.snap \in [Nodes -> Rows] /\ q.edit \in Asked /\ q.ids \subseteq Nodes
  BY <1>1, <1>2 DEF BulkFits
<1>4. Write(new, states) /\ UNCHANGED <<labels, filled>>
  BY DEF BulkApply
<1>5. \A n \in Nodes : Applied(rows[n], plan(n)) \in Rows
  <2> SUFFICES ASSUME NEW n \in Nodes PROVE Applied(rows[n], plan(n)) \in Rows
    OBVIOUS
  <2>1. plan(n) \in [Keys -> Values \cup {None, "keep"}]
    BY <1>3, PlanType
  <2> QED BY <1>1, <2>1, AppliedType
<1>6. new \in [Nodes -> Rows] /\ \A m \in Nodes \ q.ids : new[m] = rows[m]
  BY <1>1, <1>5
<1>7. /\ states \in [Requests -> Req] /\ states[r].kind = "idle"
      /\ \A p \in Requests \ {r} : states[p] = reqs[p]
  BY <1>1 DEF Req, Idle
<1>8. \A p \in Requests \ {r} : reqs[p].kind = "bulk" =>
          reqs[p].locked \cap q.ids = {} /\ reqs[p].locked \subseteq Nodes
  <2>1. \A p \in Requests \ {r} : reqs[p].kind = "bulk" => reqs[p].locked \cap q.locked = {}
    BY <1>1 DEF NInv, LocksApart
  <2>2. \A p \in Requests : reqs[p].kind = "bulk" => reqs[p].locked \subseteq Nodes
    BY <1>1 DEF Req, Idle
  <2> QED BY <1>1, <2>1, <2>2
<1>9. NInv'
  <2> HIDE DEF new, states, q
  <2>1. \A p \in Requests : states[p] = reqs[p] \/ states[p].kind = "idle"
    BY <1>7
  <2>2. \A p \in Requests : states[p].kind = "bulk" => \A m \in states[p].locked : new[m] = rows[m]
    BY <1>6, <1>7, <1>8
  <2> QED BY <1>1, <1>4, <1>6, <1>7, <2>1, <2>2, Writes
<1>10. ASSUME rows' # rows, ~q.stale
       PROVE  Confirmed({n \in q.ids : CountsAsProd(rows[n]) \/ CountsAsProd(rows[n])'}, q.count)
  <2>1. rows' = new
    BY <1>4 DEF Write
  <2>2. Confirmed(prod, q.count)
    <3>1. ASSUME ~Confirmed(prod, q.count) PROVE FALSE
      <4>1. new = [n \in Nodes |-> rows[n]]
        BY <3>1
      <4> QED BY <1>1, <1>10, <2>1, <4>1
    <3> QED BY <3>1
  <2>3. ASSUME NEW n \in q.ids
        PROVE  Touches(q.snap[n], plan(n)) <=> CountsAsProd(rows[n]) \/ CountsAsProd(rows[n])'
    <3>1. q.snap[n] = rows[n]
      BY <1>1, <1>10 DEF BulkFits
    <3>2. rows'[n] = Applied(rows[n], plan(n))
      BY <1>3, <2>1, <2>2
    <3>3. CountsAsProd(rows[n])' <=> CountsAsProd(Applied(rows[n], plan(n)))
      BY <3>2 DEF CountsAsProd, InvalidProd, EffectiveOf
    <3> QED BY <3>1, <3>3 DEF Touches
  <2>4. prod = {n \in q.ids : CountsAsProd(rows[n]) \/ CountsAsProd(rows[n])'}
    BY <2>3
  <2> QED BY <2>2, <2>4
<1> QED BY <1>9, <1>10

LEMMA NextN == NInv /\ [Next]_vars => NInv'
<1> SUFFICES ASSUME NInv, [Next]_vars PROVE NInv'
  OBVIOUS
<1>1. CASE UNCHANGED vars
  BY <1>1 DEF vars, NInv, TypeOK, FilledFirst, BulksFit, BulkFits, LocksApart, ChecksFit, CheckFits
<1>2. ASSUME NEW n \in Nodes, Backfill(n) \/ \E label \in Labels : Register(n, label) PROVE NInv'
  BY <1>2, BackfillInv, RegisterInv
<1>3. ASSUME NEW r \in Requests, NEW n \in Nodes, NEW count \in {0, 1},
             \/ \E value \in Values \cup {"remove"}, expect \in {"any", "dev"} :
                   SetRequest(r, n, "env", value, expect, count)
             \/ SetRequest(r, n, "role", "dev", "any", count)
      PROVE NInv'
  <2>1. "env" \in Keys /\ "role" \in Keys /\ "dev" \in Values \cup {"remove"} /\ "any" \in {"any", "dev"}
    BY DEF Keys, Values
  <2> QED BY <1>3, <2>1, SetRequestInv
<1>4. ASSUME NEW r \in Requests, NEW ids \in Bulks, NEW edit \in Edits, NEW count \in Counts,
             BulkRequest(r, ids, edit, count)
      PROVE NInv'
  BY <1>4, BulkRequestInv
<1>5. ASSUME NEW r \in Requests, NEW target \in Targets, NEW named \in BOOLEAN, Preview(r, target, named)
      PROVE NInv'
  BY <1>5, PreviewInv
<1>6. ASSUME NEW r \in Requests, Serve(r) PROVE NInv'
  BY <1>6, SetApplyInv, BulkLockInv, BulkApplyInv, ReadEffectiveInv, CheckInv, SubmitInv DEF Serve
<1> QED BY <1>1, <1>2, <1>3, <1>4, <1>5, <1>6 DEF Next

LEMMA InvN == Spec => []NInv
BY InitN, NextN, PTL DEF Spec

-----------------------------------------------------------------------------
\* check_submit confirms every node that was prod for one and the same reason while it
\* read, although it reads effective tags and invalid rows one after the other.
THEOREM ProdTargetsAreConfirmed == Spec => []ProdTargetsConfirmed
<1>1. NInv => ProdTargetsConfirmed
  BY DEF NInv, ChecksFit, CheckFits, ProdTargetsConfirmed
<1> QED BY <1>1, InvN, PTL

\* Finite sets of numbers have a least and a greatest element.
LEMMA Extremes ==
    ASSUME NEW S \in SUBSET Nat, IsFiniteSet(S), S # {}
    PROVE  (\E n \in S : \A m \in S : n <= m) /\ (\E n \in S : \A m \in S : m <= n)
<1> DEFINE R == StrictSubsetOrdering(S)
<1>1. IsWellFoundedOn(R, SUBSET S)
  BY FS_StrictSubsetOrderingWellFounded, FS_FiniteSubsetsOfFinite
<1>2. \E n \in S : \A m \in S : n <= m
  <2> DEFINE upTo(n) == {m \in S : m <= n}
             T == {upTo(n) : n \in S}
  <2>1. T \subseteq SUBSET S /\ T # {}
    OBVIOUS
  <2>2. PICK x \in T : \A y \in T : ~(<<y, x>> \in R)
    BY <1>1, <2>1, WFMin
  <2>3. PICK n \in S : x = upTo(n)
    BY <2>2
  <2>4. ASSUME NEW m \in S PROVE ~(upTo(m) \subseteq upTo(n) /\ upTo(m) # upTo(n))
    <3>1. <<upTo(m), upTo(n)>> \notin R
      BY <2>2, <2>3
    <3>2. upTo(m) \in SUBSET S /\ upTo(n) \in SUBSET S
      OBVIOUS
    <3> HIDE DEF upTo
    <3>3. <<upTo(m), upTo(n)>> \in (SUBSET S) \X (SUBSET S)
      BY <3>2
    <3> QED BY <3>1, <3>3 DEF StrictSubsetOrdering
  <2>5. ASSUME NEW m \in S, m < n PROVE FALSE
    <3>1. m \in Nat /\ n \in Nat /\ S \subseteq Nat
      OBVIOUS
    <3>2. \A k \in S : k <= m => k <= n
      BY <2>5, <3>1
    <3>3. n <= n /\ ~(n <= m)
      BY <2>5, <3>1
    <3>4. n \in upTo(n) /\ n \notin upTo(m)
      BY <3>3
    <3>5. upTo(m) \subseteq upTo(n)
      BY <3>2
    <3> QED BY <2>4, <3>4, <3>5
  <2> QED BY <2>5
<1>3. \E n \in S : \A m \in S : m <= n
  <2> DEFINE from(n) == {m \in S : n <= m}
             T == {from(n) : n \in S}
  <2>1. T \subseteq SUBSET S /\ T # {}
    OBVIOUS
  <2>2. PICK x \in T : \A y \in T : ~(<<y, x>> \in R)
    BY <1>1, <2>1, WFMin
  <2>3. PICK n \in S : x = from(n)
    BY <2>2
  <2>4. ASSUME NEW m \in S PROVE ~(from(m) \subseteq from(n) /\ from(m) # from(n))
    <3>1. <<from(m), from(n)>> \notin R
      BY <2>2, <2>3
    <3>2. from(m) \in SUBSET S /\ from(n) \in SUBSET S
      OBVIOUS
    <3> HIDE DEF from
    <3>3. <<from(m), from(n)>> \in (SUBSET S) \X (SUBSET S)
      BY <3>2
    <3> QED BY <3>1, <3>3 DEF StrictSubsetOrdering
  <2>5. ASSUME NEW m \in S, n < m PROVE FALSE
    <3>1. m \in Nat /\ n \in Nat /\ S \subseteq Nat
      OBVIOUS
    <3>2. \A k \in S : m <= k => n <= k
      BY <2>5, <3>1
    <3>3. n <= n /\ ~(m <= n)
      BY <2>5, <3>1
    <3>4. n \in from(n) /\ n \notin from(m)
      BY <3>3
    <3>5. from(m) \subseteq from(n)
      BY <3>2
    <3> QED BY <2>4, <3>4, <3>5
  <2> QED BY <2>5
<1> QED BY <1>2, <1>3

\* Bulk requests lock in one order, so that whoever holds the last lock goes on.
THEOREM BulksGoOn == Spec => []BulkGoesOn
<1>1. NInv => BulkGoesOn
  <2> SUFFICES ASSUME NInv, NEW p \in Requests, reqs[p].kind = "bulk"
               PROVE \E r \in Requests :
                         /\ reqs[r].kind = "bulk"
                         /\ reqs[r].locked = reqs[r].ids \/ \E n \in NextLocks(reqs[r]) : n \notin Locked
    BY DEF BulkGoesOn
  <2> SUFFICES ASSUME \A r \in Requests : reqs[r].kind = "bulk" =>
                          reqs[r].locked # reqs[r].ids /\ \A n \in NextLocks(reqs[r]) : n \in Locked
               PROVE FALSE
    OBVIOUS
  <2>1. \A r \in Requests : reqs[r].kind = "bulk" => reqs[r].ids \subseteq Nodes /\ reqs[r].locked \subseteq reqs[r].ids
    <3>1. \A r \in Requests : reqs[r] \in Req /\ BulkFits(reqs[r], rows)
      BY DEF NInv, TypeOK, BulksFit
    <3> QED BY <3>1 DEF Req, Idle, BulkFits
  <2>2. ASSUME NEW r \in Requests, reqs[r].kind = "bulk"
        PROVE  \E n \in NextLocks(reqs[r]) : n \in Locked /\ n \in Nodes
    <3> DEFINE S == reqs[r].ids \ reqs[r].locked
    <3>1. reqs[r].ids \subseteq Nodes /\ reqs[r].locked \subseteq reqs[r].ids /\ reqs[r].locked # reqs[r].ids
      BY <2>1, <2>2
    <3>2. S # {} /\ S \subseteq Nodes
      BY <3>1
    <3>3. S \in SUBSET Nat /\ IsFiniteSet(S)
      BY <3>2, TagsAssumption, FS_Subset
    <3>4. PICK n \in S : \A m \in S : n <= m
      BY <3>2, <3>3, Extremes
    <3>5. n \in NextLocks(reqs[r])
      BY <3>4 DEF NextLocks
    <3> QED BY <2>1, <2>2, <3>5
  <2>3. \A n \in Locked : \E r \in Requests : reqs[r].kind = "bulk" /\ n \in reqs[r].locked
    BY DEF Locked
  <2>4. Locked \subseteq Nodes
    BY <2>1, <2>3
  <2>5. Locked # {} /\ Locked \in SUBSET Nat /\ IsFiniteSet(Locked)
    BY <2>2, <2>4, TagsAssumption, FS_Subset
  <2>6. PICK last \in Locked : \A m \in Locked : m <= last
    BY <2>5, Extremes
  <2>7. PICK r \in Requests : reqs[r].kind = "bulk" /\ last \in reqs[r].locked
    BY <2>3
  <2>8. PICK n \in NextLocks(reqs[r]) : n \in Locked
    BY <2>2, <2>7
  <2>9. last < n
    BY <2>7, <2>8 DEF NInv, BulksFit, BulkFits, NextLocks
  <2> QED BY <2>5, <2>6, <2>8, <2>9
<1> QED BY <1>1, InvN, PTL

LEMMA Untracked ==
    ASSUME NEW q \in Req, q.kind \in {"set", "bulk"}, NEW new
    PROVE  Tracked(q, new) = q
<1>1. "why" \notin DOMAIN q
  BY DEF Req, Idle
<1> QED BY <1>1 DEF Tracked

\* Center tags change on production nodes only as the request confirmed, but for bulk
\* requests whose snapshot was stale.
THEOREM ProdChangesAreConfirmed == Spec => ProdChangeConfirmed
<1> DEFINE A(r) ==
        reqs[r].kind \in {"set", "bulk"} /\ reqs'[r] = Idle /\ rows' # rows =>
            \/ reqs[r].stale
            \/ Confirmed({n \in reqs[r].ids : CountsAsProd(rows[n]) \/ CountsAsProd(rows[n])'}, reqs[r].count)
<1>1. ASSUME NInv, Next PROVE \A r \in Requests : A(r)
  <2> SUFFICES ASSUME NEW r \in Requests, reqs[r].kind \in {"set", "bulk"}, reqs'[r] = Idle, rows' # rows
               PROVE \/ reqs[r].stale
                     \/ Confirmed({n \in reqs[r].ids : CountsAsProd(rows[n]) \/ CountsAsProd(rows[n])'},
                                  reqs[r].count)
    OBVIOUS
  <2>1. reqs \in [Requests -> Req] /\ reqs[r] # Idle
    BY <1>1 DEF NInv, TypeOK, Idle
  <2>2. \A new : Tracked(reqs[r], new) = reqs[r]
    BY <2>1, Untracked
  <2>3. CASE SetApply(r) \/ BulkApply(r)
    BY <1>1, <2>3, SetApplyInv, BulkApplyInv
  <2>4. ASSUME NEW n \in Nodes, Backfill(n) \/ \E label \in Labels : Register(n, label) PROVE FALSE
    BY <2>1, <2>2, <2>4 DEF Backfill, Register, Write
  <2>5. ASSUME NEW p \in Requests \ {r}, SetApply(p) \/ BulkApply(p) PROVE FALSE
    BY <2>1, <2>2, <2>5 DEF SetApply, BulkApply, Write
  <2>6. ASSUME NEW p \in Requests, BulkLock(p) \/ ReadEffective(p) \/ Check(p) \/ Submit(p) PROVE FALSE
    BY <2>6 DEF BulkLock, ReadEffective, Check, Submit, Step
  <2>7. ASSUME NEW p \in Requests,
               \/ \E n \in Nodes, count \in {0, 1} :
                     \/ \E value \in Values \cup {"remove"}, expect \in {"any", "dev"} :
                           SetRequest(p, n, "env", value, expect, count)
                     \/ SetRequest(p, n, "role", "dev", "any", count)
               \/ \E ids \in Bulks, edit \in Edits, count \in Counts : BulkRequest(p, ids, edit, count)
               \/ \E target \in Targets, named \in BOOLEAN : Preview(p, target, named)
        PROVE  FALSE
    BY <2>7 DEF SetRequest, BulkRequest, Preview, Begin
  <2> QED BY <1>1, <2>3, <2>4, <2>5, <2>6, <2>7 DEF Next, Serve
<1>2. NInv /\ [Next]_vars => [\A r \in Requests : A(r)]_vars
  BY <1>1
<1> QED BY <1>2, InvN, PTL DEF Spec, ProdChangeConfirmed

\* How many of the two keys a set of keys has.
LEMMA KeysCounted ==
    ASSUME NEW S \in SUBSET Keys
    PROVE  Cardinality(S) = (IF "env" \in S THEN 1 ELSE 0) + (IF "role" \in S THEN 1 ELSE 0)
<1>1. Cardinality({}) = 0 /\ Cardinality({"env"}) = 1 /\ Cardinality({"role"}) = 1
  BY FS_EmptySet, FS_Singleton
<1>2. Cardinality({"env", "role"}) = 2
  <2>1. Cardinality({"env"} \cup {"role"}) = Cardinality({"env"}) + 1
    BY FS_Singleton, FS_AddElement
  <2>2. {"env"} \cup {"role"} = {"env", "role"}
    OBVIOUS
  <2> QED BY <1>1, <2>1, <2>2
<1>3. S = {} \/ S = {"env"} \/ S = {"role"} \/ S = {"env", "role"}
  BY DEF Keys
<1> QED BY <1>1, <1>2, <1>3

\* A plan adds a center tag only where those that stay and those added before leave room.
LEMMA PlanStaysWithin ==
    ASSUME NEW row \in Rows, NEW edit \in Asked, Cardinality(CenterKeys(row)) <= MaxCenter
    PROVE  Cardinality(CenterKeys(Applied(row, Plan(row, edit)))) <= MaxCenter
<1> DEFINE old == CenterKeys(row)
           freed == {k \in old : edit[k] = "remove"}
           added == {k \in Keys \ old : edit[k] \in Values}
           room(k) == Cardinality(old \ freed) + Cardinality(added \cap Before(k)) < MaxCenter
           plan == Plan(row, edit)
           new == CenterKeys(Applied(row, plan))
<1>1. \A k \in Keys : plan[k] =
          CASE k \in freed -> None
            [] k \in added /\ room(k) -> edit[k]
            [] k \in old /\ edit[k] \in Values -> edit[k]
            [] OTHER -> "keep"
  BY DEF Plan
<1>2. \A k \in Keys : Applied(row, plan).center[k] = IF plan[k] = "keep" THEN row.center[k] ELSE plan[k]
  BY DEF Applied, Rows
<1>3. old \in SUBSET Keys /\ new \in SUBSET Keys /\ old \ freed \in SUBSET Keys
      /\ \A k \in Keys : added \cap Before(k) \in SUBSET Keys
  BY DEF CenterKeys
<1>4. \A k \in Keys : k \in old <=> row.center[k] # None
  BY DEF CenterKeys
<1> HIDE DEF room, plan, old
<1>5. \A k \in Keys : k \in new => k \in old \ freed \/ (k \in added /\ room(k))
  <2> SUFFICES ASSUME NEW k \in Keys, k \in new, k \notin old \ freed PROVE k \in added /\ room(k)
    OBVIOUS
  <2>1. (IF plan[k] = "keep" THEN row.center[k] ELSE plan[k]) # None
    BY <1>2 DEF CenterKeys
  <2>2. k \notin freed
    <3>1. k \in freed => k \notin added /\ edit[k] \notin Values
      BY DEF Values
    <3> HIDE DEF freed, added
    <3>2. k \in freed => plan[k] = None
      BY <1>1, <3>1
    <3> QED BY <2>1, <3>2 DEF None
  <2>3. k \notin old
    BY <2>2
  <2>4. plan[k] # "keep"
    BY <1>4, <2>1, <2>3
  <2> QED BY <1>1, <2>2, <2>3, <2>4
<1> HIDE DEF new
<1> DEFINE n(S, k) == IF k \in S THEN 1 ELSE 0
<1>6. /\ Cardinality(old) = n(old, "env") + n(old, "role")
      /\ Cardinality(new) = n(new, "env") + n(new, "role")
      /\ Cardinality(old \ freed) = n(old \ freed, "env") + n(old \ freed, "role")
  BY <1>3, KeysCounted
<1>7. Cardinality(added \cap Before("env")) = 0 /\ Cardinality(added \cap Before("role")) = n(added, "env")
  <2>1. added \cap Before("env") = {} /\ added \cap Before("role") = added \cap {"env"}
    BY DEF Before
  <2>2. added \cap {"env"} \in SUBSET Keys
    BY DEF Keys
  <2>3. "env" # "role"
    OBVIOUS
  <2> QED BY <2>1, <2>2, <2>3, FS_EmptySet, KeysCounted
<1>8. /\ room("env") => n(old \ freed, "env") + n(old \ freed, "role") < MaxCenter
      /\ room("role") => n(old \ freed, "env") + n(old \ freed, "role") + n(added, "env") < MaxCenter
  BY <1>6, <1>7 DEF room
<1>9. "env" \in Keys /\ "role" \in Keys /\ added \cap old = {} /\ freed \subseteq old /\ MaxCenter \in Nat
  BY TagsAssumption DEF Keys
<1>10. Cardinality(old) <= MaxCenter
  BY DEF old
<1>11. Cardinality(new) <= MaxCenter
  <2> DEFINE kept == old \ freed
  <2>1. n(kept, "env") <= n(old, "env") /\ n(kept, "role") <= n(old, "role")
    OBVIOUS
  <2>2. CASE "env" \in new /\ "env" \in added /\ room("env")
    <3>1. "env" \notin kept
      BY <2>2
    <3>2. "role" \in new => n(kept, "role") = 1 \/ room("role")
      BY <1>5, <1>9
    <3> QED BY <1>6, <1>8, <1>9, <2>1, <2>2, <3>1, <3>2
  <2>3. CASE "env" \in new => "env" \in kept
    <3>1. "role" \in new => n(kept, "role") = 1 \/ room("role")
      BY <1>5, <1>9
    <3> QED BY <1>6, <1>8, <1>9, <1>10, <2>1, <2>3, <3>1
  <2> QED BY <1>5, <1>9, <2>2, <2>3
<1> QED BY <1>11 DEF new, plan

\* What a node has declared is not among its center tags.
LEMMA DeclaringKeepsCenter ==
    ASSUME NInv, NEW n \in Nodes, Backfill(n) \/ \E label \in Labels : Register(n, label), NEW m \in Nodes
    PROVE  CenterKeys(rows[m])' = CenterKeys(rows[m])
<1>1. rows \in [Nodes -> Rows]
  BY DEF NInv, TypeOK
<1>2. \E declared : rows' = [rows EXCEPT ![n].declared = declared]
  BY DEF Backfill, Register, Write
<1>3. rows'[m].center = rows[m].center
  BY <1>1, <1>2 DEF Rows
<1> QED BY <1>3 DEF CenterKeys

\* No request takes a node over the limit of center tags, but bulk requests that
\* planned on a stale snapshot: for any limit, nodes and interleaving of requests.
THEOREM CenterStaysWithinLimit == Spec => CenterWithinLimit
<1> DEFINE Within(n) ==
        Cardinality(CenterKeys(rows[n])) <= MaxCenter =>
            \/ Cardinality(CenterKeys(rows[n])') <= MaxCenter
            \/ \E r \in Requests : reqs[r].kind = "bulk" /\ reqs[r].stale
<1>1. ASSUME NInv, Next PROVE \A n \in Nodes : Within(n)
  <2> SUFFICES ASSUME NEW n \in Nodes, Cardinality(CenterKeys(rows[n])) <= MaxCenter,
                      \A r \in Requests : reqs[r].kind = "bulk" => ~reqs[r].stale
               PROVE  Cardinality(CenterKeys(rows[n])') <= MaxCenter
    OBVIOUS
  <2>1. rows \in [Nodes -> Rows] /\ reqs \in [Requests -> Req] /\ rows[n] \in Rows
    BY <1>1 DEF NInv, TypeOK
  <2>2. ASSUME NEW row, rows'[n] = row, Cardinality(CenterKeys(row)) <= MaxCenter
        PROVE  Cardinality(CenterKeys(rows[n])') <= MaxCenter
    BY <2>2 DEF CenterKeys
  <2>3. ASSUME NEW edit \in Asked, rows'[n] \in {rows[n], Applied(rows[n], Plan(rows[n], edit))}
        PROVE  Cardinality(CenterKeys(rows[n])') <= MaxCenter
    BY <2>1, <2>2, <2>3, PlanStaysWithin
  <2>4. ASSUME NEW m \in Nodes, Backfill(m) \/ \E label \in Labels : Register(m, label)
        PROVE  Cardinality(CenterKeys(rows[n])') <= MaxCenter
    BY <1>1, <2>4, DeclaringKeepsCenter
  <2>5. ASSUME NEW r \in Requests, SetApply(r) PROVE Cardinality(CenterKeys(rows[n])') <= MaxCenter
    <3> DEFINE m == CHOOSE m \in reqs[r].ids : TRUE
    <3>1. reqs[r].kind = "set"
      BY <2>5 DEF SetApply
    <3>2. reqs[r].edit \in Asked
      BY <2>1, <3>1 DEF Req, Idle
    <3>3. rows' \in {rows, [rows EXCEPT ![m] = Applied(rows[m], Plan(rows[m], reqs[r].edit))]}
      BY <2>5 DEF SetApply, Write
    <3> HIDE DEF m
    <3>4. rows'[n] \in {rows[n], Applied(rows[n], Plan(rows[n], reqs[r].edit))}
      BY <2>1, <3>3
    <3> QED BY <2>3, <3>2, <3>4
  <2>6. ASSUME NEW r \in Requests, BulkApply(r) PROVE Cardinality(CenterKeys(rows[n])') <= MaxCenter
    <3>1. reqs[r].kind = "bulk" /\ ~reqs[r].stale /\ reqs[r].locked = reqs[r].ids /\ BulkFits(reqs[r], rows)
      BY <1>1, <2>6 DEF BulkApply, NInv, BulksFit
    <3>2. reqs[r].edit \in Asked
      BY <2>1, <3>1 DEF Req, Idle
    <3>3. n \in reqs[r].ids => reqs[r].snap[n] = rows[n]
      BY <3>1 DEF BulkFits
    <3>4. \/ rows'[n] = rows[n]
          \/ n \in reqs[r].ids /\ rows'[n] = Applied(rows[n], Plan(reqs[r].snap[n], reqs[r].edit))
      BY <2>6 DEF BulkApply, Write
    <3> QED BY <2>3, <3>2, <3>3, <3>4
  <2>7. CASE rows' = rows
    BY <2>1, <2>2, <2>7
  <2>8. ASSUME NEW p \in Requests, BulkLock(p) \/ ReadEffective(p) \/ Check(p) \/ Submit(p)
        PROVE  rows' = rows
    BY <2>8 DEF BulkLock, ReadEffective, Check, Submit, Step
  <2>9. ASSUME NEW p \in Requests,
               \/ \E m \in Nodes, count \in {0, 1} :
                     \/ \E value \in Values \cup {"remove"}, expect \in {"any", "dev"} :
                           SetRequest(p, m, "env", value, expect, count)
                     \/ SetRequest(p, m, "role", "dev", "any", count)
               \/ \E ids \in Bulks, edit \in Edits, count \in Counts : BulkRequest(p, ids, edit, count)
               \/ \E target \in Targets, named \in BOOLEAN : Preview(p, target, named)
        PROVE  rows' = rows
    BY <2>9 DEF SetRequest, BulkRequest, Preview, Begin
  <2> QED BY <1>1, <2>4, <2>5, <2>6, <2>7, <2>8, <2>9 DEF Next, Serve
<1>2. NInv /\ [Next]_vars => [\A n \in Nodes : Within(n)]_vars
  BY <1>1
<1> QED BY <1>2, InvN, PTL DEF Spec, CenterWithinLimit
=============================================================================
