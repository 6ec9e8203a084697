-------------------------------- MODULE NodeTags --------------------------------
(***************************************************************************)
(* Node tags, tags.rs: a node declares some when it registers, the center  *)
(* writes others over them, and a node whose env is prod may be touched    *)
(* only by a request that says how many such nodes it touches.  Also the   *)
(* check that targets.rs makes before it dispatches to a set of nodes.     *)
(***************************************************************************)
EXTENDS SelectorRules

CONSTANTS
    Nodes,      \* numbers: a bulk request locks nodes in the order of their ids
    Requests,   \* HTTP requests that may run at once
    MaxCenter,  \* MAX_CENTER_TAGS
    First,      \* labels that nodes may have before the migration
    Bulks,      \* sets of nodes that bulk requests name
    Targets,    \* what requests that name nodes come down to
    MaxStarts   \* bound on requests and registrations

Keys == {"env", "role"}
Values == {"prod", "dev"}
None == "none"

\* "PROD" stands for what is prod but not valid: upper case, or a label over the limit.
Labels == Values \cup {"PROD", None}

ASSUME TagsAssumption ==
    /\ Nodes \subseteq Nat /\ IsFiniteSet(Nodes) /\ Bulks \subseteq (SUBSET Nodes) \ {{}}
    /\ First \subseteq Labels /\ MaxCenter \in Nat /\ MaxStarts \in Nat

VARIABLES
    labels,    \* nodes.labels_json: what the node declared
    rows,      \* node_tags: per node the center's tags and the declared env
    filled,    \* nodes whose rows the backfill at startup has looked at
    reqs,
    starts

vars == <<labels, rows, filled, reqs, starts>>

Idle == [kind |-> "idle"]

(***************************************************************************)
(* What the rows of a node mean                                            *)
(***************************************************************************)
\* classify_declared_tags keeps an invalid pair, marked invalid.
Declared(label) == [value |-> IF label = "PROD" THEN "prod" ELSE label, valid |-> label # "PROD"]
Absent == Declared(None)

EffectiveOf(row) ==
    IF row.center["env"] # None THEN row.center["env"]
    ELSE IF row.declared.valid THEN row.declared.value ELSE None

InvalidProd(row) == ~row.declared.valid /\ row.declared.value = "prod"
CountsAsProd(row) == InvalidProd(row) \/ EffectiveOf(row) = "prod"

\* The view node_tags_effective: valid rows, but no declared one under a center's.
EffectiveView(row) ==
    LET own == {k \in Keys : row.center[k] # None}
        declared == IF row.declared.valid /\ row.declared.value # None THEN {"env"} ELSE {} IN
    [k \in own \cup declared |-> IF k \in own THEN row.center[k] ELSE row.declared.value]

IsProd(tags) == "env" \in DOMAIN tags /\ tags["env"] = "prod"

CenterKeys(row) == {k \in Keys : row.center[k] # None}

Init ==
    /\ labels \in [Nodes -> First]
    /\ rows = [n \in Nodes |-> [center |-> [k \in Keys |-> None], declared |-> Absent]]
    /\ filled = {}
    /\ reqs = [r \in Requests |-> Idle]
    /\ starts = 0

Ready == filled = Nodes /\ starts < MaxStarts

\* The reasons for which a node has been prod ever since a check began to read.
Why(row) == {w \in {"effective", "invalid"} :
                IF w = "invalid" THEN InvalidProd(row) ELSE EffectiveOf(row) = "prod"}

Tracked(q, new) ==
    IF "why" \in DOMAIN q THEN [q EXCEPT !.why = [n \in Nodes |-> @[n] \cap Why(new[n])]] ELSE q

Write(new, states) ==
    /\ rows' = new
    /\ reqs' = [r \in Requests |-> Tracked(states[r], new)]

Begin(r) ==
    /\ Ready /\ reqs[r] = Idle
    /\ starts' = starts + 1
    /\ UNCHANGED <<labels, rows, filled>>

Step(r, state) ==
    /\ reqs' = [reqs EXCEPT ![r] = state]
    /\ UNCHANGED <<labels, rows, filled, starts>>

\* Nodes whose row a bulk request has locked.
Locked == UNION {IF reqs[r].kind = "bulk" THEN reqs[r].locked ELSE {} : r \in Requests}

(***************************************************************************)
(* Nodes                                                                   *)
(***************************************************************************)
\* At startup a node that has no declared rows gets those of its labels.
Backfill(n) ==
    /\ n \notin filled
    /\ filled' = filled \cup {n}
    /\ rows' = [rows EXCEPT ![n].declared = IF @ = Absent THEN Declared(labels[n]) ELSE @]
    /\ UNCHANGED <<labels, reqs, starts>>

\* register_node replaces the declared rows and keeps the center's.
Register(n, label) ==
    /\ Ready /\ n \notin Locked
    /\ starts' = starts + 1
    /\ labels' = [labels EXCEPT ![n] = label]
    /\ Write([rows EXCEPT ![n].declared = Declared(label)], reqs)
    /\ UNCHANGED filled

(***************************************************************************)
(* Center tags: an edit says for each key what to do                       *)
(***************************************************************************)
Edit(env, role) == [k \in Keys |-> IF k = "env" THEN env ELSE role]
Before(k) == IF k = "role" THEN {"env"} ELSE {}

\* Mutant: the limit is not checked.
PlanUnbounded(row, edit) ==
    LET freed == {k \in CenterKeys(row) : edit[k] = "remove"}
        added == {k \in Keys \ CenterKeys(row) : edit[k] \in Values} IN
    [k \in Keys |->
        CASE k \in freed -> None
          [] k \in added -> edit[k]
          [] k \in CenterKeys(row) /\ edit[k] \in Values -> edit[k]
          [] OTHER -> "keep"]

\* plan_node: what is removed makes room, and keys are added in order.
Plan(row, edit) ==
    LET freed == {k \in CenterKeys(row) : edit[k] = "remove"}
        added == {k \in Keys \ CenterKeys(row) : edit[k] \in Values}
        count == Cardinality(CenterKeys(row) \ freed) IN
    [k \in Keys |->
        CASE k \in freed -> None
          [] k \in added /\ count + Cardinality(added \cap Before(k)) < MaxCenter -> edit[k]
          [] k \in CenterKeys(row) /\ edit[k] \in Values -> edit[k]
          [] OTHER -> "keep"]

Applied(row, plan) ==
    [row EXCEPT !.center = [k \in Keys |-> IF plan[k] = "keep" THEN @[k] ELSE plan[k]]]

Touches(row, plan) == CountsAsProd(row) \/ CountsAsProd(Applied(row, plan))
Confirmed(prod, count) == prod = {} \/ count = Cardinality(prod)

\* set_center_tag and delete_center_tag read, check and write under the lock of the node.
SetRequest(r, n, k, value, expect, count) ==
    /\ Begin(r)
    /\ reqs' = [reqs EXCEPT ![r] =
          [kind |-> "set", ids |-> {n}, key |-> k, edit |-> [Edit("keep", "keep") EXCEPT ![k] = value],
           expect |-> expect, count |-> count, stale |-> FALSE]]

\* Mutant: the check looks at the node as it is, and not as it will be.
SetTouchesBefore(row, plan) == CountsAsProd(row)
SetTouches(row, plan) == Touches(row, plan)

\* A conflict, a full node, nothing to delete or no confirmation: nothing is written.
SetApply(r) ==
    LET q == reqs[r]
        n == CHOOSE m \in q.ids : TRUE
        row == rows[n]
        plan == Plan(row, q.edit)
        prod == {m \in {n} : SetTouches(row, plan)}
        done == (q.expect = "any" \/ row.center[q.key] = q.expect) /\ Confirmed(prod, q.count) IN
    /\ q.kind = "set" /\ n \notin Locked
    /\ Write(IF done THEN [rows EXCEPT ![n] = Applied(row, plan)] ELSE rows, [reqs EXCEPT ![r] = Idle])
    /\ UNCHANGED <<labels, filled, starts>>

(***************************************************************************)
(* A bulk request: one transaction that locks node after node.  Its first  *)
(* plain read, after the first lock, fixes what it sees of all of them.    *)
(***************************************************************************)
BulkRequest(r, ids, edit, count) ==
    /\ Begin(r)
    /\ reqs' = [reqs EXCEPT ![r] =
          [kind |-> "bulk", ids |-> ids, edit |-> edit, count |-> count,
           locked |-> {}, snap |-> None, stale |-> FALSE]]

\* Mutant: nodes are locked in the order of the request.
NextAny(q) == q.ids \ q.locked
NextLocks(q) == {n \in q.ids \ q.locked : \A m \in q.ids \ q.locked : n <= m}

BulkLock(r) ==
    LET q == reqs[r] IN
    /\ q.kind = "bulk"
    /\ \E n \in NextLocks(q) :
          /\ n \notin Locked
          /\ LET snap == IF q.locked = {} THEN rows ELSE q.snap IN
             Step(r, [q EXCEPT !.locked = @ \cup {n}, !.snap = snap,
                               !.stale = @ \/ snap[n] # rows[n]])

BulkApply(r) ==
    LET q == reqs[r]
        plan(n) == Plan(q.snap[n], q.edit)
        prod == {n \in q.ids : Touches(q.snap[n], plan(n))} IN
    /\ q.kind = "bulk" /\ q.locked = q.ids
    /\ Write([n \in Nodes |-> IF n \in q.ids /\ Confirmed(prod, q.count)
                              THEN Applied(rows[n], plan(n)) ELSE rows[n]],
             [reqs EXCEPT ![r] = Idle])
    /\ UNCHANGED <<labels, filled, starts>>

(***************************************************************************)
(* check_submit: an operator looks at a preview, and submits with the      *)
(* nodes and the number of prod nodes seen there.                          *)
(***************************************************************************)
View == [n \in Nodes |-> EffectiveView(rows[n])]

\* The operator submits what the preview showed, with or without naming the nodes.
Preview(r, target, named) ==
    LET nodes == ResolveParsed(target, View) IN
    /\ Begin(r)
    /\ Unknown(target, View) = {} /\ SizeOk(nodes)
    /\ reqs' = [reqs EXCEPT ![r] =
          [kind |-> "shown",
           target |-> [target EXCEPT !.expected = IF named THEN {nodes} ELSE {}],
           count |-> Cardinality({n \in nodes : CountsAsProd(rows[n])})]]

\* load_inventory reads effective tags first, and the invalid rows after that.
ReadEffective(r) ==
    LET q == reqs[r] IN
    /\ q.kind = "shown"
    /\ Step(r, [kind |-> "read", target |-> q.target, count |-> q.count, view |-> View,
                why |-> [n \in Nodes |-> Why(rows[n])]])

\* Mutant: the second read is left out.
ProdSeenValid(nodes, view, now) == {n \in nodes : IsProd(view[n])}
ProdSeen(nodes, view, now) == {n \in nodes : IsProd(view[n]) \/ InvalidProd(now[n])}

\* Refused if the nodes changed, there are none, or their prod nodes are not confirmed.
Check(r) ==
    LET q == reqs[r]
        nodes == ResolveParsed(q.target, q.view)
        prod == ProdSeen(nodes, q.view, rows) IN
    /\ q.kind = "read"
    /\ Step(r, IF /\ Unknown(q.target, q.view) = {}
                  /\ Unchanged(q.target, nodes) /\ nodes # {} /\ SizeOk(nodes)
                  /\ Confirmed(prod, q.count)
               THEN [kind |-> "ready", nodes |-> nodes, prod |-> prod, count |-> q.count, why |-> q.why]
               ELSE Idle)

\* dispatch_target stores the resolution and goes on to queue the runs.
Submit(r) == reqs[r].kind = "ready" /\ Step(r, Idle)

Counts == 0 .. Cardinality(Nodes)
Edits == {Edit("prod", "keep"), Edit("remove", "dev"), Edit("dev", "dev")}

Serve(r) == SetApply(r) \/ BulkLock(r) \/ BulkApply(r) \/ ReadEffective(r) \/ Check(r) \/ Submit(r)

Next ==
    \/ \E n \in Nodes : Backfill(n) \/ \E label \in Labels : Register(n, label)
    \/ \E r \in Requests :
          \/ \E n \in Nodes, count \in {0, 1} :
                \/ \E value \in Values \cup {"remove"}, expect \in {"any", "dev"} :
                      SetRequest(r, n, "env", value, expect, count)
                \/ SetRequest(r, n, "role", "dev", "any", count)
          \/ \E ids \in Bulks, edit \in Edits, count \in Counts : BulkRequest(r, ids, edit, count)
          \/ \E target \in Targets, named \in BOOLEAN : Preview(r, target, named)
          \/ Serve(r)

Spec == Init /\ [][Next]_vars

(***************************************************************************)
(* Properties                                                              *)
(***************************************************************************)
\* A node has no more center tags than allowed, unless bulk requests planned on what
\* was no longer so.
CenterWithinLimit ==
    [][\A n \in Nodes : Cardinality(CenterKeys(rows[n])) <= MaxCenter =>
          \/ Cardinality(CenterKeys(rows[n])') <= MaxCenter
          \/ \E r \in Requests : reqs[r].kind = "bulk" /\ reqs[r].stale]_vars

\* Center tags change on nodes that are prod, or become so, only by a request that
\* confirmed their number; a bulk request whose reads were stale is the exception.
ProdChangeConfirmed ==
    [][\A r \in Requests :
          reqs[r].kind \in {"set", "bulk"} /\ reqs'[r] = Idle /\ rows' # rows =>
              \/ reqs[r].stale
              \/ Confirmed({n \in reqs[r].ids : CountsAsProd(rows[n]) \/ CountsAsProd(rows[n])'},
                           reqs[r].count)]_vars

\* A node that was prod for one and the same reason while the check read is among
\* the nodes whose number was confirmed.
ProdTargetsConfirmed ==
    \A r \in Requests :
        reqs[r].kind = "ready" =>
            {n \in reqs[r].nodes : reqs[r].why[n] # {}} \subseteq reqs[r].prod

\* Bulk requests never all wait for each other's locks.
BulkGoesOn ==
    (\E r \in Requests : reqs[r].kind = "bulk") =>
        \E r \in Requests :
            /\ reqs[r].kind = "bulk"
            /\ reqs[r].locked = reqs[r].ids \/ \E n \in NextLocks(reqs[r]) : n \notin Locked
=============================================================================
