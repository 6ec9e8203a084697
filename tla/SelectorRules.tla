----------------------------- MODULE SelectorRules -----------------------------
(***************************************************************************)
(* How a set of nodes is named: the selectors of novbot-core/src/tags.rs,  *)
(* the targets of novbot-center/src/targets.rs that hold one or a list of  *)
(* ids, and the three ways a skill request has of giving either.  A        *)
(* selector is written as a sequence of requirements; what cannot be read  *)
(* as a key or a value is Unread.                                          *)
(***************************************************************************)
EXTENDS Naturals, Sequences, FiniteSets

MAX_REQUIREMENTS == 16
MAX_SET_VALUES == 32
MAX_TARGETS == 5000

Unread == "?"
Refused == [kind |-> "refused"]

\* Texts: blank, `*`, or requirements.  A written requirement has a sequence of values.
Blank == [kind |-> "empty"]
Star == [kind |-> "all"]
List(parts) == [kind |-> "list", parts |-> parts]
Written(op, key, values) == [op |-> op, key |-> key, values |-> values]

ValuesOf(part) == {part.values[i] : i \in DOMAIN part.values}

\* value and value_set: =, != take one value, in and notin a bounded list.
ReadsValues(part) ==
    /\ Unread \notin ValuesOf(part)
    /\ \/ part.op \in {"exists", "notexists"} /\ part.values = <<>>
       \/ part.op \in {"eq", "noteq"} /\ Len(part.values) = 1
       \/ part.op \in {"in", "notin"} /\ Len(part.values) \in 1..MAX_SET_VALUES

ReadsKey(part) == part.key # Unread

ReadsRequirement(part) == ReadsKey(part) /\ ReadsValues(part)

Requirement(part) == [op |-> part.op, key |-> part.key, values |-> ValuesOf(part)]

\* reject_conflicting_equality: two equalities of a key must name the same value.
Conflicting(parts) ==
    \E i, j \in DOMAIN parts :
        /\ parts[i].op = "eq" /\ parts[j].op = "eq" /\ parts[i].key = parts[j].key
        /\ ValuesOf(parts[i]) # ValuesOf(parts[j])

\* An equality that is repeated is dropped; what else is repeated stays.
Kept(parts) ==
    {i \in DOMAIN parts :
        parts[i].op = "eq" => ~\E j \in 1..(i - 1) : parts[j].op = "eq" /\ parts[j].key = parts[i].key}

\* canonical_of sorts, so that only how often a requirement is there matters.
Canonical(parts) ==
    [q \in {Requirement(parts[i]) : i \in Kept(parts)} |->
        Cardinality({i \in Kept(parts) : Requirement(parts[i]) = q})]

ParseSelector(text) ==
    IF text.kind # "list" THEN text
    ELSE IF Len(text.parts) > MAX_REQUIREMENTS
            \/ (\E i \in DOMAIN text.parts : ~ReadsRequirement(text.parts[i]))
            \/ Conflicting(text.parts)
         THEN Refused
         ELSE [kind |-> "filter", canonical |-> Canonical(text.parts)]

\* The tags of a node are a function from some keys to values.
RequirementMatches(q, tags) ==
    LET among == q.key \in DOMAIN tags /\ tags[q.key] \in q.values IN
    CASE q.op \in {"eq", "in"} -> among
      [] q.op \in {"noteq", "notin"} -> ~among
      [] q.op = "exists" -> q.key \in DOMAIN tags
      [] q.op = "notexists" -> q.key \notin DOMAIN tags

SelectorMatches(filter, tags) == \A q \in DOMAIN filter.canonical : RequirementMatches(q, tags)

-----------------------------------------------------------------------------
\* A target: a text, an optional set of ids (a set of at most one), ids to leave
\* out, and optionally the ids that the operator saw.
Body(text, picked, excluded, expected) ==
    [text |-> text, picked |-> picked, excluded |-> excluded, expected |-> expected]

NoTarget == Body(Blank, {}, {}, {})
OfNodes(ids) == Body(Blank, {ids}, {}, {})

HasMode(body) == body.text # Blank \/ body.picked # {}

\* Exactly one of selector and node_ids.
ParseTarget(body) ==
    LET parsed == ParseSelector(body.text) IN
    IF (body.text # Blank) = (body.picked # {}) \/ parsed = Refused THEN Refused
    ELSE [kind |-> "target", selector |-> parsed, picked |-> body.picked,
          excluded |-> body.excluded, expected |-> body.expected]

\* coalesce_target: requests that run a bundle may give the ids beside the target.
CoalesceTarget(body, ids) ==
    IF HasMode(body) THEN ParseTarget(body)
    ELSE IF ids # {} THEN ParseTarget(OfNodes(ids)) ELSE Refused

\* prepare_skill_aim: so may requests that install, and there a label selector
\* comes before the ids; what it selects is checked once the nodes are read.
PrepareAim(body, ids, labelled) ==
    IF HasMode(body) THEN ParseTarget(body)
    ELSE IF labelled # {} THEN [ParseTarget(OfNodes(labelled)) EXCEPT !.kind = "aim"]
    ELSE IF ids # {} THEN ParseTarget(OfNodes(ids)) ELSE Refused

Covers(target, id, tags) ==
    CASE target.picked # {} -> \E ids \in target.picked : id \in ids
      [] target.selector = Star -> TRUE
      [] OTHER -> SelectorMatches(target.selector, tags)

\* resolve_parsed, for the tags of all nodes.  An unknown id is an error even if it
\* is excluded, unless the ids were found by their labels.
Unknown(target, view) ==
    IF target.kind = "aim" THEN {} ELSE UNION target.picked \ DOMAIN view

ResolveParsed(target, view) == {n \in DOMAIN view \ target.excluded : Covers(target, n, view[n])}

DiffIds(expected, live) == [added |-> live \ expected, removed |-> expected \ live]

\* A target that names what the operator saw has not changed.
Unchanged(target, live) ==
    \A ids \in target.expected : DiffIds(ids, live) = [added |-> {}, removed |-> {}]

SizeOk(live) == Cardinality(live) <= MAX_TARGETS
=============================================================================
