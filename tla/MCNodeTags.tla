------------------------------- MODULE MCNodeTags -------------------------------
(* Targets that name nodes in each way there is: `*`, selectors on a tag that *)
(* registrations, edits and bulk requests change, and ids.                    *)
EXTENDS NodeTags, TLC

Env(op, values) == Written(op, "env", values)

MCTargets == {
    ParseTarget(Body(Star, {}, {2}, {})),
    CoalesceTarget(Body(List(<<Env("eq", <<"dev">>), Env("eq", <<"dev">>)>>), {}, {}, {}), {1}),
    PrepareAim(Body(List(<<Env("notin", <<"dev">>), Written("notexists", "role", <<>>)>>), {}, {}, {}), {}, {}),
    CoalesceTarget(NoTarget, {1, 2})}

\* What is refused before any node is looked at.
ASSUME
    /\ Refused = ParseTarget(NoTarget)
    /\ Refused = ParseTarget(Body(Star, {{1}}, {}, {}))
    /\ Refused = ParseTarget(Body(List(<<Env("eq", <<"dev">>), Env("eq", <<"prod">>)>>), {}, {}, {}))
    /\ Refused = ParseSelector(List([i \in 1..(MAX_REQUIREMENTS + 1) |-> Env("exists", <<>>)]))
    /\ Refused = CoalesceTarget(NoTarget, {})

Symmetry == Permutations(Requests)
=============================================================================
