------------------------------- MODULE SkillSet -------------------------------
(***************************************************************************)
(* What the skill host of a node promises: the versions it runs change     *)
(* only when a whole desired set has been worked through, a skill that     *)
(* could not be installed keeps the version it had, and a restart brings   *)
(* back what was saved, less the skills whose files were damaged.          *)
(***************************************************************************)
EXTENDS Naturals

CONSTANTS
    Names,
    MaxVer,
    MaxGen

None == 0
VersOrNone == 0..MaxVer

VARIABLES
    gen,    \* generation the host says it has applied
    ver,    \* version of each skill it runs, None if it has none
    saved,  \* what a restart would start from
    aim     \* the set it works through, if any

setVars == <<gen, ver, saved, aim>>

Idle == [gen |-> 0, want |-> [n \in Names |-> None]]

Init ==
    /\ gen = 0
    /\ ver = [n \in Names |-> None]
    /\ saved = [gen |-> 0, ver |-> ver]
    /\ aim = Idle

\* An older generation is not begun again.
Begin(g, want) ==
    /\ aim = Idle /\ g >= gen
    /\ aim' = [gen |-> g, want |-> want]
    /\ UNCHANGED <<gen, ver, saved>>

\* Versions vs come of working through the set: each skill has the version that
\* is wanted or the one it had, and none if none is wanted.
Outcome(vs) ==
    \A n \in Names : vs[n] \in IF aim.want[n] = None THEN {None} ELSE {aim.want[n], ver[n]}

Save ==
    /\ aim # Idle
    /\ saved'.gen = aim.gen /\ Outcome(saved'.ver)
    /\ UNCHANGED <<gen, ver, aim>>

\* The host goes on with what it saved, or with a set it failed to save.
Apply ==
    /\ aim # Idle
    /\ gen' = aim.gen /\ Outcome(ver')
    /\ aim' = Idle
    /\ UNCHANGED saved

Restart(lost) ==
    /\ saved' = IF lost = {} THEN saved
                ELSE [gen |-> 0, ver |-> [n \in Names |-> IF n \in lost THEN None ELSE saved.ver[n]]]
    /\ gen' = saved'.gen
    /\ ver' = saved'.ver
    /\ aim' = Idle

Next ==
    \/ \E g \in 1..MaxGen, want \in [Names -> VersOrNone] : Begin(g, want)
    \/ Save \/ Apply
    \/ \E lost \in SUBSET Names : Restart(lost)

Spec == Init /\ [][Next]_setVars
=============================================================================
