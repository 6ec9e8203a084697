------------------------------- MODULE SkillHost -------------------------------
(***************************************************************************)
(* SkillHost of the node, skills/mod.rs: reconcile works through a desired *)
(* set, one package after the other, while the process may stop between    *)
(* any two writes to the disk.  One reconcile runs at a time; what it      *)
(* changes in memory is seen when it is done.                              *)
(***************************************************************************)
EXTENDS Naturals, FiniteSets, Sequences, SequencesExt

CONSTANTS
    Names,        \* numbers: the order of the skills in a set is that of the names
    MaxVer,
    Offered,      \* the versions of each skill the center may want
    MaxGen,
    Keep,         \* keep_previous_versions
    Quota,        \* packages that fit store_quota_bytes
    MaxAttempts,  \* max_attempts of an install
    Unfit,        \* versions whose package never installs
    MaxStops,     \* bound on stops of the process
    MaxMishaps    \* bound on failed writes, damaged and corrupt packages

None == 0
Vers == 1..MaxVer
VersOrNone == 0..MaxVer

ASSUME HostAssumption ==
    /\ Names \subseteq Nat \ {0} /\ MaxVer \in Nat /\ MaxGen \in Nat /\ Quota \in Nat
    /\ Keep \in Nat \ {0} /\ MaxAttempts \in Nat \ {0}
    /\ Offered \in [Names -> SUBSET Vers] /\ Unfit \subseteq Vers
    /\ MaxStops \in Nat /\ MaxMishaps \in Nat

VARIABLES
    store,    \* store/<sha256>
    part,     \* downloads/<sha256>.part
    file,     \* state.json
    mem,      \* Inner: what the host runs
    pc,       \* where reconcile stands
    job,      \* the locals of reconcile
    stops,
    mishaps,
    damaged,  \* packages altered in the store, or put to use as a removal left them
    unsaved   \* sets applied since state.json was last written

hostVars == <<store, part, file, mem, pc, job, stops, mishaps, damaged, unsaved>>

\* A package in the store is whole, of other bytes, without some file that neither
\* the marker check nor verify_active looks at ("thin"), a marker without the
\* manifest or the module ("torn"), or files without the marker ("bare").
StoreStates == {"none", "good", "altered", "thin", "torn", "bare"}

\* A download is a prefix of the package, and holds wrong bytes or not.
Download == [len : 0..2, bad : BOOLEAN]
NoPart == [len |-> 0, bad |-> FALSE]
Full == 2

\* A skill the host runs: its version and the earlier ones it keeps.
Off == [ver |-> None, prev |-> <<>>]
NoSkills == [n \in Names |-> Off]

NoJob == [gen |-> 0, want |-> [n \in Names |-> None], active |-> NoSkills,
          left |-> {}, failed |-> {}, cur |-> 0, tries |-> 0, bytes |-> "good", drop |-> {}]

Stopped == [gen |-> 0, seen |-> 0, skills |-> NoSkills, failed |-> {}]

Init ==
    /\ store = [n \in Names |-> [v \in Vers |-> "none"]]
    /\ part = [n \in Names |-> [v \in Vers |-> NoPart]]
    /\ file = [gen |-> 0, skills |-> NoSkills]
    /\ mem = Stopped
    /\ pc = "idle"
    /\ job = NoJob
    /\ stops = 0 /\ mishaps = 0 /\ damaged = {} /\ unsaved = 0

Mishap == mishaps < MaxMishaps /\ mishaps' = mishaps + 1

\* store_verified looks at the marker alone.
Verified(n, v) == store[n][v] \in {"good", "altered", "thin", "torn"}

\* remove_tree: files go in any order, and an error that ends it is ignored.
Rests(s) ==
    {s} \cup (IF s \in {"none", "bare"} THEN {} ELSE {"torn", "bare"})
        \cup (IF s = "good" THEN {"thin"} ELSE {})

\* store_has_room: whatever lies in the store counts.
HasRoom(n, v) ==
    LET held == {p \in Names \X Vers : store[p[1]][p[2]] # "none"}
    IN  Verified(n, v) \/ Cardinality(held) < Quota

(***************************************************************************)
(* reconcile: the skills of the set, one after the other                   *)
(***************************************************************************)
Cur == job.cur
Ver == job.want[job.cur]

Wants == {want \in [Names -> VersOrNone] : \A n \in Names : want[n] \in Offered[n] \cup {None}}

\* is_noop
Noop(g) == g < mem.gen \/ (g = mem.gen /\ mem.failed = {})

\* Skills that are no longer wanted drop out of the copy reconcile works on.
Begin(g, want) ==
    /\ pc = "idle" /\ ~Noop(g)
    /\ mem' = [mem EXCEPT !.seen = IF g > @ THEN g ELSE @]
    /\ job' = [NoJob EXCEPT !.gen = g, !.want = want,
                            !.left = {n \in Names : want[n] # None},
                            !.active = [n \in Names |-> IF want[n] = None THEN Off ELSE mem.skills[n]]]
    /\ pc' = "next"
    /\ UNCHANGED <<store, part, file, stops, mishaps, damaged, unsaved>>

Pick(n) ==
    /\ pc = "next" /\ n \in job.left /\ \A m \in job.left : n <= m
    /\ job' = [job EXCEPT !.cur = n, !.left = @ \ {n}, !.tries = 0]
    /\ pc' = "try"
    /\ UNCHANGED <<store, part, file, mem, stops, mishaps, damaged, unsaved>>

\* Mutant: the copy loses the skill.
GiveUpDrops ==
    /\ job' = [job EXCEPT !.failed = @ \cup {Cur}, !.active[Cur] = Off]
    /\ pc' = "next"

\* The install has failed for good: the copy keeps the version it has.
GiveUp ==
    /\ job' = [job EXCEPT !.failed = @ \cup {Cur}]
    /\ pc' = "next"

(***************************************************************************)
(* install_skill and try_install                                           *)
(***************************************************************************)
\* max_elapsed may be over by the time of a later skill or a later attempt.
Late == job.tries > 0 \/ \E m \in Names : m < Cur /\ job.want[m] # None

\* The ABI and the room are checked first.  A stored package may be unreadable, and
\* its module not compile into the cache.
Refused ==
    /\ GiveUp
    /\ IF Ver \in Unfit \/ ~HasRoom(Cur, Ver) \/ Late \/ store[Cur][Ver] \in {"altered", "torn"}
       THEN UNCHANGED mishaps
       ELSE Verified(Cur, Ver) /\ Mishap

\* A package the store has is not fetched; if its module is gone, reading it fails.
Attempt ==
    /\ HasRoom(Cur, Ver)
    /\ pc' = CASE store[Cur][Ver] = "torn"                        -> "failed"
               [] store[Cur][Ver] # "torn" /\ Verified(Cur, Ver) -> "place"
               [] OTHER                                           -> "fetch"
    /\ UNCHANGED mishaps

\* Mutant: the attempts are not counted.
TryUncounted ==
    /\ pc = "try"
    /\ Refused \/ (Attempt /\ UNCHANGED job)
    /\ UNCHANGED <<store, part, file, mem, stops, damaged, unsaved>>

Try ==
    /\ pc = "try"
    /\ Refused \/ (Attempt /\ job' = [job EXCEPT !.tries = @ + 1])
    /\ UNCHANGED <<store, part, file, mem, stops, damaged, unsaved>>

\* A failure that may be retried, while attempts and time are left.
Retry ==
    /\ pc = "failed"
    /\ \/ job.tries < MaxAttempts /\ pc' = "try" /\ UNCHANGED job
       \/ GiveUp
    /\ UNCHANGED <<store, part, file, mem, stops, mishaps, damaged, unsaved>>

\* fetch_package.  A complete download of the right bytes is used as it is, one
\* of wrong bytes removed.
Usable == part[Cur][Ver] = [len |-> Full, bad |-> FALSE]

Begun == IF part[Cur][Ver].len = Full THEN NoPart ELSE part[Cur][Ver]

\* The center's answer continues the download.  It may end early or hold wrong
\* bytes; an error leaves the download as it was.
Fetch ==
    /\ pc = "fetch" /\ ~Usable
    /\ \/ \E len \in Begun.len..Full, bad \in BOOLEAN :
              /\ bad => len > Begun.len
              /\ part' = [part EXCEPT ![Cur][Ver] = [len |-> len, bad |-> Begun.bad \/ bad]]
              /\ IF bad \/ len < Full THEN Mishap ELSE UNCHANGED mishaps
              /\ pc' = "verify"
       \/ /\ part' = [part EXCEPT ![Cur][Ver] = Begun]
          /\ pc' = "failed"
          /\ UNCHANGED mishaps
    /\ UNCHANGED <<store, file, mem, job, stops, damaged, unsaved>>

\* The center never answers, or its connection is dead: no time limit ends a fetch.
Hang ==
    /\ pc = "fetch" /\ ~Usable
    /\ part' = [part EXCEPT ![Cur][Ver] = Begun]
    /\ pc' = "hung"
    /\ UNCHANGED <<store, file, mem, job, stops, mishaps, damaged, unsaved>>

\* The package is opened: its manifest, its platform, and it must compile.
Open(bytes) ==
    IF Ver \in Unfit THEN GiveUp
    ELSE pc' = "seal" /\ job' = [job EXCEPT !.bytes = bytes]

Resume ==
    /\ pc = "fetch" /\ Usable
    /\ Open("good")
    /\ UNCHANGED <<store, part, file, mem, stops, mishaps, damaged, unsaved>>

\* Mutant: only what was fetched is digested, not the earlier prefix.
VerifyTail ==
    /\ pc = "verify"
    /\ LET p == part[Cur][Ver]
       IN  IF p.len < Full
           THEN pc' = "failed" /\ UNCHANGED <<part, job>>
           ELSE /\ part' = [part EXCEPT ![Cur][Ver] = NoPart]
                /\ Open(IF p.bad THEN "altered" ELSE "good")
    /\ UNCHANGED <<store, file, mem, stops, mishaps, damaged, unsaved>>

\* The digest is taken over the earlier prefix and what was fetched.
Verify ==
    /\ pc = "verify"
    /\ LET p == part[Cur][Ver]
       IN  IF p.len < Full
           THEN pc' = "failed" /\ UNCHANGED <<part, job>>
           ELSE /\ part' = [part EXCEPT ![Cur][Ver] = NoPart]
                /\ IF p.bad THEN pc' = "failed" /\ UNCHANGED job
                            ELSE Open("good")
    /\ UNCHANGED <<store, file, mem, stops, mishaps, damaged, unsaved>>

\* seal_store: the package is written to staging and renamed into the store.  When
\* that fails, what lay there is still there, or the rest of a removal.
Seal ==
    /\ pc = "seal"
    /\ \/ /\ store' = [store EXCEPT ![Cur][Ver] = job.bytes]
          /\ damaged' = damaged \ {<<Cur, Ver>>}
          /\ pc' = "place"
          /\ UNCHANGED <<job, mishaps>>
       \/ /\ Mishap
          /\ \E rest \in {"none", store[Cur][Ver]} \cup Rests(job.bytes) :
                 store' = [store EXCEPT ![Cur][Ver] = rest]
          /\ GiveUp
          /\ UNCHANGED damaged
    /\ UNCHANGED <<part, file, mem, stops, unsaved>>

\* The versions kept once Ver takes the place of what the copy has.
Previous ==
    LET had == job.active[Cur]
    IN  IF had.ver = None THEN <<>>
        ELSE IF had.ver = Ver THEN had.prev ELSE <<had.ver>> \o had.prev

\* Mutant: one version fewer is kept.
KeptFewer == SubSeq(Previous, 1, IF Len(Previous) < Keep THEN Len(Previous) ELSE Keep - 1)

\* trim_previous
Kept == SubSeq(Previous, 1, IF Len(Previous) < Keep THEN Len(Previous) ELSE Keep)

\* Trimmed versions, but for those sha_referenced finds still in use.
Dropped == {v \in ToSet(Previous) : v # Ver /\ v \notin ToSet(Kept)}

\* Packages that are put to use although a removal left them thin.
Thin(skills) == {<<n, skills[n].ver>> : n \in {m \in Names : /\ skills[m].ver # None
                                                             /\ store[m][skills[m].ver] = "thin"}}

\* Removing a directory takes several calls, the process may stop between them.
Place ==
    /\ pc = "place"
    /\ job' = [job EXCEPT !.active[Cur] = [ver |-> Ver, prev |-> Kept], !.drop = Dropped]
    /\ \E rest \in [Dropped -> StoreStates] :
           /\ \A v \in Dropped : rest[v] \in Rests(store[Cur][v])
           /\ store' = [store EXCEPT ![Cur] = [v \in Vers |-> IF v \in Dropped THEN rest[v] ELSE @[v]]]
    /\ damaged' = damaged \cup IF store[Cur][Ver] = "thin" THEN {<<Cur, Ver>>} ELSE {}
    /\ pc' = IF Dropped = {} THEN "next" ELSE "drop"
    /\ UNCHANGED <<part, file, mem, stops, mishaps, unsaved>>

\* The removal ends, or an error leaves what there is.
Drop ==
    /\ pc = "drop"
    /\ \/ /\ store' = [store EXCEPT ![Cur] = [v \in Vers |-> IF v \in job.drop THEN "none" ELSE @[v]]]
          /\ damaged' = damaged \ {<<Cur, v>> : v \in job.drop}
          /\ UNCHANGED mishaps
       \/ Mishap /\ UNCHANGED <<store, damaged>>
    /\ job' = [job EXCEPT !.drop = {}]
    /\ pc' = "next"
    /\ UNCHANGED <<part, file, mem, stops, unsaved>>

(***************************************************************************)
(* The end of reconcile                                                    *)
(***************************************************************************)
\* write_state: state.json is replaced at once.  A failure is only logged.
WriteState ==
    /\ pc = "next" /\ job.left = {}
    /\ \/ /\ file' = [gen |-> job.gen, skills |-> job.active]
          /\ unsaved' = 0
          /\ UNCHANGED mishaps
       \/ Mishap /\ unsaved' = unsaved + 1 /\ UNCHANGED file
    /\ pc' = "switch"
    /\ UNCHANGED <<store, part, mem, job, stops, damaged>>

\* Inner takes the new set, and the report of it.
Switch ==
    /\ pc = "switch"
    /\ mem' = [gen |-> job.gen, seen |-> mem.seen, skills |-> job.active, failed |-> {}]
    /\ job' = NoJob
    /\ pc' = "idle"
    /\ UNCHANGED <<store, part, file, stops, mishaps, damaged, unsaved>>

(***************************************************************************)
(* Stops, damage and SkillHost::open                                       *)
(***************************************************************************)
\* What was being appended to a download may be there in part.
Stop ==
    /\ pc # "down" /\ stops < MaxStops
    /\ part' \in {part} \cup IF pc = "fetch" /\ ~Usable
                             THEN {[part EXCEPT ![Cur][Ver] = [Begun EXCEPT !.len = l]] : l \in Begun.len..Full}
                             ELSE {}
    /\ mem' = Stopped /\ job' = NoJob
    /\ pc' = "down"
    /\ stops' = stops + 1
    /\ UNCHANGED <<store, file, mishaps, damaged, unsaved>>

\* Somebody alters a package of the store, or removes files of it.
Damage(n, v) ==
    /\ store[n][v] = "good" /\ Mishap
    /\ \E s \in {"altered", "thin", "torn", "bare"} : store' = [store EXCEPT ![n][v] = s]
    /\ damaged' = damaged \cup {<<n, v>>}
    /\ UNCHANGED <<part, file, mem, pc, job, stops, unsaved>>

\* verify_active: the marker, the manifest, and the module against its hash.
Tampered == {n \in Names : /\ file.skills[n].ver # None
                            /\ store[n][file.skills[n].ver] \notin {"good", "thin"}}

\* Damaged packages are moved to quarantine/ and their skills are off, which is
\* saved with generation 0.  If that cannot be saved the node does not start.
Start ==
    /\ pc = "down"
    /\ store' = [n \in Names |-> IF n \in Tampered THEN [store[n] EXCEPT ![file.skills[n].ver] = "none"]
                                                   ELSE store[n]]
    /\ \/ /\ file' = IF Tampered = {} THEN file
                     ELSE [gen |-> 0,
                           skills |-> [n \in Names |-> IF n \in Tampered THEN Off ELSE file.skills[n]]]
          /\ mem' = [gen |-> file'.gen, seen |-> file'.gen, skills |-> file'.skills, failed |-> Tampered]
          /\ damaged' = (damaged \ {<<n, file.skills[n].ver>> : n \in Tampered}) \cup Thin(file.skills)
          /\ pc' = "idle"
          /\ unsaved' = 0
          /\ UNCHANGED mishaps
       \/ Tampered # {} /\ Mishap /\ UNCHANGED <<file, mem, pc, unsaved, damaged>>
    /\ UNCHANGED <<part, job, stops>>

(***************************************************************************)
(* The specification                                                       *)
(***************************************************************************)
Install == Try \/ Retry \/ Fetch \/ Resume \/ Verify \/ Seal \/ Place \/ Drop

Reconcile == (\E n \in Names : Pick(n)) \/ Install \/ WriteState \/ Switch

Next ==
    \/ \E g \in 1..MaxGen, want \in Wants : Begin(g, want)
    \/ Reconcile
    \/ Hang
    \/ Stop \/ Start
    \/ \E n \in Names : \E v \in Offered[n] : Damage(n, v)

\* The task that reconciles runs on.  A fetch that hangs has no fairness.
Spec == Init /\ [][Next]_hostVars /\ WF_hostVars(Reconcile)

(***************************************************************************)
(* Properties                                                              *)
(***************************************************************************)
Skill == [ver : VersOrNone, prev : Seq(Vers)]

\* Whatever reconcile removes or fails to fetch, the package of a skill the host
\* runs is whole in the store, unless somebody altered it since or it was put to
\* use as the rest of a removal that broke off.
ActiveInStore ==
    \A n \in Names : LET v == mem.skills[n].ver
                     IN  v # None => store[n][v] = "good" \/ <<n, v>> \in damaged

\* A restart finds the packages it needs, unless one of these happened to them or
\* as many sets were applied without being saved as previous versions are kept.
SavedInStore ==
    \A n \in Names : LET v == file.skills[n].ver
                     IN  v # None => \/ store[n][v] = "good"
                                     \/ <<n, v>> \in damaged
                                     \/ unsaved >= Keep

Promised ==
    INSTANCE SkillSet WITH
        gen   <- IF pc = "down" THEN file.gen ELSE mem.gen,
        ver   <- [n \in Names |-> IF pc = "down" THEN file.skills[n].ver ELSE mem.skills[n].ver],
        saved <- [gen |-> file.gen, ver |-> [n \in Names |-> file.skills[n].ver]],
        aim   <- [gen |-> job.gen, want |-> job.want]

\* The host keeps the promise of SkillSet: it switches to a set only as a whole,
\* a failed install keeps the version there was, and stops lose nothing saved.
KeepsPromise == Promised!Spec

\* A reconcile ends, however often its fetches fail, unless one of them hangs: the
\* next generation waits for it.
ReconcileEnds == pc \notin {"idle", "down"} ~> pc \in {"idle", "down", "hung"}
=============================================================================
