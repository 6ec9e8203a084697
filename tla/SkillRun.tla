------------------------------- MODULE SkillRun -------------------------------
(***************************************************************************)
(* One skill from its project to its runs: packed, uploaded, planned for a *)
(* node, installed there and run by that node's two tasks that run specs,  *)
(* the control session (dispatches) and the scheduler (due specs).  Both   *)
(* share one WASM engine, its epoch, its cache of one component, and the   *)
(* run permits.  Time passes in epoch ticks of a run.                      *)
(***************************************************************************)
EXTENDS HostCalls

CONSTANTS
    Packages,  \* the projects and hand-made packages considered
    Wanted,    \* the paths a guest asks for
    LastVer,   \* versions the node goes through
    Ticks,     \* the timeout of a run, in ticks
    MaxDenials \* DENIAL_LIMIT

ASSUME RunAssumption ==
    /\ Packages \subseteq Package
    /\ LastVer \in Nat /\ Ticks \in Nat \ {0} /\ MaxDenials \in Nat \ {0}

VARIABLES
    pkg,     \* the package as it stands
    stage,   \* how far it came
    grants,  \* the grants the center recorded and the ones the node holds
    alike,   \* the engine cannot tell the modules of two versions apart
    active,  \* the version that is active and the ones in the store
    permits, \* the semaphore: how often it was replaced and its size
    cache,   \* the version whose module is the engine's one component
    task     \* what each task of the node is at

runVars == <<pkg, stage, grants, alike, active, permits, cache, task>>

Tasks == {"session", "scheduler"}
NoVer == 0
Versions == 1..LastVer

Idle == [pc |-> "idle", ver |-> NoVer, sem |-> 0, left |-> 0, age |-> 0, shared |-> FALSE,
         ticker |-> FALSE, code |-> NoVer, denials |-> 0, result |-> "none"]

RunInit ==
    /\ pkg \in Packages
    /\ stage = "project"
    /\ grants = [center |-> {}, node |-> {}]
    /\ alike = FALSE
    /\ active = [ver |-> 1, store |-> {1}]
    /\ permits = [id |-> 0, size |-> 2]
    /\ cache = NoVer
    /\ task = [t \in Tasks |-> Idle]

-----------------------------------------------------------------------------
(* The way to the node                                                       *)

Moves(from, to) ==
    stage = from /\ stage' = to /\ UNCHANGED <<active, permits, cache, task>>

\* novbot-skill pack, and publish, which first opens the package as a node does.
Pack ==
    /\ Moves("project", IF Packs(pkg) THEN "packed" ELSE "refused by author")
    /\ pkg' = IF Packs(pkg) THEN Packed(pkg) ELSE pkg
    /\ UNCHANGED <<grants, alike>>

Publish ==
    /\ Moves("packed", IF NodeLoads(pkg) THEN "sent" ELSE "refused by author")
    /\ UNCHANGED <<pkg, grants, alike>>

\* A package made by other means is uploaded as it is.
UploadByHand == Moves("project", "sent") /\ UNCHANGED <<pkg, grants, alike>>

Register ==
    /\ Moves("sent", IF CenterAccepts(pkg) THEN "registered" ELSE "refused by center")
    /\ grants' = [grants EXCEPT !.center =
                     IF CenterAccepts(pkg) THEN {CenterGrant(e) : e \in pkg.caps} ELSE {}]
    /\ UNCHANGED <<pkg, alike>>

\* labelled: the node has declared its platform.
Plan ==
    /\ \E labelled \in BOOLEAN :
          Moves("registered", IF NodeTooOld(pkg) \/ PlatformUnsupported(pkg, labelled)
                              THEN "held" ELSE "desired")
    /\ UNCHANGED <<pkg, grants, alike>>

InstallSkill ==
    /\ Moves("desired", IF NodeInstalls(pkg) THEN "installed" ELSE "failed")
    /\ grants' = [grants EXCEPT !.node =
                     IF NodeInstalls(pkg) THEN {GrantString(e) : e \in pkg.caps} ELSE {}]
    \* the runs look at nothing else of an installed package
    /\ pkg' = IF NodeInstalls(pkg)
              THEN [caps |-> pkg.caps, schema |-> pkg.schema, wasm |-> pkg.wasm] ELSE pkg
    \* the fingerprint of a module reads every 64th byte only
    /\ alike' \in IF NodeInstalls(pkg) THEN BOOLEAN ELSE {alike}

-----------------------------------------------------------------------------
(* The node's runs: run_hub and the engine                                   *)

Runs == stage = "installed" /\ UNCHANGED <<pkg, stage, grants, alike>>

\* A guest is in its own code, or waits in a call of the host.
Guests == {t \in Tasks : task[t].pc \in {"guest", "host"}}
Holders == {t \in Tasks : task[t].pc \in {"start", "guest", "host", "ending"} /\ task[t].sem = permits.id}

\* Told apart are the answers that every run of the package gets (its schema cannot
\* be applied, the runtime takes not all of its grants, the linker not its module)
\* and a denial; all others are "answered".
Answer(t, result) == task' = [task EXCEPT ![t] = [Idle EXCEPT !.result = result]]

\* The skill a spec names is looked up among the active ones.
Take(t) ==
    /\ Runs /\ task[t].pc = "idle"
    /\ task' = [task EXCEPT ![t] = [Idle EXCEPT !.pc = "load", !.ver = active.ver]]
    /\ UNCHANGED <<active, permits, cache>>

\* Mutant: a permit is waited for.
LoadWaits(t) ==
    /\ Runs /\ task[t].pc = "load"
    /\ IF task[t].ver \notin active.store THEN Answer(t, "answered")
       ELSE /\ Cardinality(Holders) < permits.size
            /\ task' = [task EXCEPT ![t].pc = "start", ![t].sem = permits.id]
    /\ UNCHANGED <<active, permits, cache>>

\* What the spec asks for may not fit the version; then the version looked up is
\* read from the store, the arguments are held against its schema, and a permit is
\* asked for, which may be busy.
Load(t) ==
    /\ Runs /\ task[t].pc = "load"
    /\ \/ Answer(t, "answered")
       \/ CASE task[t].ver \notin active.store -> Answer(t, "answered")
            [] pkg.schema = "odd" -> Answer(t, "invalid_params")
            [] Cardinality(Holders) >= permits.size -> Answer(t, "answered")
            [] OTHER -> task' = [task EXCEPT ![t].pc = "start", ![t].sem = permits.id]
    /\ UNCHANGED <<active, permits, cache>>

\* Mutant: whatever is cached is taken.
ComponentKept(ver) == IF cache # NoVer THEN cache ELSE ver

\* The engine keeps the component it compiled last.
Component(ver) == IF cache # NoVer /\ (cache = ver \/ alike) THEN cache ELSE ver

\* What the guest comes to as it enters, its ticker spawned or not.  A component that
\* cannot be linked ends at once, one that fails otherwise before its first
\* instruction is a guest that traps.
Entered(t, code, ticker) ==
    IF pkg.wasm = "unlinked"
    THEN [Idle EXCEPT !.pc = "ending", !.sem = task[t].sem, !.ticker = ticker, !.result = "unlinked"]
    ELSE [task[t] EXCEPT !.pc = "guest", !.code = code, !.left = Ticks, !.ticker = ticker]

\* The grants are parsed again, the module compiled or found, which may fail, the
\* ticker started, which may fail unnoticed, and the deadline set.
Enter(t) ==
    /\ Runs /\ task[t].pc = "start"
    /\ \/ /\ \A g \in grants.node : ParseGrant(g)
          /\ cache' = Component(task[t].ver)
          /\ \E ticker \in BOOLEAN : task' = [task EXCEPT ![t] = Entered(t, cache', ticker)]
       \/ /\ Answer(t, IF \A g \in grants.node : ParseGrant(g)
                         THEN "answered" ELSE "capability_unsupported")
          /\ UNCHANGED cache
    /\ UNCHANGED <<active, permits>>

\* Whatever the guest did, a denial decides the answer.  The run is over, and
\* its permit free, once its ticker has stopped.
Finish(t) ==
    task' = [task EXCEPT ![t] =
                [Idle EXCEPT !.pc = "ending", !.sem = task[t].sem, !.ticker = task[t].ticker,
                             !.result = IF task[t].denials > 0 THEN "capability_denied" ELSE "answered"]]

Over(t) == [Idle EXCEPT !.result = task[t].result]

Join(t) ==
    /\ Runs /\ task[t].pc = "ending"
    /\ task' = [task EXCEPT ![t] = Over(t)]
    /\ UNCHANGED <<active, permits, cache>>

\* A host call that is denied, which a guest can always come by: WASI's files,
\* sockets and environment are declared by no grant.  Once there are enough
\* denials, the next call of any kind traps.
Call(t) ==
    /\ Runs /\ task[t].pc = "guest"
    /\ \E import \in Shadowed : \A answer \in WasiCall(grants.node, import, <<>>) : IsDenial(answer)
    /\ IF task[t].denials >= MaxDenials THEN Finish(t)
       ELSE task' = [task EXCEPT ![t].denials = @ + 1]
    /\ UNCHANGED <<active, permits, cache>>

\* The guest returns or traps.
Return(t) ==
    /\ Runs /\ task[t].pc = "guest"
    /\ Finish(t)
    /\ UNCHANGED <<active, permits, cache>>

\* A call that the host takes its time for: the clocks that a guest may sleep on are
\* the host's own, and fs.read opens whatever is there, a pipe as well.
WaitInHost(t) ==
    /\ Runs /\ task[t].pc = "guest"
    /\ task' = [task EXCEPT ![t].pc = "host"]
    /\ UNCHANGED <<active, permits, cache>>

ComeBack(t) ==
    /\ Runs /\ task[t].pc = "host"
    /\ task' = [task EXCEPT ![t].pc = "guest"]
    /\ UNCHANGED <<active, permits, cache>>

\* Every run starts a thread that advances the engine's epoch, which is one for
\* all of them, and which may do so once more after the guest is done.
Ticking == {t \in Tasks : task[t].pc \in {"guest", "host", "ending"}}
Clocks == {t \in Ticking : task[t].ticker}

\* Mutant: the thread outlives its run.
TickersLeak == Cardinality(Clocks \cup {t \in Tasks : task[t].result # "none"})

Tickers == Cardinality(Clocks)

Tick ==
    /\ Runs /\ Clocks # {}
    /\ \E t \in Ticking : t \in Clocks \ Guests \/ task[t].left > 0
    /\ task' = [t \in Tasks |->
                   CASE t \in Guests ->
                          [task[t] EXCEPT !.left = IF @ > Tickers THEN @ - Tickers ELSE 0,
                                          !.age = IF task[t].left > 0 THEN @ + 1 ELSE @,
                                          !.shared = @ \/ Cardinality(Ticking) > 1]
                     [] t \in Clocks \ Guests -> Over(t)
                     [] OTHER -> task[t]]
    /\ UNCHANGED <<active, permits, cache>>

\* The epoch is looked at in the guest's own code, at its calls and loops.
Interrupt(t) ==
    /\ Runs /\ task[t].pc = "guest" /\ task[t].left = 0
    /\ Finish(t)
    /\ UNCHANGED <<active, permits, cache>>

\* reconcile: the next version becomes active, its predecessor is kept, and the
\* policy of the set may bring another number of permits, on a new semaphore.
Activate(n) ==
    /\ Runs /\ active.ver < LastVer
    /\ active' = [ver |-> active.ver + 1, store |-> {active.ver, active.ver + 1}]
    /\ permits' = IF n = permits.size THEN permits ELSE [id |-> permits.id + 1, size |-> n]
    /\ UNCHANGED <<cache, task>>

-----------------------------------------------------------------------------
Way == Pack \/ Publish \/ UploadByHand \/ Register \/ Plan \/ InstallSkill
Host(t) ==
    \/ Take(t) \/ Load(t) \/ Enter(t) \/ Call(t) \/ Return(t)
    \/ WaitInHost(t) \/ ComeBack(t) \/ Interrupt(t) \/ Join(t)

RunNext == Way \/ Tick \/ (\E t \in Tasks : Host(t)) \/ \E n \in 1..2 : Activate(n)

\* A guest need not return, from its own code or from the host: only the host's own
\* steps are fair.  A guest that comes back from the host again and again is in a loop
\* and passes the place where the epoch is looked at, hence the strong fairness.
RunFairness ==
    /\ WF_runVars(Tick)
    /\ \A t \in Tasks :
          /\ WF_runVars(Load(t)) /\ WF_runVars(Enter(t)) /\ WF_runVars(Join(t))
          /\ SF_runVars(Interrupt(t))

RunSpec == RunInit /\ [][RunNext]_runVars /\ RunFairness

-----------------------------------------------------------------------------
HasGrantKey == \E e \in pkg.caps : e.grant # NoGrant
StricterHere(g) == g.scope.kind = "path" /\ \E s \in RuntimeRefuses : Contains(g.scope.path, s)

\* A package the center registered and wants on a node is refused there, at
\* install or at every run, for what only the node or the runtime reads: limits
\* that are no numbers, a platform list that is empty or spelled with a dash or
\* that the node's labels did not answer, a module that is no component or that
\* the host cannot link, a schema that is JSON but no schema, a path with braces,
\* brackets, a dollar or two stars within a name, or the key `grant`.  Without that
\* key the node holds exactly the grants the center recorded.
AcceptedRuns ==
    /\ stage = "failed" =>
          HasGrantKey \/ pkg.limits = "text" \/ "slash" \notin pkg.platforms \/ pkg.wasm = "other"
    /\ stage = "installed" => HasGrantKey \/ grants.node = grants.center
    /\ \A t \in Tasks : task[t].result \in {"capability_unsupported", "invalid_params", "unlinked"} =>
          \/ HasGrantKey \/ pkg.schema = "odd" \/ pkg.wasm = "unlinked"
          \/ \E g \in grants.node : StricterHere(g)

\* What fs.read opens is a file reached without a link, outside what the node
\* denies, and one that some path spelled as a recorded scope leads to, however
\* the guest spelled its own path; a variable or a fact of the system it gets is
\* one that a recorded grant covers and the node does not deny.
Spelled == Dirs \cup Files \cup DOMAIN Links
           \cup {Append(l, s) : l \in DOMAIN Links, s \in {Last(f) : f \in Files}}
Approved(held, recorded, keyed) ==
    LET Recorded(cap, Covers(_)) ==
            keyed \/ \E g \in recorded : g.name = cap /\ Covers(g.scope)
        LeadsTo(scope, file) ==
            \E p \in Spelled : SegmentsMatch[scope.path, p] /\ Canonicalize(p) = file
    IN  (\A g \in held : ParseGrant(g)) =>
        /\ \A raw \in Wanted :
              LET r == Resolve(raw)
                  Leads(scope) == LeadsTo(scope, r.own)
              IN  FsRead(held, raw, 1, 1) = Bytes(1)
                  => /\ Canonicalize(r.own) = r.own /\ ~DeniesFs(r.own)
                     /\ Recorded("fs.read", Leads)
        /\ \A key \in UNION Range(EnvKeys) :
              LET Names(scope) == key \in EnvKeys[scope.key]
              IN  AuthorizeEnv(held, key) = "ok" => ~DeniesEnv(key) /\ Recorded("env.read", Names)
        /\ LET Bare(scope) == TRUE
           IN  AuthorizeBare(held, "sys.info.read") = "ok" => Recorded("sys.info.read", Bare)
ReadsAreApproved ==
    [][\A held \in {grants'.node} :
          held # grants.node => Approved(held, grants.center, HasGrantKey)]_runVars

\* A run executes the module of the version it names in its answer, unless the
\* engine takes the modules of two versions for one.
RunsItsModule == \A t \in Guests : task[t].code = task[t].ver \/ alike

\* A guest that has the node to itself gets its whole timeout; only a run next
\* to it makes its time pass faster.
EarlyHasCause == \A t \in Guests : task[t].left = 0 /\ task[t].age < Ticks => task[t].shared

\* Every run a task takes up is answered, though the guest may never return, unless
\* it never comes back from a call of the host or no thread counts its time.
Held(t) == task[t].pc = "host" \/ (task[t].pc = "guest" /\ ~task[t].ticker)
RunsEnd == \A t \in Tasks : []<>(task[t].pc = "idle") \/ <>[]Held(t)
=============================================================================
