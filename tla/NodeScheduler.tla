----------------------------- MODULE NodeScheduler -----------------------------
(***************************************************************************)
(* The scheduler task of novbot-node: every tick it selects the specs that *)
(* are due, notes for each that it has run, and then executes them one     *)
(* after the other, while the session task may apply another config, the   *)
(* wall clock may be set back and the process may stop.                    *)
(***************************************************************************)
EXTENDS ScheduleRules, SpecRules, Subsequences, SequencesExt

CONSTANTS
    Specs,    \* ids of specs
    SpecOf,   \* what is to be run for each of them
    AllowExec, \* the policy for specs that run a shell
    Hosts,    \* what the probes may find
    Configs,  \* what the center may answer to PullConfig
    Start,    \* the time at which the node starts
    Horizon,  \* bound on time
    Step,     \* how far apart the ticks are, and what time passes by
    MaxTroubles, \* bound on clocks set back, failed reports, panics, hangs and stops together
    MaxChanges   \* bound on configs applied

\* Intervals have no sign, and every id is one of Specs.
WellFormed(c) ==
    /\ c.specs \subseteq Specs
    /\ Len(c.schedules) \in Nat /\ DOMAIN c.schedules = 1..Len(c.schedules)
    /\ \A i \in DOMAIN c.schedules :
          /\ c.schedules[i].spec \in Specs /\ c.schedules[i].enabled \in BOOLEAN
          /\ c.schedules[i].interval \in Nat \cup {NoInterval}

\* The period of the ticks is --scheduler-tick-secs, at least a second.  The clock of
\* a node stands after 1970.
ASSUME SchedulerAssumption ==
    /\ \A c \in Configs : WellFormed(c)
    /\ Start \in Nat \ {0} /\ Horizon \in Nat /\ Step \in Nat \ {0}
    /\ MaxTroubles \in Nat /\ MaxChanges \in Nat
    /\ DOMAIN SpecOf = Specs /\ AllowExec \in BOOLEAN

VARIABLES
    now,     \* the wall clock
    config,  \* RuntimeState: specs and schedules
    last,    \* RuntimeState: last_run
    owed,    \* ticks the interval has to make up for
    queue,   \* what a tick selected and has not executed, and when it did
    fired,   \* the minutes for which each spec was executed, since the start
    idle,    \* the minute in which the scheduler was last seen idle
    settled, \* the minute in which config changed last
    changes,
    troubles \* what went wrong so far

schedVars == <<now, config, last, owed, queue, fired, idle, settled, changes, troubles>>

NoConfig == [specs |-> {}, schedules |-> <<>>, valid |-> TRUE]

Boot ==
    /\ config' = NoConfig
    /\ last' = [s \in Specs |-> Never]
    /\ owed' = 1
    /\ queue' = <<>>
    /\ fired' = [s \in Specs |-> {}]
    /\ settled' = Minute(now)

Init ==
    /\ now = Start
    /\ config = NoConfig
    /\ last = [s \in Specs |-> Never]
    /\ owed = 1
    /\ queue = <<>>
    /\ fired = [s \in Specs |-> {}]
    /\ idle = Minute(Start) /\ settled = Minute(Start)
    /\ changes = 0 /\ troubles = <<>>

Trouble(what) ==
    /\ Len(troubles) < MaxTroubles
    /\ troubles' = Append(troubles, what)

\* The scheduler task has ended, or is in an execution that never ends: nobody waits
\* for it, and the process goes on.
Gone ==
    \E i \in DOMAIN troubles :
        troubles[i] \in {"panic", "hang"} /\ \A j \in DOMAIN troubles : j > i => troubles[j] # "stop"

-----------------------------------------------------------------------------
(* run_due                                                                   *)

\* The places in the config of the schedules that are due, and of those whose spec
\* is there as well: a spec may have several.
DueSpecs ==
    {i \in DOMAIN config.schedules :
        LET s == config.schedules[i] IN s.enabled /\ ScheduleDue(s, last[s.spec], now)}

Selected == {i \in DueSpecs : config.schedules[i].spec \in config.specs}

\* Mutant: what is selected is not noted.
MarkedNot(selected) == last

Marked(selected) ==
    [s \in Specs |-> IF \E i \in selected : config.schedules[i].spec = s THEN now ELSE last[s]]

\* At the horizon the ticks go on though time does not.
CanTick == ~Gone /\ queue = <<>> /\ (owed > 0 \/ now >= Horizon)

Tick ==
    /\ CanTick
    /\ owed' = IF owed > 0 THEN owed - 1 ELSE 0
    /\ \E selected \in {Selected} :
          /\ LET due == Subsequence(config.schedules, selected)
             IN  queue' = [k \in DOMAIN due |-> [spec |-> due[k].spec, minute |-> Minute(now)]]
          /\ last' = Marked(selected)
    /\ idle' = Minute(now)
    /\ UNCHANGED <<now, config, fired, settled, changes, troubles>>

\* What comes of the spec that is next: a status, or the end of the task.
Runs(host) == ExecuteSpec(SpecOf[Head(queue).spec], AllowExec, host)
Breaks(host) == Panics(SpecOf[Head(queue).spec], AllowExec, host)

RanHead == fired' = [fired EXCEPT ![Head(queue).spec] = @ \cup {Head(queue).minute}]

\* Whatever its status is, the run is reported or spooled.
Execute ==
    /\ queue # <<>> /\ ~Gone
    /\ \E host \in Hosts : ~Breaks(host) /\ Runs(host) \in Statuses
    /\ RanHead
    /\ queue' = Tail(queue)
    /\ UNCHANGED <<now, config, last, owed, idle, settled, changes, troubles>>

\* What had been selected behind the spec is not executed any more either.
Panic ==
    /\ queue # <<>> /\ ~Gone
    /\ \E host \in Hosts : Breaks(host)
    /\ Trouble("panic")
    /\ RanHead
    /\ queue' = <<>>
    /\ UNCHANGED <<now, config, last, owed, idle, settled, changes>>

\* The guest of an installed skill waits in a call of the host (Held of SkillRun) and
\* never comes back.
Hang ==
    /\ queue # <<>> /\ ~Gone
    /\ GoesToHub(SpecOf[Head(queue).spec])
    /\ Trouble("hang")
    /\ UNCHANGED <<now, config, last, owed, queue, fired, idle, settled, changes>>

\* The report can neither be sent nor spooled: run_due returns, and what it had
\* selected behind this spec is not executed though it has been noted.
ReportFails ==
    /\ queue # <<>> /\ ~Gone
    /\ Trouble("report")
    /\ RanHead
    /\ queue' = <<>>
    /\ UNCHANGED <<now, config, last, owed, idle, settled, changes>>

-----------------------------------------------------------------------------
(* apply_config, the clock and the process                                   *)

\* A config that cannot be parsed leaves everything as it is.
ApplyConfig(c) ==
    /\ c # config /\ c.valid
    /\ config' = c
    /\ changes < MaxChanges /\ changes' = changes + 1
    /\ settled' = Minute(now)
    /\ UNCHANGED <<now, last, owed, queue, fired, idle, troubles>>

\* The interval's timer does not read the wall clock.  A tick that can be taken
\* is taken before time passes; an execution takes as long as it takes.
Pass ==
    /\ now < Horizon /\ ~CanTick
    /\ now' = now + Step
    /\ owed' = owed + 1
    /\ idle' = IF queue = <<>> THEN Minute(now + Step) ELSE idle
    /\ UNCHANGED <<config, last, queue, fired, settled, changes, troubles>>

SetBack(n) ==
    /\ Trouble("clock")
    /\ now - n >= Start /\ now' = now - n
    /\ UNCHANGED <<config, last, owed, queue, fired, idle, settled, changes>>

Stop ==
    /\ Trouble("stop")
    /\ Boot
    /\ idle' = Minute(now)
    /\ UNCHANGED <<now, changes>>

Next ==
    \/ Tick \/ Execute \/ Panic \/ Hang \/ ReportFails \/ Pass \/ Stop
    \/ \E c \in Configs : ApplyConfig(c)
    \/ \E n \in {Step, 60} : SetBack(n)

\* Timers fire, time passes, and an execution that does not hang ends: commands have
\* timeouts, guests are interrupted in their own code.
Fairness == WF_schedVars(Tick) /\ WF_schedVars(Execute) /\ WF_schedVars(Pass)

Spec == Init /\ [][Next]_schedVars /\ Fairness

-----------------------------------------------------------------------------
Entries(s) == {i \in DOMAIN config.schedules :
                  config.schedules[i].spec = s /\ config.schedules[i].enabled}

CronOnly(s) == \A i \in Entries(s) : config.schedules[i].interval = NoInterval

\* A spec that only has cron schedules is selected once per UTC minute by one
\* process, once for each of them, however the ticks fall, whatever else ran it
\* under an earlier config, and though the clock is set back over the minute.
OncePerMinute ==
    [][queue = <<>> =>
          \A i \in DOMAIN queue' :
              CronOnly(queue'[i].spec) => queue'[i].minute \notin fired[queue'[i].spec]]_schedVars

\* A minute that a cron schedule names does not go by without the spec having been
\* executed for it, or still being queued, unless the config came in that minute,
\* the scheduler was executing all the while, the clock was set back, a report
\* failed, a text cut inside of a character ended it, a guest held it, or the minute
\* lies between two ticks that are more than a minute apart.
MissedHasCause ==
    [][Minute(now') > Minute(now)
       /\ (\A what \in {"clock", "report", "panic", "hang"} : ~Contains(troubles, what))
       /\ settled < Minute(now) /\ idle = Minute(now) =>
          \A s \in config.specs : \A i \in Entries(s) : \A m \in Minute(now) .. Minute(now') - 1 :
              CronMatches(config.schedules[i].cron, 60 * m) =>
                  \/ m \in fired[s]
                  \/ \E j \in DOMAIN queue : queue[j].spec = s /\ queue[j].minute = m
                  \/ Step > 60 /\ m > Minute(now)]_schedVars

\* A spec whose interval is over is selected in the end, or it is not scheduled
\* any more, or the clock is set back before its last run, or the scheduler is gone:
\* ended by a panic or held by a guest.
IntervalRuns ==
    \A s \in Specs :
        LET due == /\ s \in config.specs
                   /\ \E i \in Entries(s) : IntervalDue(config.schedules[i], last[s], now)
        IN  due ~> ~due \/ Gone
=============================================================================
