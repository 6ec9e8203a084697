---------------------------- MODULE MCNodeScheduler ----------------------------
(* Two specs over the last minutes of 2025: intervals, a cron expression for *)
(* those minutes and the first of the year, two schedules of one spec, a     *)
(* schedule without its spec, and a config that cannot be parsed.            *)
EXTENDS NodeScheduler, NodeConfig

NewYear == 1767225600
MCStart == NewYear - 90
MCHorizon == NewYear + 60

Always == [i \in 1..5 |-> {Star}]
Eve == <<{Every(2), From(59, 1)}, {Span(22, 23)}, {One(31), One(30)}, {One(12)}, {Unread, One(3)}>>
Morning == <<{One(0), One(1)}, {One(0)}, {From(1, 7)}, {Every(6)}, {Span(4, 5)}>>

Sched(s, interval, cron) == [spec |-> s, interval |-> interval, cron |-> cron, enabled |-> TRUE]
Config(specs, schedules) == [specs |-> specs, schedules |-> schedules, valid |-> TRUE]

MCConfigs == {
    Config({"a", "b"}, <<Sched("a", 60, NoCron), Sched("b", NoInterval, Always)>>),
    Config({"a", "b"}, <<Sched("b", NoInterval, Eve), Sched("b", NoInterval, Morning),
                         Sched("a", 0, Eve)>>),
    Config({"b"}, <<Sched("a", NoInterval, Always), Sched("b", 60, Always), Sched("b", NoInterval, Always)>>),
    Config({"a"}, <<[Sched("a", NoInterval, Always) EXCEPT !.enabled = FALSE],
                    Sched("a", 90, Morning)>>),
    [Config({"a"}, <<Sched("a", 30, NoCron)>>) EXCEPT !.valid = FALSE]}

\* A host on which the shell prints little, and one on which it prints more than is
\* kept, with a character of two bytes around the place where it is cut.
Stream(bytes, ends) == [bytes |-> bytes, ends |-> ends]
Short == Stream(5, 0..5)
Command(says, success) == [starts |-> TRUE, takes |-> 100, says |-> says, success |-> success,
                           stdout |-> Short]
Missing == [Command("", FALSE) EXCEPT !.starts = FALSE]
Shell(stdout, success) == [stdout |-> stdout, stderr |-> Stream(0, {0}), starts |-> TRUE,
                           takes |-> 100, success |-> success]
Row(port, state) == [port |-> port, state |-> state]
Entry(kind, open) == [kind |-> kind, open |-> open, known |-> TRUE]
Host == [
    files |-> {"/etc", "/etc/ssh/sshd_config"}, mounts |-> {"/"},
    sshd |-> [readable |-> TRUE,
              lines |-> <<<<"PermitRootLogin", "no">>, <<"#">>, <<"PermitRootLogin">>,
                          <<"PasswordAuthentication", "yes">>, <<"PasswordAuthentication", "no">>>>],
    tables |-> {Row(22, "0A"), Row(80, "0A"), Row(443, "01")},
    tablesLater |-> {Row(22, "0A"), Row(8080, "0A")},
    walk |-> [i \in 1..120 |-> Entry("file", i = 110)],
    timedatectl |-> Missing, chronyc |-> Command("leap normal", TRUE),
    shell |-> Shell(Short, TRUE), packages |-> {}, env |-> {"HOME", "API_TOKEN"}, secret |-> {"API_TOKEN"},
    hub |-> "ok"]

Talkative == [Host EXCEPT !.shell = Shell(Stream(8193, {8191, 8193}), TRUE)]
MCHosts == {Host, Talkative}

SpecRecord(kind, params) == [kind |-> kind, params |-> params]
MCSpecOf == [a |-> SpecRecord("exec", [command |-> {"uptime"}]), b |-> SpecRecord("skill", [skill |-> {"demo"}])]

\* The rules of specs on these hosts.
Status(kind, params) == RunProbe(SpecRecord(kind, params), FALSE, Host)
Object(params) == [kind |-> "object", params |-> params]

ASSUME ProbesAnswer ==
    /\ Status("disk", [mount |-> {"/srv"}]) = "error" /\ Status("disk", [mount |-> {}]) = "ok"
    /\ Status("compliance_path", NoParams) = "error"
    /\ Status("compliance_path", [path |-> {"/tmp"}, must_exist |-> {FALSE}]) = "ok"
    /\ Status("compliance_sshd", NoParams) = "ok"
    /\ Status("compliance_sshd", [permit_root_login |-> {"prohibit-password"}]) = "fail"
    /\ Status("compliance_sshd", [config_path |-> {"/tmp"}]) = "fail"
    /\ Status("compliance_listening_ports", [expect_absent |-> {{443}}]) = "ok"
    /\ Status("compliance_listening_ports", [expect_absent |-> {{65536 + 22}}]) = "fail"
    /\ Status("compliance_listening_ports", [expect_absent |-> {{80}}, max_sample |-> {0}]) = "ok"
    /\ Status("compliance_world_writable", [max_entries |-> {1}]) = "ok"
    /\ Status("compliance_world_writable", NoParams) = "fail"
    /\ Status("compliance_ntp", NoParams) = "ok" /\ Status("compliance_ntp", [timeout_ms |-> {99}]) = "fail"
    /\ Status("compliance_reboot_required", NoParams) = "ok"
    /\ Status("exec", NoParams) = "failed"
    /\ Status("skill", [skill |-> {"env_get"}, key |-> {"HOME"}]) = "ok"
    /\ Status("skill", [skill |-> {"env_get"}, key |-> {"API_TOKEN"}]) = "fail"
    /\ Status("mcp_tool", [tool |-> {"env_get"}, key |-> {"HOME"}]) = "error"

\* Every text that is cut can end the task.
ASSUME TextsPanic ==
    LET long(max) == Stream(max + 1, {max - 1, max + 1})
        panics(kind, params, host) == Panics(SpecRecord(kind, params), FALSE, host)
        marked == [Host EXCEPT !.files = @ \cup {"/var/run/reboot-required"}, !.packages = {long(512)}]
        synced == [Host EXCEPT !.timedatectl = [Command("yes", TRUE) EXCEPT !.stdout = long(512)]]
        tracked == [Host EXCEPT !.chronyc.stdout = long(1024)]
        reboots == "compliance_reboot_required" IN
    /\ panics("compliance_ntp", NoParams, synced) /\ panics("compliance_ntp", NoParams, tracked)
    /\ ~panics("compliance_ntp", NoParams, Host)
    /\ panics(reboots, NoParams, marked) /\ ~panics(reboots, [expect_absent |-> {FALSE}], marked)
    /\ ~panics(reboots, NoParams, [marked EXCEPT !.packages = {}])
    /\ ~panics("exec", [command |-> {"true"}], Talkative)

\* No params, whether of the spec or of a dispatch, make a node run a shell that may not.
ASSUME DispatchAnswers ==
    LET exec == SpecRecord("exec", [command |-> {}])
        status(known, text, allowed) == DispatchStatus(TRUE, known, text, allowed, Host) IN
    /\ status({}, Object(NoParams), TRUE) = "failed"
    /\ status({exec}, [kind |-> "bad"], TRUE) = "error"
    /\ status({exec}, Object([command |-> {"true"}]), TRUE) = "ok"
    /\ status({exec}, Object([command |-> {"true"}, allow_exec |-> {TRUE}]), FALSE) = "failed"
    /\ HubArguments([skill |-> {"x"}, version |-> {"1"}, k |-> {2}]) = {[k |-> {2}]}

\* A start with the id in the file and exec allowed by the environment.
Addrs == [good |-> Addr("https", "center", 50051), bare |-> Addr("http", "center", 0),
          path |-> [Addr("http", "::1", 1) EXCEPT !.path = "/x", !.query = TRUE],
          none |-> [Addr("ftp", Unset, 0) EXCEPT !.uri = FALSE]]
Args == [center |-> Unset, node_id |-> Blank, token |-> Unset, exec |-> FALSE,
         tags |-> {}, labels |-> {<<[equals |-> TRUE, key |-> "env", value |-> "dev"]>>},
         file |-> [given |-> TRUE, readable |-> TRUE, keys |-> [center |-> "good", node_id |-> "n1"]]]
Env == [center |-> Blank, node_id |-> Unset, token |-> Unset, exec |-> "yes"]
Started(args, env, dir) == Starts(args, env, Addrs, dir, "fresh")
NewDir == DataDir(Unset, TRUE, TRUE)

ASSUME StartsOrFails ==
    LET fails(args, env, dir) == Started(args, env, dir).result.error
        noFile == [Args EXCEPT !.file.given = FALSE]
        at(addr) == [noFile EXCEPT !.center = addr] IN
    /\ Started(Args, Env, NewDir).result.node_id = Resolved("n1", "file")
    /\ Started(Args, Env, NewDir).result.allow_exec = Resolved(AllowExec, "env")
    /\ Started(at("good"), Env, NewDir).dir.id = "fresh"
    /\ Started(at("good"), Env, DataDir("kept", TRUE, FALSE)).result.node_id = Resolved("kept", "persisted")
    /\ fails(at("good"), Env, DataDir(Blank, TRUE, FALSE)) = "NodeIdUnavailable"
    /\ fails(noFile, [Env EXCEPT !.exec = "maybe"], NewDir) = "Missing"
    /\ \A addr \in {"bare", "path", "none"} : fails(at(addr), Env, NewDir) = "InvalidCenterAddr"
    /\ fails(at("good"), [Env EXCEPT !.exec = "maybe"], NewDir) = "InvalidAllowExec"
    /\ ~Failed(Started([at("good") EXCEPT !.exec = TRUE], [Env EXCEPT !.exec = "maybe"], NewDir).result)
    /\ fails([Args EXCEPT !.file.keys = [exec |-> "1"]], Env, NewDir) = "ConfigFile"
    /\ fails([Args EXCEPT !.tags = {<<>>}], Env, NewDir) = "tags and labels"
    /\ ParseLabels(DeclaredTags({}, Args.labels).entries) = [env |-> "dev"]
=============================================================================
