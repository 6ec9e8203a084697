------------------------------- MODULE SpecRules -------------------------------
(***************************************************************************)
(* What a node does to run a spec: the probes of novbot-core, the skills   *)
(* built into it, the params that a dispatch lays over those of the spec,  *)
(* and where the run goes.  A spec is run against a host, a record of what *)
(* the probes find there.                                                  *)
(***************************************************************************)
EXTENDS Integers, Sequences, FiniteSets

\* Params are a function from keys to sets: {v}, or {} for what has another type
\* than the one that is read there.  Params that are no object have no key.
NoParams == <<>>
HasParam(params, key) == key \in DOMAIN params /\ params[key] # {}
Param(params, key, default) ==
    IF HasParam(params, key) THEN CHOOSE v \in params[key] : TRUE ELSE default

AtMost(n, hi) == IF n > hi THEN hi ELSE n
Clamp(n, lo, hi) == IF n < lo THEN lo ELSE AtMost(n, hi)
\* What a run is reported with.  "failed" is what could not be run at all.
Statuses == {"ok", "fail", "error", "failed"}
Verdict(passed) == IF passed THEN "ok" ELSE "fail"

-----------------------------------------------------------------------------
(* Disks, paths and the marker for reboots: files is the set of paths that   *)
(* exist, mounts that of mounted file systems.                               *)
ProbeDisk(params, host) ==
    IF Param(params, "mount", "/") \in host.mounts THEN "ok" ELSE "error"

CompliancePath(params, host) ==
    IF ~HasParam(params, "path") THEN "error"
    ELSE Verdict((Param(params, "path", "") \in host.files) = Param(params, "must_exist", TRUE))

RebootRequired(params, host) ==
    LET path == Param(params, "path", "/var/run/reboot-required") IN
    Verdict((path \notin host.files) = Param(params, "expect_absent", TRUE))

(* sshd_config: a sequence of lines, a line is the sequence of its words.    *)
\* The last line that names the directive counts, and one without a value does not.
SshdDirective(lines, key) ==
    LET named == {i \in DOMAIN lines : Len(lines[i]) >= 2 /\ lines[i][1] = key} IN
    {lines[i][2] : i \in {j \in named : \A k \in named : k <= j}}

\* What is not set is only wrong if "no" is expected.
MeetsDirective(found, expected) == IF found = {} THEN expected # "no" ELSE found = {expected}

ComplianceSshd(params, host) ==
    LET path == Param(params, "config_path", "/etc/ssh/sshd_config")
        meets(key, param) == MeetsDirective(SshdDirective(host.sshd.lines, key), Param(params, param, "no"))
    IN  CASE path \notin host.files -> "fail"
          [] path \in host.files /\ ~host.sshd.readable -> "error"
          [] OTHER -> Verdict(/\ meets("PermitRootLogin", "permit_root_login")
                              /\ meets("PasswordAuthentication", "password_authentication"))

(* Listening ports: what is in /proc/net when it is read, and when it is     *)
(* read again.  A table is a set of rows; rows that cannot be read are not   *)
(* in it, and one that cannot be opened is empty.                            *)
ListenPorts(tables) == {row.port : row \in {r \in tables : r.state = "0A"}}

Sample(ports, max) == {p \in ports : Cardinality({q \in ports : q < p}) < max}

\* A number in the list is cut to 16 bits.
ExpectAbsent(params) == {n % 65536 : n \in Param(params, "expect_absent", {})}

ListeningPorts(params, host) ==
    LET sample == Sample(ListenPorts(host.tables), Clamp(Param(params, "max_sample", 32), 1, 256)) IN
    Verdict(ExpectAbsent(params) \cap (sample \cup ListenPorts(host.tablesLater)) = {})

(* World-writable paths: host.walk is the sequence of entries that a walk    *)
(* without bounds meets, depth first, and without what it may not list.      *)
\* A link is not followed, and its own mode is open to everybody.
Writable(entry) == entry.known /\ (entry.kind = "link" \/ entry.open)

Found(walk, n) == {i \in 1..n : Writable(walk[i])}

\* The walk stops once it has scanned, or found, as much as it may.
Stops(walk, n, entries, findings) ==
    n = Len(walk) \/ n >= entries \/ Cardinality(Found(walk, n)) >= findings

Scanned(walk, entries, findings) ==
    CHOOSE n \in 0..Len(walk) :
        /\ Stops(walk, n, entries, findings)
        /\ \A m \in 0..(n - 1) : ~Stops(walk, m, entries, findings)

WorldWritable(params, host) ==
    LET entries == Clamp(Param(params, "max_entries", 5000), 100, 50000)
        findings == Clamp(Param(params, "max_findings", 50), 1, 500) IN
    IF Param(params, "root", "/etc") \notin host.files THEN "fail"
    ELSE Verdict(Found(host.walk, Scanned(host.walk, entries, findings)) = {})

(* Commands take a time, and "never" starts stands for what is not there.    *)
Answers(command, millis) == command.starts /\ command.takes <= millis

NtpMillis(params) == AtMost(Param(params, "timeout_ms", 3000), 10000)

\* A timedatectl that answers is believed, even one that fails.
ComplianceNtp(params, host) ==
    LET millis == NtpMillis(params) IN
    CASE Answers(host.timedatectl, millis) -> Verdict(host.timedatectl.says = "yes")
      [] Answers(host.chronyc, millis) /\ ~Answers(host.timedatectl, millis) ->
            Verdict(host.chronyc.success /\ host.chronyc.says = "leap normal")
      [] OTHER -> "fail"

(* The shell.                                                                *)
ExecMillis(params) == AtMost(Param(params, "timeout_ms", 5000), 30000)

ExecCompletes(params, host) ==
    HasParam(params, "command") /\ Answers(host.shell, ExecMillis(params))

ProbeExec(params, host) ==
    IF ExecCompletes(params, host) THEN Verdict(host.shell.success) ELSE "error"

-----------------------------------------------------------------------------
(* Skills: skill.rs for those built in, execute.rs for the others.           *)
Builtins == {"host_info", "echo", "env_get"}
IsSkill(spec) == spec.kind \in {"skill", "mcp_tool"}
NameKey(spec) == IF spec.kind = "mcp_tool" THEN "tool" ELSE "skill"

Without(params, keys) == [k \in DOMAIN params \ keys |-> params[k]]

\* A skill without arguments is given the other params, if there are any.
BuiltinArguments(spec) ==
    LET given == Param(spec.params, "arguments", NoParams)
        others == Without(spec.params, {"skill", "arguments"}) IN
    IF spec.kind = "skill" /\ DOMAIN given = {} /\ DOMAIN others # {} THEN others ELSE given

\* Installed skills get what is under arguments, whatever that is.
HubArguments(params) ==
    IF "arguments" \in DOMAIN params THEN params["arguments"]
    ELSE {Without(params, {"skill", "tool", "version"})}

\* host.secret is the set of names that look like secrets.
EnvGet(arguments, host) ==
    IF ~HasParam(arguments, "key") THEN "error"
    ELSE LET key == Param(arguments, "key", "") IN
         Verdict(key \notin host.secret /\ key \in host.env)

InvokeSkill(name, arguments, host) ==
    CASE name \in {"host_info", "echo"} -> "ok"
      [] name = "env_get" -> EnvGet(arguments, host)
      [] OTHER -> "error"

ProbeSkill(spec, host) ==
    IF ~HasParam(spec.params, NameKey(spec)) THEN "error"
    ELSE InvokeSkill(Param(spec.params, NameKey(spec), ""), BuiltinArguments(spec), host)

\* allowed is ProbePolicy.allow_exec, which is fixed when the process starts.
RunProbe(spec, allowed, host) ==
    LET params == spec.params IN
    CASE spec.kind \in {"cpu", "memory"} -> "ok"
      [] spec.kind = "disk" -> ProbeDisk(params, host)
      [] spec.kind = "compliance_path" -> CompliancePath(params, host)
      [] spec.kind = "compliance_sshd" -> ComplianceSshd(params, host)
      [] spec.kind = "compliance_listening_ports" -> ListeningPorts(params, host)
      [] spec.kind = "compliance_world_writable" -> WorldWritable(params, host)
      [] spec.kind = "compliance_ntp" -> ComplianceNtp(params, host)
      [] spec.kind = "compliance_reboot_required" -> RebootRequired(params, host)
      [] spec.kind = "exec" -> IF allowed THEN ProbeExec(params, host) ELSE "failed"
      [] OTHER -> ProbeSkill(spec, host)

\* An installed skill answers for itself.
GoesToHub(spec) ==
    /\ IsSkill(spec) /\ HasParam(spec.params, NameKey(spec))
    /\ Param(spec.params, NameKey(spec), "") \notin Builtins

ExecuteSpec(spec, allowed, host) ==
    IF GoesToHub(spec) THEN host.hub ELSE RunProbe(spec, allowed, host)

(* What is reported of the text that a probe has read is cut.  How much a    *)
(* stream holds is told in bytes, and the set of offsets at which one of its *)
(* characters begins or ends.                                                *)
\* truncate slices at max, which panics inside of a character.
CutsCharacter(stream, max) == stream.bytes > max /\ max \notin stream.ends

ExecPanics(params, host) ==
    /\ ExecCompletes(params, host)
    /\ CutsCharacter(host.shell.stdout, 8192) \/ CutsCharacter(host.shell.stderr, 4096)

NtpPanics(params, host) ==
    LET millis == NtpMillis(params) IN
    IF Answers(host.timedatectl, millis) THEN CutsCharacter(host.timedatectl.stdout, 512)
    ELSE Answers(host.chronyc, millis) /\ CutsCharacter(host.chronyc.stdout, 1024)

\* host.packages is {}, or has what stands in the .pkgs file beside the marker.
RebootPanics(params, host) ==
    /\ RebootRequired(params, host) = "fail" /\ Param(params, "expect_absent", TRUE)
    /\ \E packages \in host.packages : CutsCharacter(packages, 512)

\* The task that executes the spec ends, and nothing is reported.
Panics(spec, allowed, host) ==
    \/ spec.kind = "exec" /\ allowed /\ ExecPanics(spec.params, host)
    \/ spec.kind = "compliance_ntp" /\ NtpPanics(spec.params, host)
    \/ spec.kind = "compliance_reboot_required" /\ RebootPanics(spec.params, host)

-----------------------------------------------------------------------------
(* A dispatch: apply_dispatch_overlay and run_dispatch.                      *)
\* params_json: blank, what is no object, or an object.
Overlaid(spec, text) ==
    IF text.kind # "object" THEN spec
    ELSE [spec EXCEPT !.params =
            [k \in DOMAIN spec.params \cup DOMAIN text.params |->
                IF k \in DOMAIN text.params THEN text.params[k] ELSE spec.params[k]]]

\* known is {} or the spec that has the id of the dispatch.
DispatchStatus(loaded, known, text, allowed, host) ==
    IF ~loaded \/ known = {} THEN "failed"
    ELSE ExecuteSpec(Overlaid(CHOOSE spec \in known : TRUE, text), allowed, host)
=============================================================================
