------------------------------ MODULE MCSkillRun ------------------------------
(* A tree of files with links into a denied directory, and every package at  *)
(* most two facts away from a plain one.                                     *)
EXTENDS SkillRun

MCDirs == {<<>>, <<"d">>, <<"s">>}
MCFiles == {<<"d", "f">>, <<"s", "f">>}
MCLinks == <<"e">> :> <<"d">> @@ <<"d", "l">> :> <<"s", "f">> @@ <<"d", "k">> :> <<"s">>
           @@ <<"d", "o">> :> <<"d", "o">>
MCSecret == {<<"s">>}
MCWanted == {<<"d", "f">>, <<"e", "f">>, <<"d", "l">>, <<"d", "k", "f">>, <<"d", "..", "s", "f">>,
             <<"d", "k", "..", "f">>, <<"d", "o">>, <<"d", "x">>, <<"~", "f">>}

Entry(n, s) == [name |-> n, scope |-> s, grant |-> NoGrant]
Path(p) == Entry("fs.read", PathScope(p))
Sys == Entry("sys.info.read", NoScope)
Key(k) == Entry("env.read", KeyScope(k))

\* Entries that some reader refuses, each a package's only one, and what a node
\* may come to run: several kinds of scope at once, everything, a path that only
\* the runtime refuses, and the key `grant`, on an entry that has a name or none.
Refused == {Path(<<"d", "..">>), Path(<<"d", "", "f">>), Entry("fs.read", NoScope), Entry("", NoScope),
            Entry("proc.cmdline.read", NoScope), Entry("env.read", NoScope), Key("home"),
            Entry("sys.info.read", PathScope(<<"d">>))}
Several == {Path(<<"e", "*">>), Path(<<"d", "l">>), Key("NOVBOT_*"), Sys}
Caps == {{e} : e \in Refused}
        \cup {{Path(<<"d", "*">>), Entry("fs.stat", PathScope(<<"**">>))}, {Path(<<"**">>)},
              {Path(<<"d", "**.conf">>)}}
        \cup {{[e EXCEPT !.grant = Grant("fs.read", PathScope(<<"**">>))]} : e \in {Entry("", NoScope), Sys}}

Plain == [name |-> "demo", semver |-> TRUE, abi |-> TRUE, limits |-> "number", platforms |-> {"slash"},
          newer |-> FALSE, files |-> {"module.wasm", "schema/params.json"}, sums |-> TRUE,
          wasm |-> "component", schema |-> "applies", caps |-> Several]

Varied(p) ==
    {[p EXCEPT !.name = v] : v \in {"echo", "Demo", ""}}
    \cup {[p EXCEPT !.semver = FALSE], [p EXCEPT !.abi = FALSE], [p EXCEPT !.newer = TRUE],
          [p EXCEPT !.sums = FALSE]}
    \cup {[p EXCEPT !.limits = v] : v \in {"none", "text"}}
    \cup {[p EXCEPT !.platforms = v] : v \in {{}, {"dash"}, {"other"}, {"slash", "other"}}}
    \cup {[p EXCEPT !.files = v] :
            v \in {{"module.wasm"}, {"module.wasm", "schema/params.json", "README.md"},
                   {"module.wasm", "schema/params.json", "notes.txt"},
                   {"module.wasm", "schema/params.json", "old.cwasm"}}}
    \cup {[p EXCEPT !.wasm = v] : v \in {"unlinked", "other", "text"}}
    \cup {[p EXCEPT !.schema = v] : v \in {"odd", "text"}}
    \cup {[p EXCEPT !.caps = v] : v \in Caps}

MCPackages == Varied(Plain) \cup UNION {Varied(p) : p \in Varied(Plain)}

\* A node as its /proc shows it.
Line(key, kb) == [key |-> key, kb |-> kb]
Disk(name, of, fields) == [name |-> name, of |-> of, fields |-> fields]
Mount(mount, fstype, ascii) == [mount |-> mount, fstype |-> fstype, ascii |-> ascii]
Field(key, value, comment) == [key |-> key, value |-> value, comment |-> comment, equals |-> TRUE]
Words(name) == [i \in DOMAIN name |-> Word(name[i])]
Stat(name) == <<Numeral(7), Word("(")>> \o Words(name) \o <<Word(")"), Word("S"), Numeral(1)>>
              \o [i \in 1..19 |-> Numeral(100)]
Os == [
    metrics |-> TRUE, proc |-> TRUE, net |-> TRUE, timesyncd |-> FALSE,
    stat |-> <<[key |-> "cpu0", words |-> <<{9}>>],
               [key |-> "cpu", words |-> <<{1}, {}, {1}, {1}, {2}, {3}>>]>>,
    meminfo |-> <<Line("MemTotal", {8}), Line("MemFree", {9}), Line("MemAvailable", {}), Line("SwapTotal", {2})>>,
    diskstats |-> <<Disk("sda", "disk", 14), Disk("sda1", "disk", 14), Disk("loop0", "loop", 14), Disk("sdb", "disk", 11)>>,
    blocks |-> {"sda", "loop0", "sdb"}, vfs |-> {"/", "/srv", "/a"},
    mounts |-> <<Mount("/", "nfs", TRUE), Mount("/srv", "nfs", TRUE), Mount("/srv", "xfs", TRUE),
                 Mount("/srv", "zfs", TRUE), Mount("/a", "xfs", FALSE)>>,
    entries |-> {[pid |-> 7, stat |-> Stat(<<"a", ")", "b">>), uid |-> {}, rss |-> {4}],
                 [pid |-> 8, stat |-> <<>>, uid |-> {0}, rss |-> {4}]},
    btime |-> {10}, now |-> 12, clk |-> 100,
    dev |-> <<[name |-> "lo", fields |-> 16], [name |-> "eth0", fields |-> 16], [name |-> "bad", fields |-> 2]>>,
    links |-> "lo" :> [operstate |-> "unknown", flags |-> {9}] @@ "eth0" :> [operstate |-> "down", flags |-> {}],
    addresses |-> {<<"lo", "::1">>},
    tables |-> "tcp" :> [readable |-> TRUE, rows |-> {
                  [state |-> "0A", remote |-> 0, port |-> 22, local |-> <<1, 0, 0, 127>>],
                  [state |-> "01", remote |-> 0, port |-> 80, local |-> <<1, 0, 0, 127>>]}]
               @@ "udp" :> [readable |-> TRUE, rows |-> {
                  [state |-> "07", remote |-> 53, port |-> 9, local |-> <<1, 0, 0, 127>>]}],
    release |-> <<Field("ID", "c", FALSE), Field("ID", "b", FALSE), Field("ID", "a", TRUE)>>,
    clock |-> [fails |-> FALSE, unsync |-> FALSE, nano |-> TRUE, offset |-> -1500000]]

ASSUME NodeIsTold ==
    /\ Metrics(Os) = {[usage |-> 37, disk_io |-> <<"sda">>,
                       memory |-> [total |-> 8, available |-> 9, used |-> 0, swap_used |-> 2],
                       disks |-> {[mount |-> "/", fstype |-> "nfs"], [mount |-> "/srv", fstype |-> "xfs"]}]}
    /\ Processes(Os) = {{[pid |-> 7, name |-> Words(<<"a", ")", "b">>), state |-> "S", uid |-> {},
                          memory |-> 4, cpu |-> 200]}}
    /\ Interfaces(Os) = {<<[name |-> "lo", up |-> TRUE, addresses |-> {"::1"}],
                           [name |-> "eth0", up |-> FALSE, addresses |-> {}]>>}
    /\ ListenSockets(Os) = {{[proto |-> "tcp", addr |-> <<127, 0, 0, 1>>, port |-> 22]}}
    /\ ListenSockets([Os EXCEPT !.tables["udp"].readable = FALSE]) = {}
    /\ TimeSync(Os) = [synced |-> TRUE, source |-> "kernel", offset_ms |-> {-1}]
    /\ TimeSync([Os EXCEPT !.clock.unsync = TRUE]).synced = FALSE

\* A process keeps its name, whatever parentheses are in it.
ASSUME NamesAreKept ==
    \A n \in 0..4 : \A name \in [1..n -> {"(", ")", "a"}] :
        \E s \in ProcStat(Stat(name)) : s.name = Words(name) /\ s.state = "S"

\* The calls that only look, on a node where one directory cannot be listed.
Everything == {Grant("fs.read", PathScope(<<"**">>)), Grant("fs.stat", PathScope(<<"**">>)),
               Grant("env.read", KeyScope("HOME")), Grant("sys.info.read", NoScope), Grant("proc.list.read", NoScope)}
MCClosed == {<<"s">>}
Reaches(dir, depth) ==
    {p \in MCDirs \cup MCFiles \cup DOMAIN MCLinks :
        Len(p) > Len(dir) /\ Len(p) <= Len(dir) + depth /\ IsPrefix(dir, p)}

ASSUME CallsAnswer ==
    /\ FsRead(Everything, <<"d", "f">>, 9, 7) = Bytes(MaxRead)
    /\ FsRead(Everything, <<"d", "l">>, 9, 7) = Denied("fs.read", <<"s", "f">>, "policy_denied")
    /\ FsRead(Everything, <<"d", "x">>, 9, 7) = NotFound
    /\ FsStat(Everything, <<"d", "l">>) = Allowed("symlink")
    /\ FsStat(Everything, <<"d", "x">>) = Allowed("absent")
    /\ FsList(Everything, <<"d">>, 1, 1) = Denied("fs.list", <<"d">>, "undeclared_capability")
    /\ BareCall(Everything, "sys.info.read", Os) = Allowed({[ID |-> "b"]})
    /\ BareCall(Everything, "proc.list.read", [Os EXCEPT !.proc = FALSE]) = Io
    /\ EnvGet(Everything, "HOME", {}) = Allowed(FALSE)
    /\ \A held \in {{}, Everything}, import \in Shadowed :
          \E cap \in WasiCapability(import) :
              WasiCall(held, import, "/etc") = {Denied(cap, "/etc", "undeclared_capability")}

\* A list holds what lies below a directory as far as it may, and no more; what it
\* leaves out for want of room is the end of it.
ASSUME ListsReach ==
    \A depth \in 0..2, max \in 0..4 :
        /\ Range(ListDir(<<"d">>, depth, 9).entries) = Reaches(<<"d">>, depth)
        /\ LET all == ListDir(<<"d">>, depth, 9).entries IN
           ListDir(<<"d">>, depth, max) = Entries(SubSeq(all, 1, Least(max, Len(all))))
        /\ ListDir(<<>>, 1, 9) # Io /\ ListDir(<<>>, 2, 9) = Io
=============================================================================
