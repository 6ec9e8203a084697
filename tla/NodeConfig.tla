------------------------------- MODULE NodeConfig -------------------------------
(***************************************************************************)
(* How novbot-node comes by its settings when it starts: config.rs and     *)
(* main.rs.  Each has a place on the command line, in the environment and  *)
(* in a file; the id of the node may also be kept in its data directory.   *)
(***************************************************************************)
EXTENDS Naturals, Sequences

\* A setting that is not there, and one that is there but blank.
Unset == "unset"
Blank == "blank"

\* nonempty: blank is as good as unset.
IsSet(raw) == raw # Unset /\ raw # Blank

\* A value with the place it comes from, or why there is none.
Resolved(value, source) == [value |-> value, source |-> source]
Nothing == Resolved(Unset, "none")
Error(what) == [error |-> what]
Failed(result) == "error" \in DOMAIN result

\* pick and pick_secret: the command line before the environment before the file.
Pick(cli, env, file) ==
    CASE IsSet(cli) -> Resolved(cli, "cli")
      [] ~IsSet(cli) /\ IsSet(env) -> Resolved(env, "env")
      [] ~IsSet(cli) /\ ~IsSet(env) /\ IsSet(file) -> Resolved(file, "file")
      [] OTHER -> Nothing

-----------------------------------------------------------------------------
(* The address of the center: what a URI is made of.  Port 0 is one that is  *)
(* not there or is no number of 16 bits.  "#" drops out of a URI, so that it *)
(* is looked for in the text.                                                *)
Addr(scheme, host, port) ==
    [uri |-> TRUE, scheme |-> scheme, host |-> host, port |-> port,
     path |-> "/", query |-> FALSE, hash |-> FALSE]

\* Of a list of checks, why the first of those that fail does.
Check(wrong, why) == [wrong |-> wrong, why |-> why]
FirstWrong(checks) ==
    LET wrong == {i \in DOMAIN checks : checks[i].wrong} IN
    IF wrong = {} THEN "none"
    ELSE checks[CHOOSE i \in wrong : \A j \in wrong : i <= j].why

\* port_text: what comes after the host, or after the ] of an IPv6 address.  A
\* user before an @ is left out, and accepted.
ReadsPort(port) == port \in 1..65535

AddrFault(addr) ==
    FirstWrong(<<Check(~addr.uri, "not a valid URI"),
                 Check(addr.scheme \notin {"http", "https"}, "scheme"),
                 Check(addr.host = Unset, "missing host"),
                 Check(~ReadsPort(addr.port), "port"),
                 Check(addr.path # "/", "path"),
                 Check(addr.query, "query"),
                 Check(addr.hash, "fragment")>>)

\* validate_center_addr
ValidAddr(addr) == AddrFault(addr) = "none"

\* warn_plaintext_skills
Plaintext(addr) == addr.scheme = "http" /\ addr.host \notin {"localhost", "127.0.0.1", "::1"}

-----------------------------------------------------------------------------
(* Whether specs may run a shell.  Neither the file nor the center can say.  *)
Yes == {"1", "true", "yes", "on"}
No == {"0", "false", "no", "off"}

ResolveAllowExec(flag, env) ==
    CASE flag -> Resolved(TRUE, "cli")
      [] ~flag /\ ~IsSet(env) -> Resolved(FALSE, "default")
      [] ~flag /\ IsSet(env) ->
            IF env \in Yes \cup No THEN Resolved(env \in Yes, "env") ELSE Error("InvalidAllowExec")

-----------------------------------------------------------------------------
(* The data directory: what node_id holds, whether it can be read, and       *)
(* whether the directory can be written.  Writing it is not atomic, so that  *)
(* a stop may leave the file blank, or with a part of the id.                *)
DataDir(id, readable, writable) == [id |-> id, readable |-> readable, writable |-> writable]

\* node_id_from_data_dir, with the id that would be generated.
NodeIdFromDataDir(dir, fresh) ==
    CASE dir.id # Unset /\ ~dir.readable -> [id |-> Error("NodeIdUnavailable"), dir |-> dir]
      [] IsSet(dir.id) /\ dir.readable -> [id |-> Resolved(dir.id, "persisted"), dir |-> dir]
      [] dir.id = Unset \/ (dir.id = Blank /\ dir.readable) ->
            IF dir.writable
            THEN [id |-> Resolved(fresh, "generated"), dir |-> [dir EXCEPT !.id = fresh, !.readable = TRUE]]
            ELSE [id |-> Error("NodeIdUnavailable"), dir |-> dir]

-----------------------------------------------------------------------------
(* The settings: center, node_id, token and exec as they are given in cli,   *)
(* env and file.  An address is the text of one, which addrs tells apart.    *)
NoFile == [center |-> Unset, node_id |-> Unset, token |-> Unset]

\* load_file_config and parse_file_config: unknown keys, exec among them, are errors.
FileKeys == {"center", "node_id", "token"}
LoadFile(file) ==
    IF ~file.given THEN NoFile
    ELSE IF ~file.readable \/ ~(DOMAIN file.keys \subseteq FileKeys) THEN Error("ConfigFile")
    ELSE [k \in FileKeys |-> IF k \in DOMAIN file.keys THEN file.keys[k] ELSE Unset]

\* resolve: the address, then exec, and only then the data directory.
Resolve(cli, env, file, addrs, dir, fresh) ==
    LET center == Pick(cli.center, env.center, file.center)
        node == Pick(cli.node_id, env.node_id, file.node_id)
        exec == ResolveAllowExec(cli.exec, env.exec)
        wrong == FirstWrong(<<Check(center = Nothing, "Missing"),
                              Check(center # Nothing /\ ~ValidAddr(addrs[center.value]), "InvalidCenterAddr"),
                              Check(Failed(exec), "InvalidAllowExec")>>)
        own == IF node = Nothing THEN NodeIdFromDataDir(dir, fresh) ELSE [id |-> node, dir |-> dir]
    IN  IF wrong # "none" THEN [result |-> Error(wrong), dir |-> dir]
        ELSE [result |-> IF Failed(own.id) THEN own.id
                         ELSE [center |-> center, node_id |-> own.id, allow_exec |-> exec,
                               token |-> Pick(cli.token, env.token, file.token)],
              dir |-> own.dir]

\* resolve_declared_tags: tags, and the older name for them, are {} if they are not
\* given, and {entries} if they are.
DeclaredTags(tags, labels) ==
    CASE tags # {} /\ labels # {} -> Error("tags and labels")
      [] tags = {} /\ labels = {} -> [entries |-> <<>>]
      [] OTHER -> [entries |-> CHOOSE entries \in tags \cup labels : TRUE]

\* parse_labels, of a sequence of entries: the last of a key counts.
ParseLabels(entries) ==
    LET read == {i \in DOMAIN entries : entries[i].equals /\ IsSet(entries[i].key)} IN
    [k \in {entries[i].key : i \in read} |->
        entries[CHOOSE i \in read : entries[i].key = k
                    /\ \A j \in read : entries[j].key = k => j <= i].value]

\* main: the tags, the file and the settings, before anything else is done.  The
\* process that has no settings exits.
Starts(args, env, addrs, dir, fresh) ==
    LET tags == DeclaredTags(args.tags, args.labels)
        file == LoadFile(args.file) IN
    IF Failed(tags) THEN [result |-> tags, dir |-> dir]
    ELSE IF Failed(file) THEN [result |-> file, dir |-> dir]
    ELSE Resolve(args, env, file, addrs, dir, fresh)
=============================================================================
