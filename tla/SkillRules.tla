------------------------------ MODULE SkillRules ------------------------------
(***************************************************************************)
(* What a skill package may declare and what a guest may reach, as each    *)
(* part of the system decides it for itself: the authoring command         *)
(* (novbot-skill), the center's catalog, the node's loader and the WASM    *)
(* runtime.  A package is a record of the facts those four look at; a      *)
(* path is the sequence of its segments.                                   *)
(***************************************************************************)
EXTENDS Naturals, FiniteSets, Sequences, SequencesExt, TLC

CONSTANTS
    Dirs, Files,  \* the paths of the node's directories and files
    Links,        \* its symbolic links: a path to the path it points at
    Secret        \* directories the node denies, whatever is granted

Paths(S) == \A p \in S : p \in Seq(STRING)

ASSUME RulesAssumption ==
    /\ Paths(Dirs) /\ Paths(Files) /\ Paths(DOMAIN Links) /\ Paths(Secret)
    /\ <<>> \in Dirs /\ \A l \in DOMAIN Links : Links[l] \in Seq(STRING)

-----------------------------------------------------------------------------
(* Paths: path.rs                                                            *)

Gone == <<"?">>
MaxHops == Cardinality(DOMAIN Links) + 1

\* `..` and `.` are resolved before any link is followed.
Lexical(raw) ==
    FoldLeft(LAMBDA out, s : CASE s = "." -> out
                               [] s = ".." -> IF out = <<>> THEN out ELSE Front(out)
                               [] OTHER -> Append(out, s), <<>>, raw)

\* The path with every link followed, Gone when some part of it does not exist.
Follow[at \in Seq(STRING), rest \in Seq(STRING), hops \in Nat] ==
    IF rest = <<>> THEN at
    ELSE LET next == Append(at, Head(rest))
         IN  CASE next \in DOMAIN Links ->
                      IF hops = 0 THEN Gone ELSE Follow[<<>>, Links[next] \o Tail(rest), hops - 1]
               [] next \in Dirs \cup Files -> Follow[next, Tail(rest), hops]
               [] OTHER -> Gone

Canonicalize(p) == Follow[<<>>, p, MaxHops]

\* The longest part of the path that exists, followed, and the rest as it is.
ExistingPrefix(p) ==
    LET found == {k \in 0..Len(p) : Canonicalize(SubSeq(p, 1, k)) # Gone}
        k == CHOOSE n \in found : \A o \in found : o <= n
    IN  Canonicalize(SubSeq(p, 1, k)) \o SubSeq(p, k + 1, Len(p))

\* Mutant: no link is followed.
OwnLexical(p) == p

\* The last segment is never followed.
Own(p) == IF p = <<>> THEN p ELSE Append(ExistingPrefix(Front(p)), Last(p))

FollowTarget(p) ==
    CASE Canonicalize(p) # Gone -> Canonicalize(p)
      [] Own(Lexical(p)) \in DOMAIN Links -> Gone
      [] OTHER -> Own(Lexical(p))

Resolve(raw) ==
    LET own == Own(Lexical(raw))
        link == own \in DOMAIN Links
        target == IF link THEN FollowTarget(Links[own]) ELSE own
    IN  [own |-> own, link |-> link, broken |-> target = Gone,
         scope |-> IF target = Gone THEN own ELSE target]

RejectSyntax(p) == Contains(p, "~")

IsMeta(s) == s \in {"*", "**"}

SegmentsMatch[pat \in Seq(STRING), p \in Seq(STRING)] ==
    CASE pat = <<>> -> p = <<>>
      [] Head(pat) = "**" -> \E i \in 0..Len(p) : SegmentsMatch[Tail(pat), SubSeq(p, i + 1, Len(p))]
      [] OTHER -> /\ p # <<>>
                  /\ Head(pat) \in {"*", Head(p)}
                  /\ SegmentsMatch[Tail(pat), Tail(p)]

CanonicalPattern(pat) ==
    LET at == CHOOSE i \in 1..Len(pat) : IsMeta(pat[i]) /\ \A j \in 1..(i - 1) : ~IsMeta(pat[j])
    IN  Resolve(SubSeq(pat, 1, at - 1)).own \o SubSeq(pat, at, Len(pat))

\* A grant's glob against a path that is canonical already.
GlobMatches(pat, p) ==
    IF \E i \in DOMAIN pat : IsMeta(pat[i])
    THEN SegmentsMatch[CanonicalPattern(pat), p]
    ELSE Resolve(pat).own = p

\* The node's own list: deny.rs.
DeniesFs(p) == \E d \in Secret : IsPrefix(d, p)

-----------------------------------------------------------------------------
(* Capabilities.  A scope is a path, the key of an environment variable, or  *)
(* absent; a grant is a capability with its scope.  The table of what exists *)
(* is written down three times, here with few of each kind of scope.         *)

Scopes == [kind : {"none"}] \cup [kind : {"path"}, path : Seq(STRING)] \cup [kind : {"key"}, key : STRING]

NoScope == [kind |-> "none"]
PathScope(p) == [kind |-> "path", path |-> p]
KeyScope(k) == [kind |-> "key", key |-> k]

Grant(name, scope) == [name |-> name, scope |-> scope]
NoGrant == Grant("", NoScope)

CenterKinds == [cap \in {"fs.read", "fs.stat", "env.read", "sys.info.read"} |->
    CASE cap \in {"fs.read", "fs.stat"} -> "path" [] cap = "env.read" -> "key" [] OTHER -> "none"]
NodeCatalog == {"fs.read", "fs.stat", "env.read", "sys.info.read"}
RuntimeKinds == [cap \in {"fs.read", "fs.stat", "env.read", "sys.info.read"} |->
    CASE cap \in {"fs.read", "fs.stat"} -> "path" [] cap = "env.read" -> "key" [] OTHER -> "none"]

\* The keys an env.read scope covers, those scopes being well formed.
EnvKeys == ("HOME" :> {"HOME"} @@ "NOVBOT_*" :> {"NOVBOT_URL", "NOVBOT_TOKEN"})
DeniesEnv(k) == k = "NOVBOT_TOKEN"

\* Segments that no reader takes, the first for any with a character that none of
\* them does, the last for two slashes in a row; and segments that only the runtime
\* refuses: braces, brackets, a dollar, two stars next to something else.
Malformed == {"~", ".", "..", ""}
RuntimeRefuses == {"{a,b}", "[ab]", "$HOME", "**.conf"}

\* valid_path_glob of the runtime, and the looser valid_fs_scope of the center.
ValidPathGlob(p) == Range(p) \cap (Malformed \cup RuntimeRefuses) = {}
ValidCenterPath(p) == Range(p) \cap Malformed = {}

\* The scope is of the kind that one reader's table has for the capability.
Fits(kinds, g) ==
    /\ g.name \in DOMAIN kinds
    /\ g.scope.kind = kinds[g.name]
    /\ g.scope.kind = "key" => g.scope.key \in DOMAIN EnvKeys

-----------------------------------------------------------------------------
(* An entry of [[capabilities]] has a name and a scope; its key `grant` says *)
(* both at once.                                                             *)

Capability == [name : STRING, scope : Scopes, grant : [name : STRING, scope : Scopes] \cup {NoGrant}]

\* novbot-skill prefers the grant and writes the entry back without it.
Preferred(e) == IF e.grant # NoGrant THEN e.grant ELSE Grant(e.name, e.scope)
Normalized(e) == [name |-> Preferred(e).name, scope |-> Preferred(e).scope, grant |-> NoGrant]

\* The center does not know the key.
CenterGrant(e) == Grant(e.name, e.scope)
ValidateCapability(e) ==
    LET g == CenterGrant(e)
    IN  Fits(CenterKinds, g) /\ (g.scope.kind = "path" => ValidCenterPath(g.scope.path))

GrantString(e) == IF e.grant # NoGrant THEN e.grant ELSE Grant(e.name, e.scope)

\* The runtime's globs are stricter than the center's paths.
ParseGrant(g) == Fits(RuntimeKinds, g) /\ (g.scope.kind = "path" => ValidPathGlob(g.scope.path))

-----------------------------------------------------------------------------
(* Packages                                                                  *)

\* module.wasm holds a component, one with imports that the host's linker has not
\* or without the export it calls, WASM of another kind, or something else; the
\* parameters' schema applies, is JSON that is no schema, or no JSON.
Package == [
    name : STRING, semver : BOOLEAN, abi : BOOLEAN, limits : {"none", "number", "text"},
    platforms : SUBSET STRING, newer : BOOLEAN, files : SUBSET STRING, sums : BOOLEAN,
    wasm : {"component", "unlinked", "other", "text"}, schema : {"applies", "odd", "text"},
    caps : SUBSET Capability]

AllowedFiles == {"module.wasm", "schema/params.json", "README.md"}
Required == {"module.wasm", "schema/params.json"}

\* novbot-skill: a project's skill.toml, and what `pack` makes of the project.
Parses(p) == p.name # "" /\ p.abi /\ p.limits # "text" /\ \A e \in p.caps : Preferred(e).name # ""
IsJson(p) == p.schema # "text"
Packs(p) == Parses(p) /\ p.wasm # "text" /\ IsJson(p) /\ Required \subseteq p.files

Packed(p) == [p EXCEPT !.files = @ \cap AllowedFiles, !.sums = TRUE,
                       !.caps = {Normalized(e) : e \in @}]

\* The center: parse_package, which reads neither the limits nor a grant key.
Unpacks(p) == p.files \subseteq AllowedFiles
IsWasm(p) == Required \subseteq p.files /\ p.wasm # "text"
ValidSkillName(p) == p.name \notin {"", "echo", "Demo"}
SumsMatch(p) == p.sums

\* Mutant: the scopes are not looked at.
CenterAcceptsAnyScope(p) ==
    /\ Unpacks(p) /\ IsWasm(p) /\ IsJson(p) /\ ValidSkillName(p) /\ SumsMatch(p) /\ p.semver /\ p.abi
    /\ \A e \in p.caps : e.name \in DOMAIN CenterKinds

CenterAccepts(p) ==
    /\ Unpacks(p) /\ IsWasm(p) /\ IsJson(p) /\ ValidSkillName(p) /\ SumsMatch(p) /\ p.semver /\ p.abi
    /\ \A e \in p.caps : ValidateCapability(e)

\* The center again, for one node that may have declared its labels or not.
NodeTooOld(p) == p.newer
PlatformUnsupported(p, labelled) ==
    labelled /\ p.platforms # {} /\ p.platforms \cap {"slash", "dash"} = {}

\* The node: open_package, then its own platform and compiler.
NodeUnpacks(p) == "old.cwasm" \notin p.files
ParseManifest(p) == p.name # "" /\ p.limits # "text" /\ \A e \in p.caps : GrantString(e).name # ""
VerifyFileHashes(p) == p.sums
NodeLoads(p) ==
    /\ NodeUnpacks(p) /\ ParseManifest(p) /\ p.abi /\ VerifyFileHashes(p)
    /\ "module.wasm" \in p.files
    /\ \A e \in p.caps : GrantString(e).name \in NodeCatalog
CompileCwasm(p) == p.wasm \in {"component", "unlinked"}
NodeInstalls(p) == NodeLoads(p) /\ "slash" \in p.platforms /\ CompileCwasm(p)

-----------------------------------------------------------------------------
(* A host call of a guest that holds some grants                             *)

Declares(grants, cap) == \E g \in grants : g.name = cap

\* Denial order: undeclared, out of scope, policy.
Check(grants, cap, covering, denied) ==
    CASE ~Declares(grants, cap) -> "undeclared_capability"
      [] covering = {} -> "out_of_scope"
      [] denied -> "policy_denied"
      [] OTHER -> "ok"

AuthorizeFs(grants, cap, raw, useTarget) ==
    LET r == Resolve(raw)
        candidate == IF useTarget THEN r.scope ELSE r.own
        covering == {g \in grants : g.name = cap /\ GlobMatches(g.scope.path, candidate)}
    IN  CASE ~Declares(grants, cap) -> "undeclared_capability"
          [] RejectSyntax(raw) -> "out_of_scope"
          [] useTarget /\ r.broken -> "out_of_scope"
          [] OTHER -> Check(grants, cap, covering, DeniesFs(candidate))

AuthorizeEnv(grants, key) ==
    LET covering == {g \in grants : g.name = "env.read" /\ key \in EnvKeys[g.scope.key]}
    IN  Check(grants, "env.read", covering, DeniesEnv(key))

AuthorizeBare(grants, cap) == Check(grants, cap, {g \in grants : g.name = cap}, FALSE)
=============================================================================
