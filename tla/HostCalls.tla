------------------------------- MODULE HostCalls -------------------------------
(***************************************************************************)
(* What the calls of a guest to its host answer: host.rs and wasi_deny.rs. *)
(* An answer is "io", "not_found", a denial, or what was asked for.  The   *)
(* files of SkillRules can be read, but closed directories not be listed.  *)
(***************************************************************************)
EXTENDS SkillRules, ObserveRules

CONSTANT Closed  \* directories that the node may not list

ASSUME CallsAssumption == Closed \subseteq Dirs

Allowed(answer) == [ok |-> answer]
Denied(cap, target, reason) == [cap |-> cap, target |-> target, reason |-> reason]
IsDenial(answer) == DOMAIN answer = {"cap", "target", "reason"}

Bytes(n) == [bytes |-> n]
Entries(paths) == [entries |-> paths]
NotFound == Allowed("not_found")
Io == Allowed("io")

\* What is named in a denial: the path as it was checked, or else as it was given.
DeniedFs(held, cap, raw, useTarget) ==
    LET r == Resolve(raw)
        candidate == IF useTarget /\ ~r.broken THEN r.scope ELSE r.own
        early == ~Declares(held, cap) \/ RejectSyntax(raw) IN
    Denied(cap, IF early THEN raw ELSE candidate, AuthorizeFs(held, cap, raw, useTarget))

\* fs.read: at most as much as asked for, of what is no link.  Sizes are in some
\* unit of which the host reads MaxRead at once.
MaxRead == 4
Least(a, b) == IF a < b THEN a ELSE b

\* The system follows the links on the way to a path, but not one that it ends in.
Opened(p) == IF p = <<>> THEN p ELSE Append(Canonicalize(Front(p)), Last(p))

ReadLimited(p, size, max) ==
    CASE Opened(p) \in Files -> Bytes(Least(size, Least(max, MaxRead)))
      [] Opened(p) \in Dirs \cup DOMAIN Links -> Io
      [] OTHER -> NotFound

FsRead(held, raw, size, max) ==
    LET r == Resolve(raw) IN
    CASE AuthorizeFs(held, "fs.read", raw, TRUE) # "ok" -> DeniedFs(held, "fs.read", raw, TRUE)
      [] AuthorizeFs(held, "fs.read", raw, TRUE) = "ok" /\ r.link -> Io
      [] OTHER -> ReadLimited(r.own, size, max)

\* fs.stat does not follow a link, and to not be there is an answer.
KindName(p) ==
    CASE Opened(p) \in DOMAIN Links -> "symlink"
      [] Opened(p) \in Dirs -> "dir"
      [] Opened(p) \in Files -> "file"
      [] OTHER -> "absent"

FsStat(held, raw) ==
    IF AuthorizeFs(held, "fs.stat", raw, FALSE) # "ok" THEN DeniedFs(held, "fs.stat", raw, FALSE)
    ELSE Allowed(KindName(Resolve(raw).own))

\* fs.list: directory after directory, no link followed, and nothing of it if one
\* of them cannot be listed.
Children(dir) ==
    SetToSeq({p \in Dirs \cup Files \cup DOMAIN Links : p # <<>> /\ Front(p) = dir})

Walk[dirs \in Seq(Seq(STRING)), out \in Seq(Seq(STRING)), deepest \in Nat, max \in Nat] ==
    IF dirs = <<>> \/ Len(out) >= max THEN Entries(out)
    ELSE IF Head(dirs) \in Closed THEN Io
    ELSE LET children == Children(Head(dirs))
             shown == SubSeq(children, 1, Least(Len(children), max - Len(out)))
             nested == SelectSeq(shown, LAMBDA p : p \in Dirs /\ Len(p) < deepest)
         IN  Walk[nested \o Tail(dirs), out \o shown, deepest, max]

ListDir(dir, depth, max) ==
    CASE depth = 0 \/ max = 0 -> Entries(<<>>)
      [] depth > 0 /\ max > 0 /\ dir \in Dirs -> Walk[<<dir>>, <<>>, Len(dir) + depth, max]
      [] depth > 0 /\ max > 0 /\ dir \in Files -> Io
      [] OTHER -> NotFound

FsList(held, raw, depth, max) ==
    LET r == Resolve(raw) IN
    CASE AuthorizeFs(held, "fs.list", raw, TRUE) # "ok" -> DeniedFs(held, "fs.list", raw, TRUE)
      [] AuthorizeFs(held, "fs.list", raw, TRUE) = "ok" /\ r.link -> Io
      [] OTHER -> ListDir(r.own, depth, max)

\* The calls that take no path: what the node can tell of itself, and a variable,
\* which may not be set.
BareCall(held, cap, os) ==
    IF AuthorizeBare(held, cap) = "ok" THEN (IF Told(os, cap) = {} THEN Io ELSE Allowed(Told(os, cap)))
    ELSE Denied(cap, <<>>, AuthorizeBare(held, cap))

EnvGet(held, key, set) ==
    IF AuthorizeEnv(held, key) = "ok" THEN Allowed(key \in set)
    ELSE Denied("env.read", key, AuthorizeEnv(held, key))

-----------------------------------------------------------------------------
(* What a guest reaches past the host's own calls                            *)

\* Imports of WASI that are shadowed, each as a capability of no catalog.
WasiCapability(import) ==
    CASE import = "wasi:filesystem/types" -> {"wasi:filesystem"}
      [] import = "wasi:sockets/tcp" -> {"wasi:sockets"}
      [] import = "wasi:cli/environment" -> {"wasi:environment"}
      [] OTHER -> {}

Shadowed == {"wasi:filesystem/types", "wasi:sockets/tcp", "wasi:cli/environment"}

\* The function of a stub answers with an error, or else with zeros.
DenyWasi(held, cap, target) ==
    LET reason == AuthorizeBare(held, cap) IN
    Denied(cap, target, IF reason = "ok" THEN "undeclared_capability" ELSE reason)

WasiCall(held, import, target) ==
    {DenyWasi(held, cap, target) : cap \in WasiCapability(import)}
=============================================================================
