---------------------------- MODULE TargetSchedules ----------------------------
(***************************************************************************)
(* Schedules for a set of nodes, targets.rs: a schedule is a row, a state  *)
(* per node and an entry in the node's own list, which operators also edit *)
(* (db.rs, http.rs).  Requests read what they need first and then write in *)
(* a transaction that locks each list before it reads it.                  *)
(***************************************************************************)
EXTENDS Naturals, FiniteSets

CONSTANTS
    Nodes,
    Schedules,  \* schedule ids; all schedules are for one spec
    Requests,   \* HTTP requests that may run at once
    MaxStarts,  \* bound on requests, and on changes of tags
    MaxTouched  \* bound on the schedules whose entries one edit of a list touches

Own == "own"    \* an entry an operator wrote: it has no origin

ASSUME SchedulesAssumption == MaxStarts \in Nat /\ MaxTouched \in Nat /\ Own \notin Schedules

VARIABLES
    sched,    \* target_schedules: enabled or not, and the nodes of its resolution
    rows,     \* target_schedule_nodes
    entries,  \* schedules_json of node_configs
    match,    \* nodes the selector matches now
    reqs,
    starts,
    lapses    \* kinds of requests that acted on what was no longer so, or wrote
              \* entries of schedules by hand

schedVars == <<sched, rows, entries>>
vars == <<sched, rows, entries, match, reqs, starts, lapses>>

Idle == [kind |-> "idle"]
Unused == [state |-> "unused", on |-> FALSE, at |-> {}]
Deleted == [state |-> "deleted", on |-> FALSE, at |-> {}]
Live(s) == sched[s].state = "live"

\* An entry on or off stands for one with other settings too.
Entry(s, on) == [origin |-> s, on |-> on]
Less(list, s) == {e \in list : e.origin # s}
HasEntry(list, s) == \E e \in list : e.origin = s

Init ==
    /\ sched = [s \in Schedules |-> Unused]
    /\ rows = [s \in Schedules |-> [n \in Nodes |-> "none"]]
    /\ entries = [n \in Nodes |-> {}]
    /\ match = Nodes
    /\ reqs = [r \in Requests |-> Idle]
    /\ starts = 0 /\ lapses = {}

\* A request reads and then acts; what it read may have changed in between.
Start(r, state) ==
    /\ reqs[r] = Idle /\ starts < MaxStarts
    /\ starts' = starts + 1
    /\ reqs' = [reqs EXCEPT ![r] = state]
    /\ UNCHANGED <<schedVars, match, lapses>>

Step(r, state) == reqs' = [reqs EXCEPT ![r] = state] /\ UNCHANGED starts
Finish(r) == Step(r, Idle)

Noting(stale, kind) == lapses' = IF stale THEN lapses \cup {kind} ELSE lapses

ActiveAt(s) == {n \in Nodes : rows[s][n] = "active"}
RowsAt(s) == {n \in Nodes : rows[s][n] # "none"}

(***************************************************************************)
(* What a transaction does to a list it has locked                         *)
(***************************************************************************)
\* A list that has an entry for the spec, whoever wrote it, is left alone.
StateOf(n) == IF entries[n] # {} THEN "skipped" ELSE "active"
\* Mutant: an entry is added enabled.
AddedOn(n, s, on) == IF entries[n] # {} THEN entries[n] ELSE {Entry(s, TRUE)}
Added(n, s, on) == IF entries[n] # {} THEN entries[n] ELSE {Entry(s, on)}

(***************************************************************************)
(* Requests about a schedule                                               *)
(***************************************************************************)
CreateRead(r, s, on) ==
    /\ sched[s] = Unused /\ match # {}
    /\ \A q \in Requests : reqs[q].kind = "create" => reqs[q].id # s
    /\ Start(r, [kind |-> "create", id |-> s, on |-> on, at |-> match])

CreateCommit(r) ==
    LET q == reqs[r] IN
    /\ q.kind = "create"
    /\ sched' = [sched EXCEPT ![q.id] = [state |-> "live", on |-> q.on, at |-> q.at]]
    /\ rows' = [rows EXCEPT ![q.id] = [n \in Nodes |-> IF n \in q.at THEN StateOf(n) ELSE "none"]]
    /\ entries' = [n \in Nodes |-> IF n \in q.at THEN Added(n, q.id, q.on) ELSE entries[n]]
    /\ Finish(r)
    /\ UNCHANGED <<match, lapses>>

\* patch_schedule reads which nodes are active.
PatchRead(r, s, on) ==
    /\ Live(s)
    /\ Start(r, [kind |-> "patch", id |-> s, on |-> on, at |-> ActiveAt(s)])

Set(list, s, on) == {IF e.origin = s THEN [e EXCEPT !.on = on] ELSE e : e \in list}

PatchCommit(r) ==
    LET q == reqs[r] IN
    /\ q.kind = "patch"
    /\ sched' = IF Live(q.id) THEN [sched EXCEPT ![q.id].on = q.on] ELSE sched
    /\ entries' = [n \in Nodes |-> IF n \in q.at THEN Set(entries[n], q.id, q.on) ELSE entries[n]]
    /\ Finish(r)
    /\ Noting(q.at # ActiveAt(q.id), "patch")
    /\ UNCHANGED <<rows, match>>

\* delete_schedule reads which nodes have a row.
DeleteRead(r, s) ==
    /\ Live(s)
    /\ Start(r, [kind |-> "delete", id |-> s, at |-> RowsAt(s)])

\* Mutant: the entries stay.
DeleteKeeps(r) ==
    LET q == reqs[r] IN
    /\ q.kind = "delete"
    /\ sched' = [sched EXCEPT ![q.id] = Deleted]
    /\ rows' = [rows EXCEPT ![q.id] = [n \in Nodes |-> "none"]]
    /\ Finish(r)
    /\ Noting(q.at # RowsAt(q.id), "delete")
    /\ UNCHANGED <<match, entries>>

DeleteCommit(r) ==
    LET q == reqs[r] IN
    /\ q.kind = "delete"
    /\ sched' = [sched EXCEPT ![q.id] = Deleted]
    /\ rows' = [rows EXCEPT ![q.id] = [n \in Nodes |-> "none"]]
    /\ entries' = [n \in Nodes |-> IF n \in q.at THEN Less(entries[n], q.id) ELSE entries[n]]
    /\ Finish(r)
    /\ Noting(q.at # RowsAt(q.id), "delete")
    /\ UNCHANGED match

\* re_resolve_schedule compares the nodes of the resolution with those that match.
ResolveRead(r, s) ==
    /\ Live(s)
    /\ Start(r, [kind |-> "resolve", id |-> s, read |-> sched[s], at |-> match,
                 added |-> match \ sched[s].at, gone |-> sched[s].at \ match])

\* Mutant: nodes that left lose the row only.
ResolveKeeps(r) ==
    LET q == reqs[r] IN
    /\ q.kind = "resolve"
    /\ IF Live(q.id) \/ q.added = {}
       THEN /\ sched' = IF Live(q.id) THEN [sched EXCEPT ![q.id].at = q.at] ELSE sched
            /\ rows' = [rows EXCEPT ![q.id] = [n \in Nodes |->
                           CASE n \in q.gone  -> "none"
                             [] n \in q.added -> StateOf(n)
                             [] OTHER         -> @[n]]]
            /\ entries' = [n \in Nodes |->
                              CASE n \in q.added -> Added(n, q.id, q.read.on)
                                [] OTHER         -> entries[n]]
       ELSE UNCHANGED schedVars
    /\ Finish(r)
    /\ Noting(q.read # sched[q.id], "resolve")
    /\ UNCHANGED match

\* Rows of a schedule that is gone cannot be inserted: the transaction fails.
ResolveCommit(r) ==
    LET q == reqs[r] IN
    /\ q.kind = "resolve"
    /\ IF Live(q.id) \/ q.added = {}
       THEN /\ sched' = IF Live(q.id) THEN [sched EXCEPT ![q.id].at = q.at] ELSE sched
            /\ rows' = [rows EXCEPT ![q.id] = [n \in Nodes |->
                           CASE n \in q.gone  -> "none"
                             [] n \in q.added -> StateOf(n)
                             [] OTHER         -> @[n]]]
            /\ entries' = [n \in Nodes |->
                              CASE n \in q.gone  -> Less(entries[n], q.id)
                                [] n \in q.added -> Added(n, q.id, q.read.on)
                                [] OTHER         -> entries[n]]
       ELSE UNCHANGED schedVars
    /\ Finish(r)
    /\ Noting(q.read # sched[q.id], "resolve")
    /\ UNCHANGED match

\* get_schedule first marks the active nodes whose list has lost the entry.
RefreshRead(r, s) ==
    Start(r, [kind |-> "refresh", id |-> s, at |-> ActiveAt(s), lost |-> {}])

RefreshLook(r, n) ==
    LET q == reqs[r] IN
    /\ q.kind = "refresh" /\ n \in q.at /\ q.lost = {}
    /\ Step(r, [q EXCEPT !.at = @ \ {n}, !.lost = IF HasEntry(entries[n], q.id) THEN {} ELSE {n}])
    /\ UNCHANGED <<schedVars, match, lapses>>

RefreshMark(r) ==
    LET q == reqs[r] IN
    /\ q.kind = "refresh" /\ (q.lost # {} \/ q.at = {})
    /\ rows' = [rows EXCEPT ![q.id] = [n \in Nodes |->
                   IF n \in q.lost /\ @[n] = "active" THEN "removed" ELSE @[n]]]
    /\ Step(r, IF q.at = {} THEN Idle ELSE [q EXCEPT !.lost = {}])
    /\ Noting(\E n \in q.lost : HasEntry(entries[n], q.id), "refresh")
    /\ UNCHANGED <<sched, entries, match>>

(***************************************************************************)
(* Requests about the list of a node                                       *)
(***************************************************************************)
\* An operator reads the list and sends another as a whole.
EditRead(r, n) == Start(r, [kind |-> "edit", node |-> n, read |-> entries[n]])

\* Any list is accepted, whatever entries of schedules it has.
Known == {s \in Schedules : sched[s].state # "unused"}
Writable == {Entry(s, on) : s \in Known, on \in BOOLEAN} \cup {Entry(Own, TRUE)}
Lists == SUBSET Writable
Edited(was) == {list \in Lists : Cardinality({e.origin : e \in (list \ was) \cup (was \ list)}) <= MaxTouched}

\* The list was another by now; an entry of a schedule has other settings than it
\* had in it, or was not in it.
Departs(q, list) ==
    LET ofSchedules == {e \in list \ q.read : e.origin # Own}
    IN  (IF q.read # entries[q.node] THEN {"list"} ELSE {})
        \cup (IF \E e \in ofSchedules : HasEntry(q.read, e.origin) THEN {"change"} ELSE {})
        \cup (IF \E e \in ofSchedules : ~HasEntry(q.read, e.origin) THEN {"foreign"} ELSE {})

\* put_schedules: the list, and then note_node_schedule_edit.
PutSchedules(r, list) ==
    LET q == reqs[r] IN
    /\ q.kind = "edit"
    /\ entries' = [entries EXCEPT ![q.node] = list]
    /\ Step(r, [kind |-> "note", node |-> q.node, read |-> list])
    /\ lapses' = lapses \cup Departs(q, list)
    /\ UNCHANGED <<sched, rows, match>>

NoteRead(r) ==
    LET q == reqs[r] IN
    /\ q.kind = "note"
    /\ Step(r, [kind |-> "mark", node |-> q.node,
                ids |-> {s \in Schedules : rows[s][q.node] = "active" /\ ~HasEntry(q.read, s)}])
    /\ UNCHANGED <<schedVars, match, lapses>>

\* The state is set whatever it has become.
NoteMark(r) ==
    LET q == reqs[r] IN
    /\ q.kind = "mark"
    /\ rows' = [s \in Schedules |-> [rows[s] EXCEPT ![q.node] =
                   IF s \in q.ids /\ @ # "none" THEN "removed" ELSE @]]
    /\ Finish(r)
    /\ Noting(\E s \in q.ids : HasEntry(entries[q.node], s), "note")
    /\ UNCHANGED <<sched, entries, match>>

\* put_config with a list does not note what it replaces.
PutConfig(r, list) ==
    LET q == reqs[r] IN
    /\ q.kind = "edit"
    /\ entries' = [entries EXCEPT ![q.node] = list]
    /\ Finish(r)
    /\ lapses' = lapses \cup {"silent"} \cup Departs(q, list)
    /\ UNCHANGED <<sched, rows, match>>

\* Without one it reads the list, and writes it back together with the specs.
ConfigRead(r, n) == Start(r, [kind |-> "config", node |-> n, read |-> entries[n]])

ConfigWrite(r) ==
    LET q == reqs[r] IN
    /\ q.kind = "config"
    /\ entries' = [entries EXCEPT ![q.node] = q.read]
    /\ Finish(r)
    /\ Noting(q.read # entries[q.node], "list")
    /\ UNCHANGED <<sched, rows, match>>

\* Tags change, and with them what the selector matches.
Retag(n) ==
    /\ starts < MaxStarts
    /\ starts' = starts + 1
    /\ match' = IF n \in match THEN match \ {n} ELSE match \cup {n}
    /\ UNCHANGED <<schedVars, reqs, lapses>>

Next ==
    \/ \E r \in Requests :
           \/ \E s \in Schedules :
                  \/ DeleteRead(r, s) \/ ResolveRead(r, s) \/ RefreshRead(r, s)
                  \/ \E on \in BOOLEAN : CreateRead(r, s, on) \/ PatchRead(r, s, on)
           \/ CreateCommit(r) \/ PatchCommit(r) \/ DeleteCommit(r) \/ ResolveCommit(r)
           \/ RefreshMark(r) \/ NoteRead(r) \/ NoteMark(r) \/ ConfigWrite(r)
           \/ \E n \in Nodes : RefreshLook(r, n) \/ EditRead(r, n) \/ ConfigRead(r, n)
           \/ reqs[r].kind = "edit" /\ \E list \in Edited(reqs[r].read) :
                  PutSchedules(r, list) \/ PutConfig(r, list)
    \/ \E n \in Nodes : Retag(n)

Spec == Init /\ [][Next]_vars

(***************************************************************************)
(* Properties                                                              *)
(***************************************************************************)
\* No node runs a schedule that was deleted, unless the delete did not see a node
\* that was added meanwhile, or somebody put back a list read before or wrote an
\* entry of a schedule into a list that had none.
EntryHasSchedule ==
    \A n \in Nodes, s \in Schedules :
        HasEntry(entries[n], s) => Live(s) \/ lapses \cap {"delete", "list", "foreign"} # {}

\* A node whose state says the schedule is not on it does not run it: no other
\* request would reach the entry.  The state can be wrong after a resolve that
\* repeats another, a list put back, an entry written by hand, or a note that comes
\* late.  A node said to run the schedule has the entry, but for an edit that is
\* still being noted or never is, and a list put back.
StatesAgree ==
    \A n \in Nodes, s \in Schedules :
        /\ Live(s) /\ rows[s][n] # "active" /\ HasEntry(entries[n], s) =>
               lapses \cap {"resolve", "list", "foreign", "note", "refresh"} # {}
        /\ rows[s][n] = "active" =>
               \/ HasEntry(entries[n], s)
               \/ \E r \in Requests :
                     \/ reqs[r].kind = "note" /\ reqs[r].node = n
                     \/ reqs[r].kind = "mark" /\ reqs[r].node = n /\ s \in reqs[r].ids
               \/ lapses \cap {"silent", "list"} # {}

\* The entry of a node has the schedule's settings, unless a patch and a resolve
\* did not see each other, a list was put back, or an operator changed the entry,
\* which the state of the node does not show.
SettingsReachNodes ==
    \A n \in Nodes, s \in Schedules :
        Live(s) /\ HasEntry(entries[n], s) =>
            \/ Entry(s, sched[s].on) \in entries[n]
            \/ lapses \cap {"patch", "resolve", "list", "change", "foreign", "note", "refresh"} # {}
=============================================================================
