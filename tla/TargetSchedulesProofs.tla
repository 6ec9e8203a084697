------------------------- MODULE TargetSchedulesProofs -------------------------
(***************************************************************************)
(* The properties of TargetSchedules for any nodes, schedules and number   *)
(* of requests.                                                            *)
(***************************************************************************)
EXTENDS TargetSchedules, TLAPS

Entries == [origin : Schedules \cup {Own}, on : BOOLEAN]
Sched == [state : {"unused", "live", "deleted"}, on : BOOLEAN, at : SUBSET Nodes]
States == {"none", "active", "skipped", "removed"}

Req ==
    {Idle}
    \cup [kind : {"delete"}, id : Schedules, at : SUBSET Nodes]
    \cup [kind : {"create", "patch"}, id : Schedules, on : BOOLEAN, at : SUBSET Nodes]
    \cup [kind : {"resolve"}, id : Schedules, read : Sched, at : SUBSET Nodes,
          added : SUBSET Nodes, gone : SUBSET Nodes]
    \cup [kind : {"refresh"}, id : Schedules, at : SUBSET Nodes, lost : SUBSET Nodes]
    \cup [kind : {"edit", "note", "config"}, node : Nodes, read : SUBSET Entries]
    \cup [kind : {"mark"}, node : Nodes, ids : SUBSET Schedules]

TypeOK ==
    /\ sched \in [Schedules -> Sched]
    /\ rows \in [Schedules -> [Nodes -> States]]
    /\ entries \in [Nodes -> SUBSET Entries]
    /\ match \subseteq Nodes
    /\ reqs \in [Requests -> Req]

Lapsed(kinds) == lapses \cap kinds # {}

\* A schedule that a request creates is not there yet, and no other request
\* creates it; one that a request is about was there.
RequestsFit ==
    \A r \in Requests :
        /\ reqs[r].kind = "create" =>
               /\ sched[reqs[r].id].state = "unused"
               /\ \A q \in Requests \ {r} : reqs[q].kind = "create" => reqs[q].id # reqs[r].id
        /\ reqs[r].kind \in {"patch", "delete", "resolve"} => sched[reqs[r].id].state # "unused"
        /\ reqs[r].kind = "resolve" =>
               reqs[r].added = reqs[r].at \ reqs[r].read.at /\ reqs[r].gone = reqs[r].read.at \ reqs[r].at

\* Nobody has seen an entry of a schedule that is not there yet.
UnusedIsNowhere ==
    \A s \in Schedules :
        sched[s].state = "unused" =>
            /\ \A n \in Nodes : ~HasEntry(entries[n], s)
            /\ \A r \in Requests : reqs[r].kind \in {"edit", "note", "config"} => ~HasEntry(reqs[r].read, s)

\* An entry has a row, by which a delete finds it.
EntryHasRow ==
    \A n \in Nodes, s \in Schedules :
        HasEntry(entries[n], s) => (Live(s) /\ rows[s][n] # "none") \/ Lapsed({"delete", "list", "foreign"})

\* It is on a node of the resolution, so that a resolve does not add it again.
EntryIsResolved ==
    \A n \in Nodes, s \in Schedules :
        Live(s) /\ HasEntry(entries[n], s) => n \in sched[s].at \/ Lapsed({"resolve", "list", "foreign"})

EntryIsActive ==
    \A n \in Nodes, s \in Schedules :
        Live(s) /\ HasEntry(entries[n], s) =>
            rows[s][n] = "active" \/ Lapsed({"resolve", "list", "foreign", "note", "refresh"})

\* An active row without an entry waits for a note that has not seen the entry.
ActiveHasEntry ==
    \A n \in Nodes, s \in Schedules :
        rows[s][n] = "active" =>
            \/ HasEntry(entries[n], s)
            \/ \E r \in Requests :
                  \/ reqs[r].kind = "note" /\ reqs[r].node = n /\ ~HasEntry(reqs[r].read, s)
                  \/ reqs[r].kind = "mark" /\ reqs[r].node = n /\ s \in reqs[r].ids
            \/ Lapsed({"silent", "list"})

\* Every entry of a schedule has its setting, so that no edit keeps one that has not.
EntriesAreSet ==
    \A n \in Nodes, s \in Schedules : \A e \in entries[n] :
        Live(s) /\ e.origin = s =>
            e.on = sched[s].on \/ Lapsed({"patch", "resolve", "list", "change", "foreign", "note", "refresh"})

SInv ==
    /\ TypeOK /\ RequestsFit /\ UnusedIsNowhere /\ EntryHasRow /\ EntryIsResolved
    /\ EntryIsActive /\ ActiveHasEntry /\ EntriesAreSet

LEMMA ReqFields ==
    ASSUME TypeOK, NEW r \in Requests
    PROVE  /\ reqs[r].kind \in {"create", "delete", "patch", "resolve", "refresh"} =>
                 reqs[r].id \in Schedules /\ reqs[r].at \subseteq Nodes
           /\ reqs[r].kind \in {"create", "patch"} => reqs[r].on \in BOOLEAN
           /\ reqs[r].kind = "resolve" => reqs[r].read \in Sched /\ reqs[r].added \subseteq Nodes
                                          /\ reqs[r].gone \subseteq Nodes
           /\ reqs[r].kind = "refresh" => reqs[r].lost \subseteq Nodes
           /\ reqs[r].kind \in {"edit", "note", "config"} =>
                 reqs[r].node \in Nodes /\ reqs[r].read \subseteq Entries
           /\ reqs[r].kind = "mark" => reqs[r].node \in Nodes /\ reqs[r].ids \subseteq Schedules
<1>1. reqs[r] \in Req
  BY DEF TypeOK
<1> QED BY <1>1 DEF Req, Idle

LEMMA InitS == Init => SInv
BY DEF Init, SInv, TypeOK, RequestsFit, UnusedIsNowhere, EntryHasRow, EntryIsResolved, EntryIsActive,
    ActiveHasEntry, EntriesAreSet, HasEntry, Live, Unused, Idle, Req, Sched, States

\* A request that reads changes nothing else.
LEMMA ReadKeeps ==
    ASSUME SInv, NEW r \in Requests, NEW state \in Req, reqs' = [reqs EXCEPT ![r] = state],
           UNCHANGED <<schedVars, match, lapses>>, reqs[r].kind \notin {"note", "mark"},
           state.kind = "create" =>
               /\ sched[state.id].state = "unused"
               /\ \A q \in Requests : reqs[q].kind = "create" => reqs[q].id # state.id,
           state.kind \in {"patch", "delete", "resolve"} => sched[state.id].state # "unused",
           state.kind = "resolve" =>
               state.added = state.at \ state.read.at /\ state.gone = state.read.at \ state.at,
           state.kind \in {"edit", "note", "config"} => \E n \in Nodes : state.read = entries[n]
    PROVE  SInv'
<1> USE DEF SInv, schedVars
<1>1. reqs'[r] = state /\ \A q \in Requests \ {r} : reqs'[q] = reqs[q]
  BY DEF TypeOK
<1>2. TypeOK'
  BY DEF TypeOK
<1>3. RequestsFit'
  BY <1>1 DEF RequestsFit
<1>4. UnusedIsNowhere'
  BY <1>1 DEF UnusedIsNowhere
<1>5. EntryHasRow' /\ EntryIsResolved' /\ EntryIsActive' /\ EntriesAreSet'
  BY DEF EntryHasRow, EntryIsResolved, EntryIsActive, EntriesAreSet, Live, Lapsed
<1>6. ActiveHasEntry'
  BY <1>1 DEF ActiveHasEntry, Lapsed
<1> QED BY <1>2, <1>3, <1>4, <1>5, <1>6

LEMMA ReadsKeep ==
    ASSUME SInv, NEW r \in Requests,
           \/ \E s \in Schedules :
                  \/ DeleteRead(r, s) \/ ResolveRead(r, s) \/ RefreshRead(r, s)
                  \/ \E on \in BOOLEAN : CreateRead(r, s, on) \/ PatchRead(r, s, on)
           \/ \E n \in Nodes : RefreshLook(r, n) \/ EditRead(r, n) \/ ConfigRead(r, n)
    PROVE  SInv'
<1>0. TypeOK
  BY DEF SInv
<1>1. ASSUME NEW s \in Schedules, NEW on \in BOOLEAN, CreateRead(r, s, on) PROVE SInv'
  <2> DEFINE state == [kind |-> "create", id |-> s, on |-> on, at |-> match]
  <2>1. state \in Req /\ state.kind = "create" /\ state.id = s
    BY <1>0 DEF Req, TypeOK
  <2>2. reqs' = [reqs EXCEPT ![r] = state] /\ UNCHANGED <<schedVars, match, lapses>> /\ reqs[r].kind = "idle"
    BY <1>1 DEF CreateRead, Start, Idle
  <2>3. sched[s].state = "unused" /\ \A q \in Requests : reqs[q].kind = "create" => reqs[q].id # s
    BY <1>1 DEF CreateRead, Unused
  <2> HIDE DEF state
  <2> QED BY <2>1, <2>2, <2>3, ReadKeeps
<1>2. ASSUME NEW s \in Schedules, DeleteRead(r, s) PROVE SInv'
  <2> DEFINE state == [kind |-> "delete", id |-> s, at |-> RowsAt(s)]
  <2>1. state \in Req /\ state.kind = "delete" /\ state.id = s
    BY DEF RowsAt, Req
  <2>2. reqs' = [reqs EXCEPT ![r] = state] /\ UNCHANGED <<schedVars, match, lapses>> /\ reqs[r].kind = "idle"
    BY <1>2 DEF DeleteRead, Start, Idle
  <2>3. sched[s].state # "unused"
    BY <1>2 DEF DeleteRead, Live
  <2> HIDE DEF state
  <2> QED BY <2>1, <2>2, <2>3, ReadKeeps
<1>3. ASSUME NEW s \in Schedules, ResolveRead(r, s) PROVE SInv'
  <2> DEFINE state == [kind |-> "resolve", id |-> s, read |-> sched[s], at |-> match,
                       added |-> match \ sched[s].at, gone |-> sched[s].at \ match]
  <2>1. sched[s] \in Sched /\ sched[s].at \subseteq Nodes
    BY <1>0 DEF TypeOK, Sched
  <2>2. state \in Req
    BY <1>0, <2>1 DEF TypeOK, Req
  <2>3. state.kind = "resolve" /\ state.id = s /\ state.added = state.at \ state.read.at
        /\ state.gone = state.read.at \ state.at
    OBVIOUS
  <2>4. reqs' = [reqs EXCEPT ![r] = state] /\ UNCHANGED <<schedVars, match, lapses>> /\ reqs[r].kind = "idle"
    BY <1>3 DEF ResolveRead, Start, Idle
  <2>5. sched[s].state # "unused"
    BY <1>3 DEF ResolveRead, Live
  <2> HIDE DEF state
  <2> QED BY <2>2, <2>3, <2>4, <2>5, ReadKeeps
<1>4. ASSUME NEW s \in Schedules, RefreshRead(r, s) PROVE SInv'
  <2> DEFINE state == [kind |-> "refresh", id |-> s, at |-> ActiveAt(s), lost |-> {}]
  <2>1. state \in Req /\ state.kind = "refresh"
    BY DEF ActiveAt, Req
  <2>2. reqs' = [reqs EXCEPT ![r] = state] /\ UNCHANGED <<schedVars, match, lapses>> /\ reqs[r].kind = "idle"
    BY <1>4 DEF RefreshRead, Start, Idle
  <2> HIDE DEF state
  <2> QED BY <2>1, <2>2, ReadKeeps
<1>5. ASSUME NEW s \in Schedules, NEW on \in BOOLEAN, PatchRead(r, s, on) PROVE SInv'
  <2> DEFINE state == [kind |-> "patch", id |-> s, on |-> on, at |-> ActiveAt(s)]
  <2>1. state \in Req /\ state.kind = "patch" /\ state.id = s
    BY DEF ActiveAt, Req
  <2>2. reqs' = [reqs EXCEPT ![r] = state] /\ UNCHANGED <<schedVars, match, lapses>> /\ reqs[r].kind = "idle"
    BY <1>5 DEF PatchRead, Start, Idle
  <2>3. sched[s].state # "unused"
    BY <1>5 DEF PatchRead, Live
  <2> HIDE DEF state
  <2> QED BY <2>1, <2>2, <2>3, ReadKeeps
<1>6. ASSUME NEW n \in Nodes, RefreshLook(r, n) PROVE SInv'
  <2> DEFINE lost == IF HasEntry(entries[n], reqs[r].id) THEN {} ELSE {n}
             state == [reqs[r] EXCEPT !.at = @ \ {n}, !.lost = lost]
  <2>1. reqs[r].kind = "refresh" /\ reqs[r] \in Req /\ lost \subseteq Nodes
    BY <1>0, <1>6 DEF RefreshLook, TypeOK
  <2>2. reqs' = [reqs EXCEPT ![r] = state] /\ UNCHANGED <<schedVars, match, lapses>>
    BY <1>6 DEF RefreshLook, Step
  <2> HIDE DEF lost
  <2>3. state \in Req /\ state.kind = "refresh"
    BY <2>1 DEF Req, Idle
  <2> HIDE DEF state
  <2> QED BY <2>1, <2>2, <2>3, ReadKeeps
<1>7. ASSUME NEW n \in Nodes, EditRead(r, n) \/ ConfigRead(r, n) PROVE SInv'
  <2>1. PICK k \in {"edit", "config"} :
            reqs' = [reqs EXCEPT ![r] = [kind |-> k, node |-> n, read |-> entries[n]]]
    BY <1>7 DEF EditRead, ConfigRead, Start, Idle
  <2> DEFINE state == [kind |-> k, node |-> n, read |-> entries[n]]
  <2>2. state \in Req /\ state.kind = k /\ state.read = entries[n]
    BY <1>0 DEF TypeOK, Req
  <2>3. UNCHANGED <<schedVars, match, lapses>> /\ reqs[r].kind = "idle"
    BY <1>7 DEF EditRead, ConfigRead, Start, Idle
  <2>4. reqs' = [reqs EXCEPT ![r] = state]
    BY <2>1
  <2> HIDE DEF state
  <2> QED BY <2>2, <2>3, <2>4, ReadKeeps
<1> QED BY <1>1, <1>2, <1>3, <1>4, <1>5, <1>6, <1>7

LEMMA EndedRequest ==
    ASSUME TypeOK, NEW r \in Requests, Finish(r)
    PROVE  /\ reqs' \in [Requests -> Req]
           /\ reqs'[r].kind = "idle" /\ \A q \in Requests \ {r} : reqs'[q] = reqs[q]
BY DEF TypeOK, Finish, Step, Req, Idle

\* create_schedule writes row, states and entries of a schedule nobody knows of.
LEMMA CreateInv ==
    ASSUME SInv, NEW r \in Requests, CreateCommit(r) PROVE SInv'
<1> USE DEF SInv
<1> DEFINE id == reqs[r].id
           at == reqs[r].at
           on == reqs[r].on
<1>1. /\ reqs[r].kind = "create" /\ id \in Schedules /\ at \subseteq Nodes /\ on \in BOOLEAN
      /\ sched[id].state = "unused" /\ \A n \in Nodes : ~HasEntry(entries[n], id)
  BY ReqFields DEF CreateCommit, RequestsFit, UnusedIsNowhere
<1>2. /\ reqs' \in [Requests -> Req]
      /\ reqs'[r].kind = "idle" /\ \A q \in Requests \ {r} : reqs'[q] = reqs[q]
  BY EndedRequest DEF CreateCommit
<1>3. UNCHANGED <<match, lapses>>
  BY DEF CreateCommit
<1>4. \A s \in Schedules : sched'[s] = IF s = id THEN [state |-> "live", on |-> on, at |-> at] ELSE sched[s]
  BY DEF CreateCommit, TypeOK
<1>5. \A s \in Schedules : \A n \in Nodes :
          rows'[s][n] = IF s # id THEN rows[s][n]
                        ELSE IF n \notin at THEN "none" ELSE IF entries[n] # {} THEN "skipped" ELSE "active"
  BY DEF CreateCommit, TypeOK, StateOf
<1>6. \A n \in Nodes :
          entries'[n] = IF n \in at /\ entries[n] = {} THEN {[origin |-> id, on |-> on]} ELSE entries[n]
  BY DEF CreateCommit, Added, Entry
<1>7. TypeOK'
  <2>1. sched' \in [Schedules -> Sched]
    BY <1>1 DEF TypeOK, CreateCommit, Sched
  <2>2. rows' \in [Schedules -> [Nodes -> States]]
    BY <1>1 DEF TypeOK, CreateCommit, States, StateOf
  <2>3. entries' \in [Nodes -> SUBSET Entries]
    BY <1>1 DEF TypeOK, CreateCommit, Added, Entry, Entries
  <2> QED BY <1>2, <1>3, <2>1, <2>2, <2>3 DEF TypeOK
<1> HIDE DEF id, at, on
<1>8. RequestsFit'
  BY <1>1, <1>2, <1>4, ReqFields DEF RequestsFit, id
<1>9. UnusedIsNowhere'
  BY <1>2, <1>4, <1>6 DEF UnusedIsNowhere, HasEntry
<1>10. EntryHasRow'
  BY <1>1, <1>3, <1>4, <1>5, <1>6 DEF EntryHasRow, HasEntry, Live, Lapsed
<1>11. \A s \in Schedules, n \in Nodes :
           HasEntry(entries'[n], s) <=> IF s = id THEN n \in at /\ entries[n] = {} ELSE HasEntry(entries[n], s)
  <2> SUFFICES ASSUME NEW s \in Schedules, NEW n \in Nodes
               PROVE HasEntry(entries'[n], s)
                         <=> IF s = id THEN n \in at /\ entries[n] = {} ELSE HasEntry(entries[n], s)
    OBVIOUS
  <2>1. CASE n \in at /\ entries[n] = {}
    <3>1. entries'[n] = {[origin |-> id, on |-> on]}
      BY <1>6, <2>1
    <3> QED BY <2>1, <3>1 DEF HasEntry
  <2>2. CASE ~(n \in at /\ entries[n] = {})
    BY <1>1, <1>6, <2>2
  <2> QED BY <2>1, <2>2
<1>12. EntryIsResolved' /\ EntryIsActive'
  BY <1>1, <1>3, <1>4, <1>5, <1>11 DEF EntryIsResolved, EntryIsActive, Live, Lapsed
<1>13. EntriesAreSet'
  <2> SUFFICES ASSUME NEW n \in Nodes, NEW s \in Schedules, NEW e \in entries'[n],
                      Live(s)', e.origin = s
               PROVE e.on = sched'[s].on \/ Lapsed({"patch", "resolve", "list", "change", "foreign", "note", "refresh"})
    BY <1>3 DEF EntriesAreSet, Lapsed
  <2>1. CASE s = id
    <3>1. e = [origin |-> id, on |-> on]
      BY <1>1, <1>6, <2>1 DEF HasEntry
    <3>2. e.on = on
      BY <3>1
    <3>3. sched'[s].on = on
      BY <1>4, <2>1
    <3> QED BY <3>2, <3>3
  <2>2. CASE s # id
    BY <1>4, <1>6, <2>2 DEF EntriesAreSet, Live
  <2> QED BY <2>1, <2>2
<1>14. ActiveHasEntry'
  BY <1>1, <1>2, <1>3, <1>5, <1>11 DEF ActiveHasEntry, Lapsed
<1> QED BY <1>7, <1>8, <1>9, <1>10, <1>12, <1>13, <1>14

\* patch_schedule sets the entries of the nodes that were active when it read.
LEMMA PatchInv ==
    ASSUME SInv, NEW r \in Requests, PatchCommit(r) PROVE SInv'
<1> USE DEF SInv
<1> DEFINE id == reqs[r].id
           at == reqs[r].at
           on == reqs[r].on
<1>1. reqs[r].kind = "patch" /\ id \in Schedules /\ at \subseteq Nodes /\ on \in BOOLEAN
  BY ReqFields DEF PatchCommit
<1>2. /\ reqs' \in [Requests -> Req]
      /\ reqs'[r].kind = "idle" /\ \A q \in Requests \ {r} : reqs'[q] = reqs[q]
  BY EndedRequest DEF PatchCommit
<1>3. /\ UNCHANGED <<rows, match>> /\ lapses \subseteq lapses'
      /\ at = ActiveAt(id) \/ "patch" \in lapses'
  BY DEF PatchCommit, Noting
<1>4. \A s \in Schedules :
          /\ sched'[s].state = sched[s].state /\ sched'[s].at = sched[s].at
          /\ sched'[s].on = IF s = id /\ Live(id) THEN on ELSE sched[s].on
  BY <1>1 DEF PatchCommit, TypeOK, Sched
<1>5. \A n \in Nodes : entries'[n] = IF n \in at THEN Set(entries[n], id, on) ELSE entries[n]
  BY DEF PatchCommit
<1>6. TypeOK'
  <2>1. sched' \in [Schedules -> Sched]
    BY <1>1 DEF TypeOK, PatchCommit, Sched
  <2>2. \A n \in Nodes : Set(entries[n], id, on) \subseteq Entries
    BY <1>1 DEF TypeOK, Set, Entries
  <2>3. entries' \in [Nodes -> SUBSET Entries]
    BY <2>2 DEF TypeOK, PatchCommit
  <2> QED BY <1>2, <1>3, <2>1, <2>3 DEF TypeOK
<1>7. \A n \in Nodes, s \in Schedules : HasEntry(entries'[n], s) <=> HasEntry(entries[n], s)
  <2> SUFFICES ASSUME NEW n \in Nodes, NEW s \in Schedules, n \in at
               PROVE HasEntry(Set(entries[n], id, on), s) <=> HasEntry(entries[n], s)
    BY <1>5
  <2>1. \A e \in entries[n] : [e EXCEPT !.on = on].origin = e.origin
    BY DEF TypeOK, Entries
  <2> QED BY <2>1 DEF HasEntry, Set
<1> HIDE DEF id, at, on
<1>8. RequestsFit' /\ UnusedIsNowhere'
  BY <1>2, <1>4, <1>7, ReqFields DEF RequestsFit, UnusedIsNowhere
<1>9. EntryHasRow' /\ EntryIsResolved' /\ EntryIsActive'
  BY <1>3, <1>4, <1>7 DEF EntryHasRow, EntryIsResolved, EntryIsActive, Live, Lapsed
<1>10. ActiveHasEntry'
  BY <1>1, <1>2, <1>3, <1>7 DEF ActiveHasEntry, Lapsed
<1>11. EntriesAreSet'
  <2> SUFFICES ASSUME NEW n \in Nodes, NEW s \in Schedules, NEW e \in entries'[n], Live(s)', e.origin = s,
                      ~Lapsed({"patch", "resolve", "list", "change", "foreign", "note", "refresh"})'
               PROVE e.on = sched'[s].on
    BY DEF EntriesAreSet
  <2>1. /\ at = ActiveAt(id) /\ Live(s)
        /\ ~Lapsed({"patch", "resolve", "list", "change", "foreign", "note", "refresh"})
    BY <1>3, <1>4 DEF Lapsed, Live
  <2>2. CASE n \in at
    <3>1. PICK f \in entries[n] : e = IF f.origin = id THEN [f EXCEPT !.on = on] ELSE f
      BY <1>5, <2>2 DEF Set
    <3>2. f \in Entries
      BY DEF TypeOK
    <3>3. CASE f.origin = id
      <4>1. e.on = on /\ s = id
        BY <3>1, <3>2, <3>3 DEF Entries
      <4>2. sched'[s].on = on
        BY <1>4, <2>1, <4>1
      <4> QED BY <4>1, <4>2
    <3>4. CASE f.origin # id
      BY <1>4, <2>1, <3>1, <3>4 DEF EntriesAreSet
    <3> QED BY <3>3, <3>4
  <2>3. CASE n \notin at
    <3>1. e \in entries[n] /\ HasEntry(entries[n], s)
      BY <1>5, <2>3 DEF HasEntry
    <3>2. rows[s][n] = "active"
      BY <2>1, <3>1 DEF EntryIsActive, Lapsed
    <3>3. s # id
      BY <2>1, <2>3, <3>2 DEF ActiveAt
    <3> QED BY <1>4, <2>1, <3>1, <3>3 DEF EntriesAreSet
  <2> QED BY <2>2, <2>3
<1> QED BY <1>6, <1>8, <1>9, <1>10, <1>11

\* delete_schedule takes the entries from the nodes that had a row when it read.
LEMMA DeleteInv ==
    ASSUME SInv, NEW r \in Requests, DeleteCommit(r) PROVE SInv'
<1> USE DEF SInv
<1> DEFINE id == reqs[r].id
           at == reqs[r].at
<1>1. reqs[r].kind = "delete" /\ id \in Schedules /\ at \subseteq Nodes
  BY ReqFields DEF DeleteCommit
<1>2. /\ reqs' \in [Requests -> Req]
      /\ reqs'[r].kind = "idle" /\ \A q \in Requests \ {r} : reqs'[q] = reqs[q]
  BY EndedRequest DEF DeleteCommit
<1>3. /\ UNCHANGED match /\ lapses \subseteq lapses'
      /\ at = RowsAt(id) \/ "delete" \in lapses'
  BY DEF DeleteCommit, Noting
<1>4. \A s \in Schedules :
          /\ s # id => sched'[s] = sched[s]
          /\ s = id => sched'[s].state = "deleted"
  BY DEF DeleteCommit, TypeOK, Deleted
<1>5. \A s \in Schedules : \A n \in Nodes : rows'[s][n] = IF s = id THEN "none" ELSE rows[s][n]
  BY DEF DeleteCommit, TypeOK
<1>6. \A n \in Nodes : entries'[n] = IF n \in at THEN Less(entries[n], id) ELSE entries[n]
  BY DEF DeleteCommit
<1>7. TypeOK'
  <2>1. sched' \in [Schedules -> Sched]
    BY <1>1 DEF TypeOK, DeleteCommit, Sched, Deleted
  <2>2. rows' \in [Schedules -> [Nodes -> States]]
    BY <1>1 DEF TypeOK, DeleteCommit, States
  <2>3. entries' \in [Nodes -> SUBSET Entries]
    BY DEF TypeOK, DeleteCommit, Less
  <2> QED BY <1>2, <1>3, <2>1, <2>2, <2>3 DEF TypeOK
<1>8. \A n \in Nodes, s \in Schedules :
          HasEntry(entries'[n], s) <=> HasEntry(entries[n], s) /\ (s # id \/ n \notin at)
  BY <1>6 DEF HasEntry, Less
<1> HIDE DEF id, at
<1>9. RequestsFit' /\ UnusedIsNowhere'
  <2>1. \A s \in Schedules : sched'[s].state = "unused" <=> (sched[s].state = "unused" /\ s # id)
    BY <1>4
  <2>2. sched[id].state # "unused"
    BY <1>1 DEF RequestsFit, id
  <2> QED BY <1>2, <1>8, <2>1, <2>2, ReqFields DEF RequestsFit, UnusedIsNowhere
<1>10. EntryHasRow'
  BY <1>1, <1>3, <1>4, <1>5, <1>8 DEF EntryHasRow, Live, Lapsed, RowsAt
<1>11. EntryIsResolved' /\ EntryIsActive'
  BY <1>3, <1>4, <1>5, <1>8 DEF EntryIsResolved, EntryIsActive, Live, Lapsed
<1>12. EntriesAreSet'
  BY <1>3, <1>4, <1>6 DEF EntriesAreSet, Live, Lapsed, Less
<1>13. ActiveHasEntry'
  BY <1>1, <1>2, <1>3, <1>5, <1>8 DEF ActiveHasEntry, Lapsed
<1> QED BY <1>7, <1>9, <1>10, <1>11, <1>12, <1>13

\* re_resolve_schedule moves the schedule from the nodes that left to those that
\* came, as of the resolution that it read.
LEMMA ResolveInv ==
    ASSUME SInv, NEW r \in Requests, ResolveCommit(r), Live(reqs[r].id) \/ reqs[r].added = {}
    PROVE  SInv'
<1> USE DEF SInv
<1> DEFINE id == reqs[r].id
           at == reqs[r].at
           added == reqs[r].added
           gone == reqs[r].gone
           was == reqs[r].read
<1>1. /\ reqs[r].kind = "resolve" /\ id \in Schedules /\ at \subseteq Nodes
      /\ added \subseteq Nodes /\ gone \subseteq Nodes /\ was \in Sched
      /\ added = at \ was.at /\ gone = was.at \ at
      /\ Live(id) \/ added = {}
  BY ReqFields DEF ResolveCommit, RequestsFit
<1>2. /\ reqs' \in [Requests -> Req]
      /\ reqs'[r].kind = "idle" /\ \A q \in Requests \ {r} : reqs'[q] = reqs[q]
  BY EndedRequest DEF ResolveCommit
<1>3. /\ UNCHANGED match /\ lapses \subseteq lapses'
      /\ was = sched[id] \/ "resolve" \in lapses'
  BY DEF ResolveCommit, Noting
<1>4. /\ sched' = IF Live(id) THEN [sched EXCEPT ![id].at = at] ELSE sched
      /\ rows' = [rows EXCEPT ![id] = [n \in Nodes |->
                     CASE n \in gone -> "none" [] n \in added -> StateOf(n) [] OTHER -> rows[id][n]]]
      /\ entries' = [n \in Nodes |->
                        CASE n \in gone -> Less(entries[n], id)
                          [] n \in added -> Added(n, id, was.on)
                          [] OTHER -> entries[n]]
  BY DEF ResolveCommit, TypeOK
<1> HIDE DEF id, at, added, gone, was
<1>5. \A s \in Schedules :
          /\ sched'[s].state = sched[s].state /\ sched'[s].on = sched[s].on
          /\ sched'[s].at = IF s = id /\ Live(id) THEN at ELSE sched[s].at
  BY <1>1, <1>4 DEF TypeOK, Sched
<1>6. \A s \in Schedules : \A n \in Nodes :
          rows'[s][n] = IF s # id THEN rows[s][n]
                        ELSE IF n \in gone THEN "none"
                        ELSE IF n \notin added THEN rows[s][n]
                        ELSE IF entries[n] = {} THEN "active" ELSE "skipped"
  BY <1>1, <1>4 DEF TypeOK, StateOf
<1>7. \A n \in Nodes :
          entries'[n] = IF n \in gone THEN {e \in entries[n] : e.origin # id}
                        ELSE IF n \in added /\ entries[n] = {} THEN {[origin |-> id, on |-> was.on]}
                        ELSE entries[n]
  BY <1>1, <1>4 DEF Less, Added, Entry
<1>8. TypeOK'
  <2>1. sched' \in [Schedules -> Sched]
    BY <1>1, <1>4 DEF TypeOK, Sched
  <2>2. rows' \in [Schedules -> [Nodes -> States]]
    <3>1. \A n \in Nodes : (CASE n \in gone -> "none" [] n \in added -> StateOf(n) [] OTHER -> rows[id][n]) \in States
      BY <1>1 DEF TypeOK, StateOf, States
    <3> QED BY <1>1, <1>4, <3>1 DEF TypeOK
  <2>3. ASSUME NEW n \in Nodes PROVE entries'[n] \subseteq Entries
    <3>1. was.on \in BOOLEAN
      BY <1>1 DEF Sched
    <3>2. [origin |-> id, on |-> was.on] \in Entries
      BY <1>1, <3>1 DEF Entries
    <3>3. entries[n] \subseteq Entries
      BY DEF TypeOK
    <3> QED BY <1>7, <3>2, <3>3
  <2>4. entries' \in [Nodes -> SUBSET Entries]
    BY <1>4, <2>3
  <2> QED BY <1>2, <1>3, <2>1, <2>2, <2>4 DEF TypeOK
<1>9. \A n \in Nodes, s \in Schedules :
          HasEntry(entries'[n], s) <=>
              IF s # id THEN HasEntry(entries[n], s)
              ELSE n \notin gone /\ (HasEntry(entries[n], s) \/ (n \in added /\ entries[n] = {}))
  <2> SUFFICES ASSUME NEW n \in Nodes, NEW s \in Schedules
               PROVE HasEntry(entries'[n], s) <=>
                         IF s # id THEN HasEntry(entries[n], s)
                         ELSE n \notin gone /\ (HasEntry(entries[n], s) \/ (n \in added /\ entries[n] = {}))
    OBVIOUS
  <2>1. CASE n \in gone
    BY <1>7, <2>1 DEF HasEntry
  <2>2. CASE n \notin gone /\ n \in added /\ entries[n] = {}
    <3>1. entries'[n] = {[origin |-> id, on |-> was.on]}
      BY <1>7, <2>2
    <3> QED BY <2>2, <3>1 DEF HasEntry
  <2>3. CASE n \notin gone /\ ~(n \in added /\ entries[n] = {})
    BY <1>7, <2>3
  <2> QED BY <2>1, <2>2, <2>3
<1>10. RequestsFit' /\ UnusedIsNowhere'
  <2>1. sched[id].state # "unused"
    BY <1>1 DEF RequestsFit, id
  <2> QED BY <1>2, <1>5, <1>9, <2>1, ReqFields DEF RequestsFit, UnusedIsNowhere
<1>11. EntryHasRow'
  BY <1>1, <1>3, <1>5, <1>6, <1>9 DEF EntryHasRow, Live, Lapsed
<1>12. EntryIsResolved'
  BY <1>1, <1>3, <1>5, <1>9 DEF EntryIsResolved, Live, Lapsed
<1>13. EntryIsActive'
  <2> SUFFICES ASSUME NEW n \in Nodes, NEW s \in Schedules, Live(s)', HasEntry(entries'[n], s),
                      ~Lapsed({"resolve", "list", "foreign", "note", "refresh"})'
               PROVE rows'[s][n] = "active"
    BY DEF EntryIsActive
  <2>1. ~Lapsed({"resolve", "list", "foreign", "note", "refresh"}) /\ was = sched[id] /\ Live(s)
    BY <1>3, <1>5 DEF Lapsed, Live
  <2>2. CASE HasEntry(entries[n], s)
    <3>1. n \in sched[s].at /\ rows[s][n] = "active"
      BY <2>1, <2>2 DEF EntryIsResolved, EntryIsActive, Lapsed
    <3> QED BY <1>1, <1>6, <1>9, <2>1, <3>1
  <2>3. CASE ~HasEntry(entries[n], s)
    BY <1>6, <1>9, <2>3
  <2> QED BY <2>2, <2>3
<1>14. EntriesAreSet'
  <2> SUFFICES ASSUME NEW n \in Nodes, NEW s \in Schedules, NEW e \in entries'[n], Live(s)', e.origin = s,
                      ~Lapsed({"patch", "resolve", "list", "change", "foreign", "note", "refresh"})'
               PROVE e.on = sched'[s].on
    BY DEF EntriesAreSet
  <2>1. ~Lapsed({"patch", "resolve", "list", "change", "foreign", "note", "refresh"}) /\ was = sched[id] /\ Live(s)
    BY <1>3, <1>5 DEF Lapsed, Live
  <2>2. CASE e \in entries[n]
    BY <1>5, <2>1, <2>2 DEF EntriesAreSet
  <2>3. CASE e \notin entries[n]
    <3>1. e = [origin |-> id, on |-> was.on]
      BY <1>7, <2>3
    <3>2. e.on = was.on /\ s = id
      BY <3>1
    <3>3. sched'[s].on = sched[id].on
      BY <1>1, <1>5, <3>2
    <3> QED BY <2>1, <3>2, <3>3
  <2> QED BY <2>2, <2>3
<1>15. ActiveHasEntry'
  BY <1>1, <1>2, <1>3, <1>6, <1>9 DEF ActiveHasEntry, Lapsed
<1> QED BY <1>8, <1>10, <1>11, <1>12, <1>13, <1>14, <1>15

\* A request that ends without having written anything.
LEMMA EndKeeps ==
    ASSUME SInv, NEW r \in Requests, Finish(r), UNCHANGED <<schedVars, match>>,
           lapses \subseteq lapses', reqs[r].kind \notin {"note", "mark"}
    PROVE  SInv'
<1> USE DEF SInv, schedVars
<1>1. /\ reqs' \in [Requests -> Req]
      /\ reqs'[r].kind = "idle" /\ \A q \in Requests \ {r} : reqs'[q] = reqs[q]
  BY EndedRequest
<1>2. TypeOK' /\ RequestsFit' /\ UnusedIsNowhere'
  BY <1>1 DEF TypeOK, RequestsFit, UnusedIsNowhere
<1>3. EntryHasRow' /\ EntryIsResolved' /\ EntryIsActive' /\ EntriesAreSet'
  BY DEF EntryHasRow, EntryIsResolved, EntryIsActive, EntriesAreSet, Live, Lapsed
<1>4. ActiveHasEntry'
  BY <1>1 DEF ActiveHasEntry, Lapsed
<1> QED BY <1>2, <1>3, <1>4

\* Rows lose their entries' states only to "removed", and only what has lost its
\* entry does, or else a lapse is noted.
LEMMA RemovedKeeps ==
    ASSUME SInv, NEW r \in Requests, NEW state \in Req, reqs' = [reqs EXCEPT ![r] = state],
           state.kind \in {"idle", "refresh"}, reqs[r].kind \in {"refresh", "mark"},
           UNCHANGED <<sched, entries, match>>, lapses \subseteq lapses',
           rows' \in [Schedules -> [Nodes -> States]],
           \A s \in Schedules, n \in Nodes :
               /\ rows'[s][n] # rows[s][n] => rows'[s][n] = "removed" /\ rows[s][n] # "none"
               /\ rows'[s][n] # rows[s][n] /\ HasEntry(entries[n], s) => Lapsed({"note", "refresh"})'
               /\ reqs[r].kind = "mark" /\ n = reqs[r].node /\ s \in reqs[r].ids => rows'[s][n] # "active"
    PROVE  SInv'
<1> USE DEF SInv
<1>1. reqs'[r] = state /\ \A q \in Requests \ {r} : reqs'[q] = reqs[q]
  BY DEF TypeOK
<1>2. TypeOK' /\ RequestsFit' /\ UnusedIsNowhere'
  BY <1>1 DEF TypeOK, RequestsFit, UnusedIsNowhere
<1>3. EntryHasRow' /\ EntryIsResolved' /\ EntryIsActive' /\ EntriesAreSet'
  BY DEF EntryHasRow, EntryIsResolved, EntryIsActive, EntriesAreSet, Live, Lapsed
<1>4. ActiveHasEntry'
  BY <1>1 DEF ActiveHasEntry, Lapsed
<1> QED BY <1>2, <1>3, <1>4

\* A resolve whose new rows have no schedule any more fails as a whole.
LEMMA ResolvesKeep ==
    ASSUME SInv, NEW r \in Requests, ResolveCommit(r) PROVE SInv'
<1>1. CASE Live(reqs[r].id) \/ reqs[r].added = {}
  BY <1>1, ResolveInv
<1>2. CASE ~(Live(reqs[r].id) \/ reqs[r].added = {})
  BY <1>2, EndKeeps DEF ResolveCommit, Noting
<1> QED BY <1>1, <1>2

\* get_schedule marks the active rows whose list had lost the entry.
LEMMA RefreshInv ==
    ASSUME SInv, NEW r \in Requests, RefreshMark(r) PROVE SInv'
<1> DEFINE q == reqs[r]
           state == IF q.at = {} THEN Idle ELSE [q EXCEPT !.lost = {}]
<1>0. TypeOK
  BY DEF SInv
<1>1. q.kind = "refresh" /\ q \in Req /\ q.id \in Schedules /\ q.lost \subseteq Nodes
  BY <1>0, ReqFields DEF RefreshMark, TypeOK
<1>2. state \in Req /\ state.kind \in {"idle", "refresh"}
  BY <1>1 DEF Req, Idle
<1>3. /\ reqs' = [reqs EXCEPT ![r] = state] /\ UNCHANGED <<sched, entries, match>> /\ lapses \subseteq lapses'
      /\ (\E n \in q.lost : HasEntry(entries[n], q.id)) => "refresh" \in lapses'
  BY DEF RefreshMark, Step, Noting
<1>4. \A s \in Schedules, n \in Nodes :
          rows'[s][n] = IF s = q.id /\ n \in q.lost /\ rows[s][n] = "active" THEN "removed" ELSE rows[s][n]
  BY <1>0 DEF RefreshMark, TypeOK
<1>5. rows' \in [Schedules -> [Nodes -> States]]
  BY <1>0, <1>1 DEF RefreshMark, TypeOK, States
<1>6. \A s \in Schedules, n \in Nodes :
          /\ rows'[s][n] # rows[s][n] => rows'[s][n] = "removed" /\ rows[s][n] # "none"
          /\ rows'[s][n] # rows[s][n] /\ HasEntry(entries[n], s) => Lapsed({"note", "refresh"})'
          /\ reqs[r].kind = "mark" /\ n = reqs[r].node /\ s \in reqs[r].ids => rows'[s][n] # "active"
  BY <1>1, <1>3, <1>4 DEF Lapsed
<1>7. reqs[r].kind \in {"refresh", "mark"}
  BY <1>1
<1> HIDE DEF q, state
<1> QED BY <1>2, <1>3, <1>5, <1>6, <1>7, RemovedKeeps

\* note_node_schedule_edit marks what it found missing.
LEMMA NoteInv ==
    ASSUME SInv, NEW r \in Requests, NoteMark(r) PROVE SInv'
<1> DEFINE q == reqs[r]
<1>0. TypeOK
  BY DEF SInv
<1>1. q.kind = "mark" /\ q.node \in Nodes /\ q.ids \subseteq Schedules
  BY <1>0, ReqFields DEF NoteMark
<1>2. Idle \in Req /\ Idle.kind = "idle"
  BY DEF Req, Idle
<1>3. /\ reqs' = [reqs EXCEPT ![r] = Idle] /\ UNCHANGED <<sched, entries, match>> /\ lapses \subseteq lapses'
      /\ (\E s \in q.ids : HasEntry(entries[q.node], s)) => "note" \in lapses'
  BY DEF NoteMark, Finish, Step, Noting
<1>4. \A s \in Schedules, n \in Nodes :
          rows'[s][n] = IF n = q.node /\ s \in q.ids /\ rows[s][n] # "none" THEN "removed" ELSE rows[s][n]
  BY <1>0 DEF NoteMark, TypeOK
<1>5. rows' \in [Schedules -> [Nodes -> States]]
  BY <1>0, <1>1 DEF NoteMark, TypeOK, States
<1>6. \A s \in Schedules, n \in Nodes :
          /\ rows'[s][n] # rows[s][n] => rows'[s][n] = "removed" /\ rows[s][n] # "none"
          /\ rows'[s][n] # rows[s][n] /\ HasEntry(entries[n], s) => Lapsed({"note", "refresh"})'
          /\ reqs[r].kind = "mark" /\ n = reqs[r].node /\ s \in reqs[r].ids => rows'[s][n] # "active"
  BY <1>3, <1>4 DEF Lapsed
<1>7. reqs[r].kind \in {"refresh", "mark"}
  BY <1>1
<1>8. Idle.kind \in {"idle", "refresh"}
  BY <1>2
<1> HIDE DEF q
<1> QED BY <1>2, <1>3, <1>5, <1>6, <1>7, <1>8, RemovedKeeps

\* What a note is about to mark is every active row that the list it was called
\* with has no entry for.
LEMMA NoteReadInv ==
    ASSUME SInv, NEW r \in Requests, NoteRead(r) PROVE SInv'
<1> USE DEF SInv
<1> DEFINE q == reqs[r]
           ids == {s \in Schedules : rows[s][q.node] = "active" /\ ~HasEntry(q.read, s)}
           state == [kind |-> "mark", node |-> q.node, ids |-> ids]
<1>1. q.kind = "note" /\ q.node \in Nodes
  BY ReqFields DEF NoteRead
<1>2. state \in Req /\ state.kind = "mark"
  BY <1>1 DEF Req
<1>3. reqs' = [reqs EXCEPT ![r] = state] /\ UNCHANGED <<schedVars, match, lapses>>
  BY DEF NoteRead, Step
<1>4. reqs'[r] = state /\ \A p \in Requests \ {r} : reqs'[p] = reqs[p]
  BY <1>3 DEF TypeOK
<1>5. UNCHANGED <<sched, rows, entries, match, lapses>>
  BY <1>3 DEF schedVars
<1>6. TypeOK'
  BY <1>2, <1>3, <1>5 DEF TypeOK
<1>7. RequestsFit' /\ UnusedIsNowhere'
  BY <1>4, <1>5 DEF RequestsFit, UnusedIsNowhere
<1>8. EntryHasRow' /\ EntryIsResolved' /\ EntryIsActive' /\ EntriesAreSet'
  BY <1>5 DEF EntryHasRow, EntryIsResolved, EntryIsActive, EntriesAreSet, Live, Lapsed
<1>9. ActiveHasEntry'
  BY <1>1, <1>4, <1>5 DEF ActiveHasEntry, Lapsed
<1> QED BY <1>6, <1>7, <1>8, <1>9

\* Another list takes the place of one, written or read before.
LEMMA ListKeeps ==
    ASSUME SInv, NEW r \in Requests, NEW state \in Req, NEW list \in SUBSET Entries,
           reqs' = [reqs EXCEPT ![r] = state], UNCHANGED <<sched, rows, match>>,
           reqs[r].kind \in {"edit", "config"},
           \A s \in Schedules : sched[s].state = "unused" => ~HasEntry(list, s),
           entries' = [entries EXCEPT ![reqs[r].node] = list],
           lapses \subseteq lapses', Departs(reqs[r], list) \subseteq lapses',
           \/ state.kind = "idle" /\ (Lapsed({"silent", "list"})' \/ list = reqs[r].read)
           \/ state.kind = "note" /\ state.node = reqs[r].node /\ state.read = list
    PROVE  SInv'
<1> USE DEF SInv
<1> DEFINE m == reqs[r].node
           was == reqs[r].read
<1>1. m \in Nodes /\ was \subseteq Entries /\ reqs[r].kind \in {"edit", "config"}
  BY ReqFields
<1>2. reqs'[r] = state /\ \A q \in Requests \ {r} : reqs'[q] = reqs[q]
  BY DEF TypeOK
<1>3. entries'[m] = list /\ \A n \in Nodes \ {m} : entries'[n] = entries[n]
  BY <1>1 DEF TypeOK
<1>4. /\ was # entries[m] => "list" \in lapses'
      /\ \A s \in Schedules : \A e \in list :
             e.origin = s /\ e \notin was =>
                 IF HasEntry(was, s) THEN "change" \in lapses' ELSE "foreign" \in lapses'
  <2>1. ASSUME NEW s \in Schedules, NEW e \in list, e.origin = s, e \notin was
        PROVE  IF HasEntry(was, s) THEN "change" \in lapses' ELSE "foreign" \in lapses'
    <3>1. e.origin # Own
      BY <2>1, SchedulesAssumption
    <3>2. e \in {f \in list \ was : f.origin # Own}
      BY <2>1, <3>1
    <3> QED BY <2>1, <3>2 DEF Departs
  <2>2. was # entries[m] => "list" \in lapses'
    BY DEF Departs
  <2> QED BY <2>1, <2>2
<1> HIDE DEF m, was
<1>5. TypeOK'
  <2>1. entries' \in [Nodes -> SUBSET Entries]
    BY <1>1 DEF TypeOK, m
  <2>2. reqs' \in [Requests -> Req]
    BY DEF TypeOK
  <2> QED BY <2>1, <2>2 DEF TypeOK
<1>6. RequestsFit'
  BY <1>2 DEF RequestsFit
<1>7. UnusedIsNowhere'
  BY <1>2, <1>3 DEF UnusedIsNowhere
<1>8. \A n \in Nodes, s \in Schedules : \A e \in entries'[n] :
          e.origin = s => e \in entries[n] \/ Lapsed({"list", "change", "foreign"})'
  BY <1>3, <1>4 DEF Lapsed
<1>9. \A n \in Nodes, s \in Schedules :
          HasEntry(entries'[n], s) => HasEntry(entries[n], s) \/ Lapsed({"list", "foreign"})'
  <2> SUFFICES ASSUME NEW n \in Nodes, NEW s \in Schedules, NEW e \in entries'[n], e.origin = s
               PROVE  HasEntry(entries[n], s) \/ Lapsed({"list", "foreign"})'
    BY DEF HasEntry
  <2>1. CASE n = m
    <3>1. e \in list
      BY <1>3, <2>1
    <3>2. HasEntry(was, s) \/ "foreign" \in lapses'
      BY <1>4, <3>1 DEF HasEntry
    <3>3. was = entries[m] \/ "list" \in lapses'
      BY <1>4
    <3> QED BY <2>1, <3>2, <3>3 DEF Lapsed
  <2>2. CASE n # m
    BY <1>3, <2>2 DEF HasEntry
  <2> QED BY <2>1, <2>2
<1>10. EntryHasRow' /\ EntryIsResolved' /\ EntryIsActive'
  BY <1>9 DEF EntryHasRow, EntryIsResolved, EntryIsActive, Live, Lapsed
<1>11. EntriesAreSet'
  BY <1>8 DEF EntriesAreSet, Live, Lapsed
<1>12. ActiveHasEntry'
  <2> SUFFICES ASSUME NEW n \in Nodes, NEW s \in Schedules, rows[s][n] = "active",
                      ~HasEntry(entries'[n], s), ~Lapsed({"silent", "list"})'
               PROVE \E q \in Requests :
                         \/ reqs'[q].kind = "note" /\ reqs'[q].node = n /\ ~HasEntry(reqs'[q].read, s)
                         \/ reqs'[q].kind = "mark" /\ reqs'[q].node = n /\ s \in reqs'[q].ids
    BY DEF ActiveHasEntry
  <2>1. ~Lapsed({"silent", "list"}) /\ was = entries[m]
    BY <1>4 DEF Lapsed
  <2>2. CASE n = m /\ state.kind = "note"
    BY <1>2, <1>3, <2>2 DEF m
  <2>3. CASE ~(n = m /\ state.kind = "note")
    <3>1. ~HasEntry(entries[n], s)
      BY <1>3, <2>1, <2>3 DEF was
    <3>2. PICK q \in Requests :
              \/ reqs[q].kind = "note" /\ reqs[q].node = n /\ ~HasEntry(reqs[q].read, s)
              \/ reqs[q].kind = "mark" /\ reqs[q].node = n /\ s \in reqs[q].ids
      BY <2>1, <3>1 DEF ActiveHasEntry
    <3>3. q # r
      BY <1>1, <3>2
    <3> QED BY <1>2, <3>2, <3>3
  <2> QED BY <2>2, <2>3
<1> QED BY <1>5, <1>6, <1>7, <1>10, <1>11, <1>12

LEMMA ListsFit ==
    ASSUME NEW list \in Lists
    PROVE  list \in SUBSET Entries /\ \A s \in Schedules : sched[s].state = "unused" => ~HasEntry(list, s)
<1>1. ASSUME NEW e \in list
      PROVE  e \in Entries /\ e.origin \in Known \cup {Own}
  <2>1. e \in Writable
    BY DEF Lists
  <2>2. CASE e = Entry(Own, TRUE)
    BY <2>2 DEF Entry, Entries
  <2>3. CASE e # Entry(Own, TRUE)
    <3>1. PICK s \in Known, on \in BOOLEAN : e = [origin |-> s, on |-> on]
      BY <2>1, <2>3 DEF Writable, Entry
    <3> QED BY <3>1 DEF Entries, Known
  <2> QED BY <2>2, <2>3
<1>2. \A s \in Schedules : sched[s].state = "unused" => s \notin Known \cup {Own}
  BY SchedulesAssumption DEF Known
<1> QED BY <1>1, <1>2 DEF HasEntry

\* put_schedules, put_config with a list and put_config without one.
LEMMA ListsKeep ==
    ASSUME SInv, NEW r \in Requests,
           \/ reqs[r].kind = "edit" /\ \E list \in Edited(reqs[r].read) :
                  PutSchedules(r, list) \/ PutConfig(r, list)
           \/ ConfigWrite(r)
    PROVE  SInv'
<1>0. TypeOK
  BY DEF SInv
<1>1. reqs[r].kind \in {"edit", "config"} /\ reqs[r].node \in Nodes /\ reqs[r].read \subseteq Entries
  BY <1>0, ReqFields DEF ConfigWrite
<1>2. Idle \in Req /\ Idle.kind = "idle"
  BY DEF Req, Idle
<1>3. ASSUME NEW list \in Lists, PutSchedules(r, list) PROVE SInv'
  <2> DEFINE state == [kind |-> "note", node |-> reqs[r].node, read |-> list]
  <2>1. list \in SUBSET Entries /\ \A s \in Schedules : sched[s].state = "unused" => ~HasEntry(list, s)
    BY ListsFit
  <2>2. state \in Req /\ state.kind = "note" /\ state.node = reqs[r].node /\ state.read = list
    BY <1>1, <2>1 DEF Req
  <2>3. /\ reqs' = [reqs EXCEPT ![r] = state] /\ UNCHANGED <<sched, rows, match>>
        /\ entries' = [entries EXCEPT ![reqs[r].node] = list] /\ lapses \subseteq lapses'
        /\ Departs(reqs[r], list) \subseteq lapses'
    BY <1>3 DEF PutSchedules, Step
  <2> HIDE DEF state
  <2> QED BY <1>1, <2>1, <2>2, <2>3, ListKeeps
<1>4. ASSUME NEW list \in Lists, PutConfig(r, list) PROVE SInv'
  <2>1. list \in SUBSET Entries /\ \A s \in Schedules : sched[s].state = "unused" => ~HasEntry(list, s)
    BY ListsFit
  <2>2. /\ reqs' = [reqs EXCEPT ![r] = Idle] /\ UNCHANGED <<sched, rows, match>>
        /\ entries' = [entries EXCEPT ![reqs[r].node] = list] /\ lapses \subseteq lapses'
        /\ Departs(reqs[r], list) \subseteq lapses' /\ "silent" \in lapses'
    BY <1>4 DEF PutConfig, Finish, Step
  <2>3. Lapsed({"silent", "list"})'
    BY <2>2 DEF Lapsed
  <2> QED BY <1>1, <1>2, <2>1, <2>2, <2>3, ListKeeps
<1>5. ASSUME ConfigWrite(r) PROVE SInv'
  <2>1. /\ reqs' = [reqs EXCEPT ![r] = Idle] /\ UNCHANGED <<sched, rows, match>>
        /\ entries' = [entries EXCEPT ![reqs[r].node] = reqs[r].read] /\ lapses \subseteq lapses'
        /\ reqs[r].read # entries[reqs[r].node] => "list" \in lapses'
    BY <1>5 DEF ConfigWrite, Finish, Step, Noting
  <2>2. Departs(reqs[r], reqs[r].read) \subseteq lapses'
    BY <2>1 DEF Departs
  <2>3. \A s \in Schedules : sched[s].state = "unused" => ~HasEntry(reqs[r].read, s)
    BY <1>1 DEF SInv, UnusedIsNowhere
  <2> QED BY <1>1, <1>2, <2>1, <2>2, <2>3, ListKeeps
<1> QED BY <1>3, <1>4, <1>5 DEF Edited

LEMMA NextS == SInv /\ [Next]_vars => SInv'
<1> SUFFICES ASSUME SInv, [Next]_vars PROVE SInv'
  OBVIOUS
<1>1. ASSUME UNCHANGED <<schedVars, reqs, lapses>>, match' \subseteq Nodes PROVE SInv'
  BY <1>1 DEF SInv, schedVars, TypeOK, RequestsFit, UnusedIsNowhere, EntryHasRow, EntryIsResolved,
      EntryIsActive, ActiveHasEntry, EntriesAreSet, Live, Lapsed
<1>2. CASE UNCHANGED vars
  BY <1>1, <1>2 DEF vars, schedVars, SInv, TypeOK
<1>3. ASSUME NEW n \in Nodes, Retag(n) PROVE SInv'
  BY <1>1, <1>3 DEF Retag, SInv, TypeOK
<1>4. ASSUME NEW r \in Requests, CreateCommit(r) \/ PatchCommit(r) \/ DeleteCommit(r) \/ ResolveCommit(r)
      PROVE SInv'
  BY <1>4, CreateInv, PatchInv, DeleteInv, ResolvesKeep
<1>5. ASSUME NEW r \in Requests, RefreshMark(r) \/ NoteRead(r) \/ NoteMark(r)
      PROVE SInv'
  BY <1>5, RefreshInv, NoteReadInv, NoteInv
<1>6. ASSUME NEW r \in Requests,
             \/ \E s \in Schedules :
                    \/ DeleteRead(r, s) \/ ResolveRead(r, s) \/ RefreshRead(r, s)
                    \/ \E on \in BOOLEAN : CreateRead(r, s, on) \/ PatchRead(r, s, on)
             \/ \E n \in Nodes : RefreshLook(r, n) \/ EditRead(r, n) \/ ConfigRead(r, n)
      PROVE SInv'
  BY <1>6, ReadsKeep
<1>7. ASSUME NEW r \in Requests,
             \/ reqs[r].kind = "edit" /\ \E list \in Edited(reqs[r].read) :
                    PutSchedules(r, list) \/ PutConfig(r, list)
             \/ ConfigWrite(r)
      PROVE SInv'
  BY <1>7, ListsKeep
<1> QED BY <1>2, <1>3, <1>4, <1>5, <1>6, <1>7 DEF Next

LEMMA InvS == Spec => []SInv
BY InitS, NextS, PTL DEF Spec

\* No node runs a schedule that was deleted, unless a delete did not see a node, or
\* somebody put back an old list or wrote an entry of a schedule by hand.
THEOREM EntriesHaveSchedule == Spec => []EntryHasSchedule
<1>1. SInv => EntryHasSchedule
  BY DEF SInv, EntryHasRow, EntryHasSchedule, Lapsed
<1> QED BY <1>1, InvS, PTL

\* The states of the nodes agree with their lists, but for the lapses named.
THEOREM StatesFollowLists == Spec => []StatesAgree
<1>1. SInv => StatesAgree
  BY DEF SInv, EntryIsActive, ActiveHasEntry, StatesAgree, Lapsed
<1> QED BY <1>1, InvS, PTL

\* Every entry of a live schedule has its setting, but for the lapses named.
THEOREM EntriesFollowSchedule == Spec => []SettingsReachNodes
<1>1. SInv => SettingsReachNodes
  <2> SUFFICES ASSUME SInv, NEW n \in Nodes, NEW s \in Schedules, Live(s), HasEntry(entries[n], s),
                      ~Lapsed({"patch", "resolve", "list", "change", "foreign", "note", "refresh"})
               PROVE Entry(s, sched[s].on) \in entries[n]
    BY DEF SettingsReachNodes, Lapsed
  <2>1. PICK e \in entries[n] : e.origin = s
    BY DEF HasEntry
  <2>2. e.on = sched[s].on
    BY <2>1 DEF SInv, EntriesAreSet
  <2>3. e \in Entries
    BY DEF SInv, TypeOK
  <2>4. e = [origin |-> s, on |-> sched[s].on]
    BY <2>1, <2>2, <2>3 DEF Entries
  <2> QED BY <2>4 DEF Entry
<1> QED BY <1>1, InvS, PTL

=============================================================================
