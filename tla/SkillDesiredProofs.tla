--------------------------- MODULE SkillDesiredProofs ---------------------------
(***************************************************************************)
(* The audit chain forks only around a writer that reads before it locks,  *)
(* a denial is recorded once, and generations count changes, for any       *)
(* nodes, skills, versions and transactions.                               *)
(***************************************************************************)
EXTENDS SkillDesired, FiniteSetTheorems, SequenceTheorems, TLAPS

VersOrNone == Versions \cup {None}

Unlocked == {"change", "tag"}

Events == [kind : Unlocked \cup {"report", "denial"}, prev : Nat, run : DeniedRuns \cup {None}]

IsChange(q) ==
    /\ q.kind = "change" /\ q.skill \in Skills /\ DOMAIN q.plan \subseteq Nodes
    /\ \A n \in DOMAIN q.plan : q.plan[n].gen \in Nat /\ q.plan[n].ver \in VersOrNone

\* What transactions of each kind may be about to write.
Fits(o, q) ==
    \/ q = Idle
    \/ o \in HttpOps /\ IsChange(q)
    \/ o \in NodeOps /\ q.kind = "report" /\ q.node \in Nodes
    \/ o \in NodeOps /\ q.kind = "denial" /\ q.run \in DeniedRuns
    \/ o \in TagOps /\ q.kind = "tag"

TypeOK ==
    /\ gens \in [Nodes -> Nat]
    /\ desired \in [Nodes -> [Skills -> VersOrNone]]
    /\ chain \in Seq(Events)
    /\ lock \in Ops \cup {NoOp}
    /\ st \in [Ops -> {"idle", "lock", "read", "commit", "done"}]
    /\ \A o \in Ops : st[o] = "read" => o \in NodeOps
    /\ DOMAIN req = Ops /\ \A o \in Ops : Fits(o, req[o])
    /\ DOMAIN view = Ops /\ \A o \in Ops : view[o].at \in 0..Len(chain)

\* A session task holds the chain from before it reads until it ends.
LockHeld == \A o \in NodeOps : st[o] \in {"read", "commit"} => lock = o

\* What was appended since a session task has read was appended without the lock,
\* or planned before it.
ReadsLast ==
    \A o \in NodeOps : st[o] = "commit" =>
        \A j \in (view[o].at + 1)..Len(chain) : chain[j].kind \in Unlocked

\* A plan that is not outdated changes what is desired.
PlansFit ==
    \A o \in HttpOps : req[o].kind = "change" =>
        \A n \in DOMAIN req[o].plan \ stale :
            /\ req[o].plan[n].gen <= gens[n] + 1
            /\ req[o].plan[n].gen = gens[n] + 1 => req[o].plan[n].ver # desired[n][req[o].skill]

DInv == TypeOK /\ LockHeld /\ ReadsLast /\ PlansFit /\ ForkHasCause /\ OneDenialPerRun

LEMMA InitD == Init => DInv
<1> SUFFICES ASSUME Init PROVE DInv
  OBVIOUS
<1>1. chain = <<>> /\ Len(chain) = 0 /\ chain \in Seq(Events)
  BY DEF Init
<1>2. \A o \in Ops : st[o] = "idle" /\ req[o] = Idle /\ view[o].at = 0
  BY DEF Init, Unread
<1>3. TypeOK
  BY <1>1, <1>2 DEF Init, TypeOK, Fits, VersOrNone
<1> QED
  BY <1>1, <1>2, <1>3
     DEF DInv, LockHeld, ReadsLast, PlansFit, ForkHasCause, OneDenialPerRun, Ops, Idle

\* The chain only grows, and what is new is unlocked or comes from who holds the lock.
Grows(o) ==
    /\ chain' \in Seq(Events) /\ Len(chain) <= Len(chain')
    /\ \A i \in 1..Len(chain) : chain'[i] = chain[i]
    /\ \/ o \in NodeOps /\ st[o] = "commit"
       \/ \A i \in (Len(chain) + 1)..Len(chain') : chain'[i].kind \in Unlocked

LEMMA UnchangedGrows == ASSUME TypeOK, UNCHANGED chain, NEW o \in Ops PROVE Grows(o)
BY DEF TypeOK, Grows

LEMMA AppendGrows ==
    ASSUME TypeOK, NEW o \in Ops, NEW e \in Events, chain' = Append(chain, e),
           (o \in NodeOps /\ st[o] = "commit") \/ e.kind \in Unlocked
    PROVE  Grows(o) /\ Len(chain') = Len(chain) + 1 /\ chain'[Len(chain) + 1] = e
<1>1. chain \in Seq(Events) /\ Len(chain) \in Nat
  BY DEF TypeOK
<1>2. /\ chain' \in Seq(Events) /\ Len(chain') = Len(chain) + 1 /\ chain'[Len(chain) + 1] = e
      /\ \A i \in 1..Len(chain) : chain'[i] = chain[i]
  BY <1>1, AppendProperties
<1>3. \A i \in (Len(chain) + 1)..Len(chain') : i = Len(chain) + 1
  BY <1>1, <1>2
<1> QED BY <1>1, <1>2, <1>3 DEF Grows

\* The end of a transaction leaves the others, the lock and what was read in order.
LEMMA EndD ==
    ASSUME TypeOK, LockHeld, ReadsLast, NEW o \in Ops, End(o), Grows(o),
           gens' \in [Nodes -> Nat], desired' \in [Nodes -> [Skills -> VersOrNone]]
    PROVE  /\ TypeOK' /\ LockHeld' /\ ReadsLast'
           /\ req'[o] = Idle /\ \A p \in Ops \ {o} : req'[p] = req[p]
<1>1. /\ st' \in [Ops -> {"idle", "lock", "read", "commit", "done"}]
      /\ st'[o] \in {"idle", "done"} /\ req'[o] = Idle /\ view'[o].at = 0
      /\ \A p \in Ops \ {o} : st'[p] = st[p] /\ req'[p] = req[p] /\ view'[p] = view[p]
      /\ DOMAIN req' = Ops /\ DOMAIN view' = Ops
  BY DEF TypeOK, End, Unread
<1>2. lock' = IF lock = o THEN NoOp ELSE lock
  BY DEF End
<1>3. Len(chain) \in Nat /\ Len(chain') \in Nat /\ Len(chain) <= Len(chain')
  BY DEF TypeOK, Grows
<1>4. TypeOK'
  <2>1. \A p \in Ops : Fits(p, req'[p])
    BY <1>1 DEF TypeOK, Fits
  <2>2. \A p \in Ops : view'[p].at \in 0..Len(chain')
    BY <1>1, <1>3 DEF TypeOK
  <2>3. \A p \in Ops : st'[p] = "read" => p \in NodeOps
    BY <1>1 DEF TypeOK
  <2> QED BY <1>1, <1>2, <2>1, <2>2, <2>3 DEF TypeOK, Grows
<1>5. LockHeld'
  BY <1>1, <1>2 DEF LockHeld, Ops
<1>6. ReadsLast'
  <2> SUFFICES ASSUME NEW p \in NodeOps, st'[p] = "commit", NEW j \in (view'[p].at + 1)..Len(chain')
               PROVE chain'[j].kind \in Unlocked
    BY DEF ReadsLast
  <2>1. p # o /\ p \in Ops /\ st[p] = "commit" /\ view'[p] = view[p] /\ lock = p
    BY <1>1 DEF Ops, LockHeld
  <2>2. view[p].at \in Nat /\ view[p].at <= Len(chain)
    BY <1>3, <2>1 DEF TypeOK
  <2>3. CASE j \in 1..Len(chain)
    <3>1. chain'[j] = chain[j] /\ j \in (view[p].at + 1)..Len(chain)
      BY <1>3, <2>1, <2>2, <2>3 DEF Grows
    <3> QED BY <2>1, <3>1 DEF ReadsLast
  <2>4. CASE j \in (Len(chain) + 1)..Len(chain')
    <3>1. ~(o \in NodeOps /\ st[o] = "commit")
      BY <2>1 DEF LockHeld
    <3> QED BY <2>4, <3>1 DEF Grows
  <2> QED BY <1>3, <2>1, <2>2, <2>3, <2>4
<1> QED BY <1>1, <1>4, <1>5, <1>6

\* Plans that are left are as good as before when generations and rows stay.
LEMMA PlansKeep ==
    ASSUME PlansFit, UNCHANGED <<gens, desired, stale>>,
           \A p \in HttpOps : req'[p] = req[p] \/ req'[p].kind # "change"
    PROVE  PlansFit'
BY DEF PlansFit

\* An old part of the chain keeps its forks explained and its denials single.
LEMMA ForksKeep ==
    ASSUME TypeOK, ForkHasCause, NEW o \in Ops, Grows(o),
           \A i \in (Len(chain) + 1)..Len(chain') :
               chain'[i].prev = i - 1 \/ \E j \in (chain'[i].prev + 1)..i : chain'[j].kind \in Unlocked
    PROVE  ForkHasCause'
<1> SUFFICES ASSUME NEW i \in 1..Len(chain'), chain'[i].prev # i - 1
             PROVE \E j \in (chain'[i].prev + 1)..i : chain'[j].kind \in Unlocked
  BY DEF ForkHasCause, Unlocked
<1>1. Len(chain) \in Nat /\ Len(chain') \in Nat
  BY DEF TypeOK, Grows
<1>2. CASE i \in 1..Len(chain)
  <2>1. chain'[i] = chain[i] /\ chain[i] \in Events
    BY <1>1, <1>2, ElementOfSeq DEF Grows, TypeOK
  <2>2. PICK j \in (chain[i].prev + 1)..i : chain[j].kind \in Unlocked
    BY <1>2, <2>1 DEF ForkHasCause, Unlocked
  <2>3. j \in 1..Len(chain)
    BY <1>1, <1>2, <2>1, <2>2 DEF Events
  <2> QED BY <2>1, <2>2, <2>3 DEF Grows
<1>3. CASE i \in (Len(chain) + 1)..Len(chain')
  BY <1>3
<1> QED BY <1>1, <1>2, <1>3

LEMMA DenialsKeep ==
    ASSUME TypeOK, OneDenialPerRun, NEW o \in Ops, Grows(o),
           \A i \in (Len(chain) + 1)..Len(chain') : chain'[i].kind # "denial"
    PROVE  OneDenialPerRun'
<1> SUFFICES ASSUME NEW i \in 1..Len(chain'), NEW j \in 1..Len(chain'), chain'[i].kind = "denial",
                    chain'[j].kind = "denial", chain'[i].run = chain'[j].run
             PROVE i = j
  BY DEF OneDenialPerRun
<1>1. Len(chain) \in Nat /\ Len(chain') \in Nat
  BY DEF TypeOK, Grows
<1>2. i \in 1..Len(chain) /\ j \in 1..Len(chain)
  BY <1>1
<1> QED BY <1>2 DEF Grows, OneDenialPerRun

\* Steps that write nothing keep what is said of the chain and of the tables.
LEMMA NothingWritten ==
    ASSUME DInv, UNCHANGED <<gens, desired, chain, stale>>, TypeOK', LockHeld', ReadsLast',
           \A p \in HttpOps : req'[p] = req[p] \/ req'[p].kind # "change"
    PROVE  DInv'
<1>1. ForkHasCause' /\ OneDenialPerRun'
  BY DEF DInv, ForkHasCause, OneDenialPerRun
<1>2. PlansFit'
  BY PlansKeep DEF DInv
<1> QED BY <1>1, <1>2 DEF DInv

LEMMA LockD == ASSUME DInv, NEW o \in Ops, Lock(o) PROVE DInv'
<1> USE DEF DInv
<1>1. /\ o \notin TagOps /\ lock' = o /\ lock = NoOp /\ UNCHANGED <<gens, desired, actual, chain, req, view, stale>>
      /\ st' = [st EXCEPT ![o] = IF o \in HttpOps THEN "commit" ELSE "read"]
  BY DEF Lock
<1>2. o \in HttpOps \/ o \in NodeOps
  BY <1>1 DEF Ops
<1>3. o \in HttpOps => o \notin NodeOps
  BY DesiredAssumption
<1>4. /\ st' \in [Ops -> {"idle", "lock", "read", "commit", "done"}]
      /\ st'[o] = IF o \in HttpOps THEN "commit" ELSE "read"
      /\ \A p \in Ops \ {o} : st'[p] = st[p]
  BY <1>1 DEF TypeOK
<1>5. TypeOK'
  BY <1>1, <1>2, <1>4 DEF TypeOK
<1>6. \A p \in NodeOps : p \in Ops /\ lock # p
  BY <1>1, DesiredAssumption DEF Ops
<1>7. LockHeld'
  BY <1>1, <1>4, <1>6 DEF LockHeld
<1>8. ReadsLast'
  BY <1>1, <1>3, <1>4, <1>6 DEF ReadsLast, LockHeld
<1> QED BY <1>1, <1>5, <1>7, <1>8, NothingWritten

LEMMA RollbackD == ASSUME DInv, NEW o \in Ops, Rollback(o) PROVE DInv'
<1>1. UNCHANGED <<gens, desired, chain, stale>> /\ End(o)
  BY DEF Rollback
<1>2. Grows(o)
  BY <1>1, UnchangedGrows DEF DInv
<1>3. /\ TypeOK' /\ LockHeld' /\ ReadsLast'
      /\ req'[o] = Idle /\ \A p \in Ops \ {o} : req'[p] = req[p]
  BY <1>1, <1>2, EndD DEF DInv, TypeOK
<1>4. \A p \in HttpOps : req'[p] = req[p] \/ req'[p].kind # "change"
  BY <1>3 DEF Ops, Idle
<1> QED BY <1>1, <1>3, <1>4, NothingWritten

\* A snapshot that is taken now shows the whole chain.
LEMMA ViewD ==
    ASSUME TypeOK, ReadsLast, NEW o \in Ops, NEW q, Fits(o, q),
           NEW at \in {"lock", "commit"}, UNCHANGED <<gens, desired, chain, lock>>,
           req' = [req EXCEPT ![o] = q], view' = [view EXCEPT ![o] = Snapshot(o)],
           st' = [st EXCEPT ![o] = at]
    PROVE  TypeOK' /\ ReadsLast' /\ req'[o] = q /\ \A p \in Ops \ {o} : req'[p] = req[p] /\ st'[p] = st[p]
<1>1. Len(chain) \in Nat /\ Snapshot(o).at = Len(chain)
  BY DEF TypeOK, Snapshot
<1>2. /\ req'[o] = q /\ view'[o].at = Len(chain) /\ st'[o] = at
      /\ DOMAIN req' = Ops /\ DOMAIN view' = Ops
      /\ st' \in [Ops -> {"idle", "lock", "read", "commit", "done"}]
      /\ \A p \in Ops \ {o} : req'[p] = req[p] /\ view'[p] = view[p] /\ st'[p] = st[p]
  BY <1>1 DEF TypeOK
<1>3. \A p \in Ops : Fits(p, req'[p])
  BY <1>2 DEF TypeOK
<1>4. \A p \in Ops : view'[p].at \in 0..Len(chain)
  BY <1>1, <1>2 DEF TypeOK
<1>5. TypeOK'
  BY <1>2, <1>3, <1>4 DEF TypeOK
<1>6. ReadsLast'
  BY <1>1, <1>2 DEF ReadsLast, Ops
<1> QED BY <1>2, <1>5, <1>6

LEMMA ReadD ==
    ASSUME DInv, NEW o \in Ops, ReadReport(o) \/ ReadDenial(o)
    PROVE  DInv'
<1> USE DEF DInv
<1>1. PICK q : Read(o, q) /\ \/ q.kind = "report" /\ q.node \in Nodes
                             \/ q.kind = "denial" /\ q.run \in DeniedRuns
  <2>1. CASE ReadReport(o)
    <3>1. PICK n \in Nodes, rows \in [Skills -> Row] : \E g \in 0..gens[n] :
              Read(o, [kind |-> "report", node |-> n, gen |-> g, rows |-> rows])
      BY <2>1 DEF ReadReport
    <3>2. PICK g \in 0..gens[n] : Read(o, [kind |-> "report", node |-> n, gen |-> g, rows |-> rows])
      BY <3>1
    <3> DEFINE q == [kind |-> "report", node |-> n, gen |-> g, rows |-> rows]
    <3>3. Read(o, q) /\ q.kind = "report" /\ q.node \in Nodes
      BY <3>2
    <3> HIDE DEF q
    <3> QED BY <3>3
  <2>2. CASE ReadDenial(o)
    <3>1. PICK r \in DeniedRuns : Read(o, [kind |-> "denial", run |-> r])
      BY <2>2 DEF ReadDenial
    <3> DEFINE q == [kind |-> "denial", run |-> r]
    <3>2. Read(o, q) /\ q.kind = "denial" /\ q.run \in DeniedRuns
      BY <3>1
    <3> HIDE DEF q
    <3> QED BY <3>2
  <2> QED BY <2>1, <2>2
<1>2. st[o] = "read" /\ UNCHANGED <<gens, desired, chain, lock, stale>>
  BY <1>1 DEF Read
<1>3. o \in NodeOps /\ o \notin HttpOps
  BY <1>2, DesiredAssumption DEF TypeOK
<1>4. Fits(o, q)
  BY <1>1, <1>3 DEF Fits
<1>5. TypeOK' /\ ReadsLast' /\ req'[o] = q /\ \A p \in Ops \ {o} : req'[p] = req[p] /\ st'[p] = st[p]
  BY <1>1, <1>2, <1>4, ViewD DEF Read
<1>6. LockHeld'
  BY <1>2, <1>3, <1>5 DEF LockHeld, Ops
<1> QED BY <1>2, <1>3, <1>5, <1>6, NothingWritten DEF Ops

LEMMA BeginTagD == ASSUME DInv, NEW o \in Ops, BeginTag(o) PROVE DInv'
<1> USE DEF DInv
<1> DEFINE q == [kind |-> "tag"]
<1>1. o \in TagOps /\ UNCHANGED <<gens, desired, chain, lock, stale>>
  BY DEF BeginTag
<1>2. o \notin HttpOps /\ o \notin NodeOps
  BY <1>1, DesiredAssumption
<1>3. Fits(o, q)
  BY <1>1 DEF Fits
<1>4. TypeOK' /\ ReadsLast' /\ \A p \in Ops \ {o} : req'[p] = req[p] /\ st'[p] = st[p]
  BY <1>1, <1>3, ViewD DEF BeginTag
<1>5. LockHeld'
  BY <1>1, <1>2, <1>4 DEF LockHeld, Ops
<1> QED BY <1>1, <1>2, <1>4, <1>5, NothingWritten DEF Ops

\* Versions are numbers, and what precedes one is a version or none.
LEMMA PreviousType == ASSUME NEW v \in VersOrNone PROVE Previous(v) \in VersOrNone
<1> DEFINE older == {w \in Versions : w < v}
           top == CHOOSE w \in older : \A x \in older : x <= w
<1>1. CASE older = {}
  BY <1>1 DEF Previous, VersOrNone
<1>2. CASE older # {}
  <2>1. v \in Versions /\ v \in Nat /\ v > 1
    BY <1>2, DesiredAssumption DEF VersOrNone, Versions, None
  <2>2. v - 1 \in older /\ \A x \in older : x <= v - 1
    BY <2>1, DesiredAssumption DEF Versions
  <2>3. top \in older
    BY <2>2
  <2> QED BY <1>2, <2>3 DEF Previous, VersOrNone
<1> QED BY <1>1, <1>2

LEMMA BeginChangeD ==
    ASSUME DInv, NEW o \in Ops, NEW how \in Hows, NEW k \in Skills, NEW v \in Versions,
           NEW S \in SUBSET Nodes \ {{}}, BeginChange(o, how, k, v, S)
    PROVE  DInv'
<1> USE DEF DInv
<1> DEFINE plan == Plan(how, k, v, S)
           q == [kind |-> "change", skill |-> k, plan |-> plan]
<1>1. o \in HttpOps /\ UNCHANGED <<gens, desired, chain, lock, stale>>
  BY DEF BeginChange
<1>2. /\ DOMAIN plan \subseteq Nodes
      /\ \A n \in DOMAIN plan : plan[n].gen = gens[n] + 1 /\ plan[n].ver # desired[n][k]
                                /\ plan[n].ver \in VersOrNone
  <2> DEFINE target(n) == CASE how = "install"   -> v
                            [] how = "rollback"  -> Previous(desired[n][k])
                            [] how = "uninstall" -> None
             acts == {n \in S : /\ target(n) # desired[n][k]
                                /\ how # "uninstall" =>
                                       target(n) # None /\ ~(n \in OldNodes /\ target(n) = MaxVersion)}
  <2>1. plan = [n \in acts |-> [gen |-> gens[n] + 1, ver |-> target(n)]]
    BY DEF Plan
  <2>2. acts \subseteq Nodes /\ \A n \in acts : target(n) # desired[n][k]
    OBVIOUS
  <2>3. \A n \in acts : target(n) \in VersOrNone
    <3> SUFFICES ASSUME NEW n \in acts PROVE target(n) \in VersOrNone
      OBVIOUS
    <3>1. Previous(desired[n][k]) \in VersOrNone
      BY <2>2, PreviousType DEF TypeOK
    <3> QED BY <3>1 DEF Hows, VersOrNone
  <2> HIDE DEF target, acts
  <2> QED BY <2>1, <2>2, <2>3
<1> HIDE DEF plan
<1>3. Fits(o, q)
  BY <1>1, <1>2 DEF Fits, IsChange, TypeOK
<1>4. /\ TypeOK' /\ ReadsLast' /\ req'[o] = q
      /\ \A p \in Ops \ {o} : req'[p] = req[p] /\ st'[p] = st[p]
  BY <1>1, <1>3, ViewD DEF BeginChange, plan
<1>5. o \notin NodeOps
  BY <1>1, DesiredAssumption
<1>6. LockHeld'
  BY <1>1, <1>4, <1>5 DEF LockHeld, Ops
<1>7. PlansFit'
  <2> SUFFICES ASSUME NEW p \in HttpOps, req'[p].kind = "change", NEW n \in DOMAIN req'[p].plan \ stale
               PROVE /\ req'[p].plan[n].gen <= gens[n] + 1
                     /\ req'[p].plan[n].gen = gens[n] + 1 => req'[p].plan[n].ver # desired[n][req'[p].skill]
    BY <1>1 DEF PlansFit
  <2>1. CASE p = o
    BY <1>2, <1>4, <2>1 DEF TypeOK
  <2>2. CASE p # o
    BY <1>4, <2>2 DEF PlansFit, Ops
  <2> QED BY <2>1, <2>2
<1>8. ForkHasCause' /\ OneDenialPerRun'
  BY <1>1 DEF ForkHasCause, OneDenialPerRun
<1> QED BY <1>4, <1>6, <1>7, <1>8

\* A change writes what it planned, and is stale when the generation was outdated.
LEMMA CommitChangeTables ==
    ASSUME TypeOK, PlansFit, NEW o \in Ops, CommitChange(o)
    PROVE  /\ o \in HttpOps /\ gens' \in [Nodes -> Nat] /\ desired' \in [Nodes -> [Skills -> VersOrNone]]
           /\ stale \subseteq stale'
           /\ \A n \in Nodes \ stale' :
                  \/ gens'[n] = gens[n] /\ desired'[n] = desired[n]
                  \/ gens'[n] = gens[n] + 1 /\ desired'[n] # desired[n]
<1> DEFINE plan == req[o].plan
           k == req[o].skill
<1>1. req[o].kind = "change" /\ o \in HttpOps /\ IsChange(req[o])
  BY DEF CommitChange, TypeOK, Fits, Idle
<1>2. /\ k \in Skills /\ DOMAIN plan \subseteq Nodes /\ Hits(o) \subseteq DOMAIN plan
      /\ \A n \in DOMAIN plan : plan[n].gen \in Nat /\ plan[n].ver \in VersOrNone
  BY <1>1 DEF IsChange, Hits
<1>3. /\ gens' = [n \in Nodes |-> IF n \in Hits(o) THEN plan[n].gen ELSE gens[n]]
      /\ desired' = [n \in Nodes |-> IF n \in Hits(o) THEN [desired[n] EXCEPT ![k] = plan[n].ver]
                                     ELSE desired[n]]
      /\ stale' = stale \cup {n \in Hits(o) : plan[n].gen # gens[n] + 1}
  BY DEF CommitChange
<1>4. gens' \in [Nodes -> Nat]
  BY <1>2, <1>3 DEF TypeOK
<1>5. desired' \in [Nodes -> [Skills -> VersOrNone]]
  BY <1>2, <1>3 DEF TypeOK
<1>6. \A n \in Nodes \ stale' :
          \/ gens'[n] = gens[n] /\ desired'[n] = desired[n]
          \/ gens'[n] = gens[n] + 1 /\ desired'[n] # desired[n]
  <2> SUFFICES ASSUME NEW n \in Nodes \ stale', n \in Hits(o)
               PROVE gens'[n] = gens[n] + 1 /\ desired'[n] # desired[n]
    BY <1>3
  <2>1. plan[n].gen = gens[n] + 1 /\ n \in DOMAIN plan \ stale
    BY <1>2, <1>3
  <2>2. plan[n].ver # desired[n][k]
    BY <1>1, <2>1 DEF PlansFit
  <2>3. desired'[n][k] = plan[n].ver
    BY <1>2, <1>3 DEF TypeOK
  <2> QED BY <1>3, <2>1, <2>2, <2>3
<1> QED BY <1>1, <1>3, <1>4, <1>5, <1>6

\* The other plans for a node fall behind it, unless it is stale from now on.
LEMMA PlansFallBehind ==
    ASSUME TypeOK, PlansFit, gens' \in [Nodes -> Nat], stale \subseteq stale',
           \A n \in Nodes \ stale' :
                  \/ gens'[n] = gens[n] /\ desired'[n] = desired[n]
                  \/ gens'[n] = gens[n] + 1 /\ desired'[n] # desired[n],
           \A p \in HttpOps : req'[p] = req[p] \/ req'[p].kind # "change"
    PROVE  PlansFit'
<1> SUFFICES ASSUME NEW p \in HttpOps, req'[p].kind = "change", NEW n \in DOMAIN req'[p].plan \ stale'
             PROVE /\ req'[p].plan[n].gen <= gens'[n] + 1
                   /\ req'[p].plan[n].gen = gens'[n] + 1 => req'[p].plan[n].ver # desired'[n][req'[p].skill]
  BY DEF PlansFit
<1>1. req'[p] = req[p] /\ p \in Ops /\ n \notin stale
  BY DEF Ops
<1>2. IsChange(req[p])
  BY <1>1 DEF TypeOK, Fits, Idle
<1>3. n \in Nodes /\ req[p].plan[n].gen \in Nat /\ gens[n] \in Nat
  BY <1>1, <1>2 DEF IsChange, TypeOK
<1>4. /\ req[p].plan[n].gen <= gens[n] + 1
      /\ req[p].plan[n].gen = gens[n] + 1 => req[p].plan[n].ver # desired[n][req[p].skill]
  BY <1>1 DEF PlansFit
<1> QED BY <1>1, <1>3, <1>4

LEMMA CommitChangeD == ASSUME DInv, NEW o \in Ops, CommitChange(o) PROVE DInv'
<1> USE DEF DInv
<1> DEFINE e == Event("change", view[o].at, None)
<1>1. End(o) /\ chain' = Append(chain, e)
  BY DEF CommitChange
<1>2. e \in Events /\ e.kind = "change"
  BY DEF TypeOK, Event, Events, Unlocked
<1> HIDE DEF e
<1>3. Grows(o) /\ Len(chain') = Len(chain) + 1 /\ chain'[Len(chain) + 1] = e
  BY <1>1, <1>2, AppendGrows DEF Unlocked
<1>4. /\ gens' \in [Nodes -> Nat] /\ desired' \in [Nodes -> [Skills -> VersOrNone]] /\ stale \subseteq stale'
      /\ \A n \in Nodes \ stale' :
             \/ gens'[n] = gens[n] /\ desired'[n] = desired[n]
             \/ gens'[n] = gens[n] + 1 /\ desired'[n] # desired[n]
  BY CommitChangeTables
<1>5. /\ TypeOK' /\ LockHeld' /\ ReadsLast'
      /\ req'[o] = Idle /\ \A p \in Ops \ {o} : req'[p] = req[p]
  BY <1>1, <1>3, <1>4, EndD
<1>6. PlansFit'
  BY <1>4, <1>5, PlansFallBehind DEF Ops, Idle
<1>7. \A i \in (Len(chain) + 1)..Len(chain') : chain'[i].kind = "change" /\ i \in (e.prev + 1)..i
  <2>1. Len(chain) \in Nat /\ e.prev \in 0..Len(chain)
    BY DEF TypeOK, e, Event
  <2> QED BY <1>2, <1>3, <2>1
<1>8. ForkHasCause'
  BY <1>3, <1>7, ForksKeep DEF Unlocked
<1>9. OneDenialPerRun'
  BY <1>3, <1>7, DenialsKeep
<1> QED BY <1>5, <1>6, <1>8, <1>9

LEMMA CommitTagD == ASSUME DInv, NEW o \in Ops, CommitTag(o) PROVE DInv'
<1> USE DEF DInv
<1> DEFINE e == Event("tag", view[o].at, None)
<1>1. End(o) /\ chain' = Append(chain, e) /\ UNCHANGED <<gens, desired, stale>>
  BY DEF CommitTag
<1>2. e \in Events /\ e.kind = "tag"
  BY DEF TypeOK, Event, Events, Unlocked
<1> HIDE DEF e
<1>3. Grows(o) /\ Len(chain') = Len(chain) + 1 /\ chain'[Len(chain) + 1] = e
  BY <1>1, <1>2, AppendGrows DEF Unlocked
<1>4. /\ TypeOK' /\ LockHeld' /\ ReadsLast'
      /\ req'[o] = Idle /\ \A p \in Ops \ {o} : req'[p] = req[p]
  BY <1>1, <1>3, EndD DEF TypeOK
<1>5. PlansFit'
  BY <1>1, <1>4, PlansKeep DEF Ops, Idle
<1>6. \A i \in (Len(chain) + 1)..Len(chain') : chain'[i].kind = "tag" /\ i \in (chain'[i].prev + 1)..i
  <2>1. Len(chain) \in Nat /\ e.prev \in 0..Len(chain)
    BY DEF TypeOK, e, Event
  <2> QED BY <1>2, <1>3, <2>1
<1>7. ForkHasCause'
  BY <1>3, <1>6, ForksKeep DEF Unlocked
<1>8. OneDenialPerRun'
  BY <1>3, <1>6, DenialsKeep
<1> QED BY <1>4, <1>5, <1>7, <1>8

\* The first event of a session task's transaction follows what it read, and all
\* that came since explains the fork.
LEMMA LockedFork ==
    ASSUME TypeOK, ReadsLast, NEW o \in NodeOps, st[o] = "commit", Grows(o), view[o].at # Len(chain)
    PROVE  /\ Len(chain) \in (view[o].at + 1)..(Len(chain) + 1)
           /\ chain'[Len(chain)].kind \in Unlocked
<1>1. o \in Ops /\ Len(chain) \in Nat /\ view[o].at \in 0..Len(chain)
  BY DEF TypeOK, Ops
<1>2. Len(chain) \in (view[o].at + 1)..Len(chain) /\ Len(chain) \in 1..Len(chain)
  BY <1>1
<1>3. chain[Len(chain)].kind \in Unlocked
  BY <1>2 DEF ReadsLast
<1> QED BY <1>1, <1>2, <1>3 DEF Grows

LEMMA CommitDenialD == ASSUME DInv, NEW o \in Ops, CommitDenial(o) PROVE DInv'
<1> USE DEF DInv
<1> DEFINE run == req[o].run
           e == Event("denial", view[o].at, run)
           known == \E i \in 1..view[o].at : chain[i].kind = "denial" /\ chain[i].run = run
<1>1. /\ End(o) /\ chain' = (IF known THEN chain ELSE Append(chain, e))
      /\ UNCHANGED <<gens, desired, stale>> /\ st[o] = "commit" /\ req[o].kind = "denial"
  BY DEF CommitDenial
<1>2. o \in NodeOps /\ run \in DeniedRuns
  BY <1>1 DEF TypeOK, Fits, Idle, IsChange
<1>3. Len(chain) \in Nat /\ view[o].at \in 0..Len(chain)
  BY DEF TypeOK
<1>4. e \in Events /\ e.kind = "denial" /\ e.prev = view[o].at /\ e.run = run
  BY <1>2, <1>3 DEF Event, Events
<1> HIDE DEF e
<1>5. CASE known
  <2>1. Grows(o) /\ chain' = chain
    BY <1>1, <1>5, UnchangedGrows
  <2>2. /\ TypeOK' /\ LockHeld' /\ ReadsLast'
        /\ req'[o] = Idle /\ \A p \in Ops \ {o} : req'[p] = req[p]
    BY <1>1, <2>1, EndD DEF TypeOK
  <2>3. \A p \in HttpOps : req'[p] = req[p] \/ req'[p].kind # "change"
    BY <2>2 DEF Ops, Idle
  <2> QED BY <1>1, <2>1, <2>2, <2>3, NothingWritten
<1>6. CASE ~known
  <2>1. Grows(o) /\ Len(chain') = Len(chain) + 1 /\ chain'[Len(chain) + 1] = e
    BY <1>1, <1>2, <1>4, <1>6, AppendGrows
  <2>2. /\ TypeOK' /\ LockHeld' /\ ReadsLast'
        /\ req'[o] = Idle /\ \A p \in Ops \ {o} : req'[p] = req[p]
    BY <1>1, <2>1, EndD DEF TypeOK
  <2>3. PlansFit'
    BY <1>1, <2>2, PlansKeep DEF Ops, Idle
  <2>4. \A i \in (Len(chain) + 1)..Len(chain') : i = Len(chain) + 1
    BY <1>3, <2>1
  <2>5. ForkHasCause'
    BY <1>1, <1>2, <1>3, <1>4, <2>1, <2>4, LockedFork, ForksKeep
  <2>6. \A i \in 1..Len(chain) : chain[i].kind = "denial" => chain[i].run # run
    <3> SUFFICES ASSUME NEW i \in 1..Len(chain), chain[i].kind = "denial", chain[i].run = run
                 PROVE FALSE
      OBVIOUS
    <3>1. i \in (view[o].at + 1)..Len(chain)
      BY <1>3, <1>6
    <3> QED BY <1>1, <1>2, <3>1 DEF ReadsLast, Unlocked
  <2>7. OneDenialPerRun'
    <3> SUFFICES ASSUME NEW i \in 1..Len(chain'), NEW j \in 1..Len(chain'), chain'[i].kind = "denial",
                        chain'[j].kind = "denial", chain'[i].run = chain'[j].run
                 PROVE i = j
      BY DEF OneDenialPerRun
    <3>1. (i \in 1..Len(chain) \/ i = Len(chain) + 1) /\ (j \in 1..Len(chain) \/ j = Len(chain) + 1)
      BY <1>3, <2>1
    <3>2. CASE i \in 1..Len(chain) /\ j \in 1..Len(chain)
      BY <2>1, <3>2 DEF Grows, OneDenialPerRun
    <3>3. CASE i \in 1..Len(chain) /\ j = Len(chain) + 1
      BY <1>4, <2>1, <2>6, <3>3 DEF Grows
    <3>4. CASE i = Len(chain) + 1 /\ j \in 1..Len(chain)
      BY <1>4, <2>1, <2>6, <3>4 DEF Grows
    <3> QED BY <3>1, <3>2, <3>3, <3>4
  <2> QED BY <2>2, <2>3, <2>5, <2>7
<1> QED BY <1>5, <1>6

\* The events of a report follow one another.
LEMMA AppendedGrows ==
    ASSUME TypeOK, NEW o \in NodeOps, st[o] = "commit", NEW count \in Nat,
           chain' = Appended(count, "report", view[o].at)
    PROVE  /\ Grows(o) /\ Len(chain') = Len(chain) + count
           /\ \A i \in (Len(chain) + 1)..Len(chain') :
                  /\ chain'[i].kind = "report"
                  /\ chain'[i].prev = IF i = Len(chain) + 1 THEN view[o].at ELSE i - 1
<1> DEFINE new == [i \in 1..count |->
                     Event("report", IF i = 1 THEN view[o].at ELSE Len(chain) + i - 1, None)]
<1>1. chain \in Seq(Events) /\ Len(chain) \in Nat /\ view[o].at \in Nat
  BY DEF TypeOK, Ops
<1>2. \A i \in 1..count : new[i] \in Events /\ new[i].kind = "report"
                          /\ new[i].prev = IF i = 1 THEN view[o].at ELSE Len(chain) + i - 1
  BY <1>1 DEF Event, Events
<1>3. new \in Seq(Events) /\ Len(new) = count
  <2>1. new \in [1..count -> Events]
    BY <1>2
  <2> HIDE DEF new
  <2> QED BY <2>1, SeqDef
<1>4. chain' = chain \o new
  BY DEF Appended
<1> HIDE DEF new
<1>5. /\ chain' \in Seq(Events) /\ Len(chain') = Len(chain) + count
      /\ \A i \in 1..Len(chain) : chain'[i] = chain[i]
      /\ \A i \in (Len(chain) + 1)..Len(chain') : chain'[i] = new[i - Len(chain)]
  <2>1. /\ chain \o new \in Seq(Events) /\ Len(chain \o new) = Len(chain) + Len(new)
        /\ \A i \in 1..Len(chain) + Len(new) :
               (chain \o new)[i] = IF i <= Len(chain) THEN chain[i] ELSE new[i - Len(chain)]
    BY <1>1, <1>3, ConcatProperties
  <2>2. \A i \in 1..Len(chain) + count :
            chain'[i] = IF i <= Len(chain) THEN chain[i] ELSE new[i - Len(chain)]
    BY <1>3, <1>4, <2>1
  <2>3. chain' \in Seq(Events) /\ Len(chain') = Len(chain) + count
    BY <1>3, <1>4, <2>1
  <2>4. ASSUME NEW i \in 1..Len(chain) PROVE chain'[i] = chain[i]
    <3>1. i \in 1..Len(chain) + count /\ i <= Len(chain)
      BY <1>1
    <3> QED BY <2>2, <3>1
  <2>5. ASSUME NEW i \in (Len(chain) + 1)..Len(chain') PROVE chain'[i] = new[i - Len(chain)]
    <3>1. i \in 1..Len(chain) + count /\ ~(i <= Len(chain))
      BY <1>1, <2>3
    <3> QED BY <2>2, <3>1
  <2> QED BY <2>3, <2>4, <2>5
<1>6. \A i \in (Len(chain) + 1)..Len(chain') : i - Len(chain) \in 1..count
  BY <1>1, <1>5
<1>7. \A i \in (Len(chain) + 1)..Len(chain') :
          /\ chain'[i].kind = "report"
          /\ chain'[i].prev = IF i = Len(chain) + 1 THEN view[o].at ELSE i - 1
  BY <1>1, <1>2, <1>5, <1>6
<1> QED BY <1>1, <1>5, <1>7 DEF Grows

LEMMA CommitReportD == ASSUME DInv, NEW o \in Ops, CommitReport(o) PROVE DInv'
<1> USE DEF DInv
<1>1. End(o) /\ UNCHANGED <<gens, desired, stale>> /\ st[o] = "commit" /\ req[o].kind = "report"
  BY DEF CommitReport
<1>2. o \in NodeOps
  BY <1>1 DEF TypeOK, Fits, Idle, IsChange
<1>3. Len(chain) \in Nat /\ view[o].at \in 0..Len(chain)
  BY DEF TypeOK
<1>4. chain' = chain \/ \E count \in Nat : chain' = Appended(count, "report", view[o].at)
  <2> DEFINE changed == Changed(view[o].actual[req[o].node].rows, req[o].rows)
  <2>1. changed \subseteq Skills
    BY DEF Changed
  <2>2. Cardinality(changed) \in Nat
    BY <2>1, FS_Subset, FS_CardinalityType, DesiredAssumption
  <2> QED BY <2>2 DEF CommitReport
<1>5. CASE chain' = chain
  <2>1. Grows(o)
    BY <1>5, UnchangedGrows
  <2>2. /\ TypeOK' /\ LockHeld' /\ ReadsLast'
        /\ req'[o] = Idle /\ \A p \in Ops \ {o} : req'[p] = req[p]
    BY <1>1, <2>1, EndD DEF TypeOK
  <2>3. \A p \in HttpOps : req'[p] = req[p] \/ req'[p].kind # "change"
    BY <2>2 DEF Ops, Idle
  <2> QED BY <1>1, <1>5, <2>2, <2>3, NothingWritten
<1>6. ASSUME NEW count \in Nat, chain' = Appended(count, "report", view[o].at)
      PROVE  DInv'
  <2>1. /\ Grows(o) /\ Len(chain') = Len(chain) + count
        /\ \A i \in (Len(chain) + 1)..Len(chain') :
               /\ chain'[i].kind = "report"
               /\ chain'[i].prev = IF i = Len(chain) + 1 THEN view[o].at ELSE i - 1
    BY <1>1, <1>2, <1>6, AppendedGrows
  <2>2. /\ TypeOK' /\ LockHeld' /\ ReadsLast'
        /\ req'[o] = Idle /\ \A p \in Ops \ {o} : req'[p] = req[p]
    BY <1>1, <2>1, EndD DEF TypeOK
  <2>3. PlansFit'
    BY <1>1, <2>2, PlansKeep DEF Ops, Idle
  <2>4. \A i \in (Len(chain) + 1)..Len(chain') :
            chain'[i].prev = i - 1 \/ \E j \in (chain'[i].prev + 1)..i : chain'[j].kind \in Unlocked
    <3> SUFFICES ASSUME NEW i \in (Len(chain) + 1)..Len(chain'), chain'[i].prev # i - 1
                 PROVE \E j \in (chain'[i].prev + 1)..i : chain'[j].kind \in Unlocked
      OBVIOUS
    <3>1. i = Len(chain) + 1 /\ chain'[i].prev = view[o].at /\ view[o].at # Len(chain)
      BY <1>3, <2>1
    <3> QED BY <1>1, <1>2, <2>1, <3>1, LockedFork
  <2>5. ForkHasCause'
    BY <2>1, <2>4, ForksKeep
  <2>6. OneDenialPerRun'
    BY <2>1, DenialsKeep
  <2> QED BY <2>2, <2>3, <2>5, <2>6
<1> QED BY <1>4, <1>5, <1>6

LEMMA NextD == ASSUME DInv, [Next]_skillVars PROVE DInv'
<1>1. CASE UNCHANGED skillVars
  BY <1>1 DEF skillVars, DInv, TypeOK, LockHeld, ReadsLast, PlansFit, ForkHasCause, OneDenialPerRun
<1>2. ASSUME NEW o \in Ops, Change(o) PROVE DInv'
  BY <1>2, BeginChangeD, CommitChangeD DEF Change
<1>3. ASSUME NEW o \in Ops, Store(o) PROVE DInv'
  BY <1>3, LockD, ReadD, CommitReportD, CommitDenialD DEF Store
<1>4. ASSUME NEW o \in Ops, Tag(o) PROVE DInv'
  BY <1>4, BeginTagD, CommitTagD DEF Tag
<1> QED BY <1>1, <1>2, <1>3, <1>4, RollbackD DEF Next

LEMMA InvD == Spec => []DInv
BY InitD, NextD, PTL DEF Spec

\* skill_desired.rs, lock_chain and append_audit: the chain of audit events forks only
\* around a change, which reads its snapshot before it locks, or a tag, which does not
\* lock; what nodes report never hashes the same predecessor twice.
THEOREM ForksHaveCauses == Spec => []ForkHasCause
<1>1. DInv => ForkHasCause
  BY DEF DInv
<1> QED BY <1>1, InvD, PTL

\* store_reported_result: however often the result of a run is stored, and by however
\* many session tasks, its denials are recorded once.
THEOREM DenialsAreSingle == Spec => []OneDenialPerRun
<1>1. DInv => OneDenialPerRun
  BY DEF DInv
<1> QED BY <1>1, InvD, PTL

\* persist and set_generation: as long as no change of a node was planned on an outdated
\* generation, its generation grows by one with every change of its desired set.
THEOREM GenerationsCount == Spec => GenerationCountsChanges
<1> DEFINE Counts == \A n \in Nodes \ stale' :
               gens'[n] = gens[n] + (IF desired'[n] # desired[n] THEN 1 ELSE 0)
<1>1. ASSUME DInv, [Next]_skillVars PROVE Counts \/ UNCHANGED skillVars
  <2>1. ASSUME UNCHANGED <<gens, desired>> PROVE Counts
    BY <1>1, <2>1 DEF DInv, TypeOK
  <2>2. ASSUME NEW o \in Ops, CommitChange(o) PROVE Counts
    <3>1. /\ stale \subseteq stale'
          /\ \A n \in Nodes \ stale' :
                 \/ gens'[n] = gens[n] /\ desired'[n] = desired[n]
                 \/ gens'[n] = gens[n] + 1 /\ desired'[n] # desired[n]
      BY <1>1, <2>2, CommitChangeTables DEF DInv
    <3> QED BY <1>1, <3>1 DEF DInv, TypeOK
  <2>3. ASSUME NEW o \in Ops, Change(o) \/ Store(o) \/ Tag(o) \/ Rollback(o), ~CommitChange(o)
        PROVE UNCHANGED <<gens, desired>>
    BY <2>3 DEF Change, Store, Tag, Rollback, BeginChange, Lock, ReadReport, ReadDenial, Read,
                CommitReport, CommitDenial, BeginTag, CommitTag
  <2> QED BY <1>1, <2>1, <2>2, <2>3 DEF Next
<1>2. DInv /\ [Next]_skillVars => [Counts]_skillVars
  BY <1>1
<1> QED BY <1>2, InvD, PTL DEF Spec, GenerationCountsChanges
=============================================================================
