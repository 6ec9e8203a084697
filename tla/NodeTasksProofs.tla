---------------------------- MODULE NodeTasksProofs ----------------------------
(***************************************************************************)
(* The tasks of the node beside its session: the spool that all of them    *)
(* share loses and repeats a report only for a cause, and the scheduler    *)
(* executes a cron schedule once in its minute and misses it only for a    *)
(* cause, for any reports, faults, specs, configs and times.               *)
(***************************************************************************)
EXTENDS RetrySpool, NodeScheduler, FiniteSetTheorems, SequenceTheorems, TLAPS

(***************************************************************************)
(* Subsequences                                                            *)
(***************************************************************************)
\* The positions are taken one after the other, each once.
Picks(q, at, c, nth) ==
    /\ c \in Nat /\ nth \in Bijection(1..c, at)
    /\ Subsequence(q, at) = [k \in 1..c |-> q[nth[k]]]

LEMMA SubsequencePicks ==
    ASSUME NEW q, NEW n \in Nat, NEW at \in SUBSET (1..n)
    PROVE  \E c, nth : Picks(q, at, c, nth)
<1> DEFINE c == Cardinality(at)
           upto(j) == {i \in at : i <= j}
           rank == [j \in at |-> Cardinality(upto(j))]
           pick(k) == CHOOSE j \in at : Cardinality(upto(j)) = k
           nth == [k \in 1..c |-> pick(k)]
<1>1. IsFiniteSet(at) /\ c \in Nat /\ at \subseteq Nat
  <2>1. IsFiniteSet(1..n)
    BY FS_Interval
  <2>2. IsFiniteSet(at)
    BY <2>1, FS_Subset
  <2> QED BY <2>2, FS_CardinalityType
<1>2. \A j \in at : IsFiniteSet(upto(j)) /\ Cardinality(upto(j)) \in 1..c
  <2> SUFFICES ASSUME NEW j \in at PROVE IsFiniteSet(upto(j)) /\ Cardinality(upto(j)) \in 1..c
    OBVIOUS
  <2>1. upto(j) \in SUBSET at /\ j \in upto(j)
    BY <1>1
  <2>2. IsFiniteSet(upto(j)) /\ Cardinality(upto(j)) <= c /\ Cardinality(upto(j)) \in Nat
    BY <1>1, <2>1, FS_Subset, FS_CardinalityType
  <2>3. Cardinality(upto(j)) # 0
    BY <2>1, <2>2, FS_EmptySet
  <2> QED BY <1>1, <2>2, <2>3
<1>3. \A i, j \in at : i < j => Cardinality(upto(i)) < Cardinality(upto(j))
  <2> SUFFICES ASSUME NEW i \in at, NEW j \in at, i < j
               PROVE Cardinality(upto(i)) < Cardinality(upto(j))
    OBVIOUS
  <2>1. upto(i) \in SUBSET upto(j) /\ j \in upto(j) /\ j \notin upto(i)
    <3>1. i \in Nat /\ j \in Nat /\ \A k \in at : k \in Nat
      BY <1>1
    <3>2. \A k \in at : k <= i => k <= j
      BY <3>1
    <3>3. ~(j <= i) /\ j <= j
      BY <3>1
    <3> QED BY <3>2, <3>3
  <2> HIDE DEF upto
  <2>2. IsFiniteSet(upto(j))
    BY <1>2
  <2>3. Cardinality(upto(i)) <= Cardinality(upto(j)) /\ (Cardinality(upto(i)) = Cardinality(upto(j)) => upto(i) = upto(j))
    BY <2>1, <2>2, FS_Subset
  <2> QED BY <1>2, <2>1, <2>3
<1>4. rank \in Injection(at, 1..c)
  <2>1. rank \in [at -> 1..c]
    BY <1>2
  <2>2. \A i, j \in at : rank[i] = rank[j] => i = j
    BY <1>1, <1>2, <1>3
  <2> QED BY <2>1, <2>2 DEF Injection, IsInjective
<1>5. rank \in Surjection(at, 1..c)
  <2>1. c \in Nat
    BY <1>1
  <2> HIDE DEF c
  <2>2. IsFiniteSet(1..c) /\ Cardinality(1..c) = c
    <3>1. IsFiniteSet(1..c) /\ Cardinality(1..c) = IF 1 > c THEN 0 ELSE c - 1 + 1
      BY <2>1, FS_Interval
    <3> QED BY <2>1, <3>1
  <2> QED BY <1>1, <1>4, <2>2, FS_Injection DEF c
<1>6. \A k \in 1..c : pick(k) \in at /\ Cardinality(upto(pick(k))) = k
  BY <1>5 DEF Surjection
<1>7. nth \in Bijection(1..c, at)
  <2>1. nth \in [1..c -> at]
    BY <1>6
  <2>2. \A k, l \in 1..c : nth[k] = nth[l] => k = l
    <3> HIDE DEF pick, upto, c
    <3>1. \A k \in 1..c : nth[k] = pick(k)
      OBVIOUS
    <3> HIDE DEF nth
    <3> QED BY <1>6, <3>1
  <2>3. \A j \in at : \E k \in 1..c : nth[k] = j
    <3> SUFFICES ASSUME NEW j \in at PROVE \E k \in 1..c : nth[k] = j
      OBVIOUS
    <3> DEFINE k == Cardinality(upto(j))
    <3>1. k \in 1..c /\ pick(k) \in at /\ rank[pick(k)] = k /\ rank[j] = k
      BY <1>2, <1>6
    <3>2. pick(k) = j
      BY <1>4, <3>1 DEF Injection, IsInjective
    <3> QED BY <3>1, <3>2
  <2> QED BY <2>1, <2>2, <2>3 DEF Bijection, Injection, Surjection, IsInjective
<1>8. Subsequence(q, at) = [k \in 1..c |-> q[nth[k]]]
  BY DEF Subsequence
<1> HIDE DEF c, nth
<1> QED BY <1>1, <1>7, <1>8 DEF Picks

(***************************************************************************)
(* What is in the file and in hand                                         *)
(***************************************************************************)
LEMMA ContainsAppended ==
    ASSUME NEW S, NEW q \in Seq(S), NEW x
    PROVE  \A y : Contains(Append(q, x), y) <=> Contains(q, y) \/ x = y
BY DEF Contains

LEMMA ContainsTaken ==
    ASSUME NEW S, NEW q \in Seq(S), q # <<>>
    PROVE  /\ Head(q) \in S /\ Tail(q) \in Seq(S) /\ Len(Tail(q)) = Len(q) - 1
           /\ \A y : Contains(q, y) <=> Head(q) = y \/ Contains(Tail(q), y)
<1>1. Head(q) \in S /\ Tail(q) \in Seq(S) /\ Len(Tail(q)) = Len(q) - 1 /\ Len(q) \in Nat \ {0}
  OBVIOUS
<1>2. Head(q) = q[1] /\ \A i \in 1..Len(q) - 1 : Tail(q)[i] = q[i + 1]
  OBVIOUS
<1>3. ASSUME NEW y PROVE Contains(q, y) <=> Head(q) = y \/ Contains(Tail(q), y)
  <2>1. CASE Contains(q, y)
    <3>1. PICK i \in 1..Len(q) : q[i] = y
      BY <2>1 DEF Contains
    <3>2. i = 1 \/ (i - 1 \in 1..Len(Tail(q)) /\ Tail(q)[i - 1] = y)
      BY <1>1, <1>2, <3>1
    <3> QED BY <1>2, <2>1, <3>1, <3>2 DEF Contains
  <2>2. CASE Head(q) = y \/ Contains(Tail(q), y)
    BY <1>1, <1>2, <2>2 DEF Contains
  <2> QED BY <2>1, <2>2
<1> QED BY <1>1, <1>3

\* p stands in the sequence at most once.
Once(q, p) == \A i, j \in 1..Len(q) : q[i] = p /\ q[j] = p => i = j

LEMMA OnceAppended ==
    ASSUME NEW S, NEW q \in Seq(S), NEW x, NEW p, Once(q, p), x # p \/ ~Contains(q, p)
    PROVE  Once(Append(q, x), p)
BY DEF Once, Contains

LEMMA OnceTaken ==
    ASSUME NEW S, NEW q \in Seq(S), q # <<>>, NEW p, Once(q, p)
    PROVE  Once(Tail(q), p) /\ (Head(q) = p => ~Contains(Tail(q), p))
<1>1. Len(Tail(q)) = Len(q) - 1 /\ Len(q) \in Nat \ {0}
  OBVIOUS
<1>2. Head(q) = q[1] /\ \A i \in 1..Len(q) - 1 : Tail(q)[i] = q[i + 1]
  OBVIOUS
<1> QED BY <1>1, <1>2 DEF Once, Contains

LEMMA ReadableStands ==
    ASSUME NEW q, NEW p \in Readable(q)
    PROVE  p \notin {NL, Scrap} /\ Contains(q, p)
BY DEF Readable, LinesAt, Contains

\* A newline makes no line unreadable.
LEMMA ReadableNewline ==
    ASSUME NEW S, NEW q \in Seq(S)
    PROVE  Readable(q) \subseteq Readable(Append(q, NL))
<1> SUFFICES ASSUME NEW j \in LinesAt(q)
             PROVE  q[j] \in Readable(Append(q, NL))
  BY DEF Readable
<1>1. j \in 1..Len(q) /\ Append(q, NL)[j] = q[j] /\ Len(Append(q, NL)) = Len(q) + 1
  BY DEF LinesAt
<1>2. j \in LinesAt(Append(q, NL))
  BY <1>1 DEF LinesAt, Bare
<1> QED BY <1>1, <1>2 DEF Readable

\* Neither does what begins where a line does, and a line that does can be read.
LEMMA ReadableLine ==
    ASSUME NEW S, NEW q \in Seq(S), NEW x, q = <<>> \/ q[Len(q)] = NL
    PROVE  /\ Readable(q) \subseteq Readable(Append(q, x))
           /\ x \notin {NL, Scrap} => x \in Readable(Append(q, x))
<1>1. Len(q) \in Nat /\ Len(Append(q, x)) = Len(q) + 1 /\ Append(q, x)[Len(q) + 1] = x
  OBVIOUS
<1>2. \A j \in 1..Len(q) : Append(q, x)[j] = q[j]
  OBVIOUS
<1>3. x \notin {NL, Scrap} => Len(q) + 1 \in LinesAt(Append(q, x))
  BY <1>1, <1>2 DEF LinesAt, Bare
<1>4. \A j \in LinesAt(q) : j \in LinesAt(Append(q, x)) /\ Append(q, x)[j] = q[j]
  BY <1>1, <1>2 DEF LinesAt, Bare
<1> QED BY <1>1, <1>3, <1>4 DEF Readable

\* What is appended spoils the last line at most.
LEMMA ReadableKept ==
    ASSUME NEW S, NEW q \in Seq(S), NEW x, NEW p \in Readable(q), q = <<>> \/ p # q[Len(q)]
    PROVE  p \in Readable(Append(q, x))
<1>1. PICK j \in LinesAt(q) : p = q[j]
  BY DEF Readable
<1>2. j \in 1..Len(q) /\ Len(q) \in Nat /\ q # <<>>
  BY <1>1 DEF LinesAt
<1>3. j # Len(q) /\ Len(Append(q, x)) = Len(q) + 1
  BY <1>1, <1>2
<1>4. \A i \in 1..Len(q) : Append(q, x)[i] = q[i]
  OBVIOUS
<1>5. j \in LinesAt(Append(q, x))
  BY <1>1, <1>2, <1>3, <1>4 DEF LinesAt, Bare
<1> QED BY <1>1, <1>2, <1>4, <1>5 DEF Readable

Pieces == Reports \cup {NL, Scrap}

\* drain returns the readable lines of the file and nothing else.
LEMMA LinesAreReadable ==
    ASSUME NEW q \in Seq(Pieces)
    PROVE  /\ Lines(q) \in Seq(Reports)
           /\ \A p : Contains(Lines(q), p) <=> p \in Readable(q)
           /\ \A p : Once(q, p) => Once(Lines(q), p)
<1>1. LinesAt(q) \in SUBSET (1..Len(q)) /\ Len(q) \in Nat
  BY DEF LinesAt
<1>2. PICK c, nth : Picks(q, LinesAt(q), c, nth)
  BY <1>1, SubsequencePicks
<1>3. /\ c \in Nat /\ nth \in Bijection(1..c, LinesAt(q))
      /\ Lines(q) = [k \in 1..c |-> q[nth[k]]]
  BY <1>2 DEF Picks, Lines
<1>4. /\ \A k \in 1..c : nth[k] \in LinesAt(q)
      /\ \A j \in LinesAt(q) : \E k \in 1..c : nth[k] = j
      /\ \A k, l \in 1..c : nth[k] = nth[l] => k = l
  BY <1>3 DEF Bijection, Injection, Surjection, IsInjective
<1>5. \A k \in 1..c : q[nth[k]] \in Reports /\ nth[k] \in 1..Len(q)
  BY <1>4 DEF LinesAt, Pieces
<1>6. Lines(q) \in Seq(Reports) /\ Len(Lines(q)) = c
  BY <1>3, <1>5
<1>7. ASSUME NEW p PROVE Contains(Lines(q), p) <=> p \in Readable(q)
  <2>1. Contains(Lines(q), p) <=> \E k \in 1..c : q[nth[k]] = p
    BY <1>3, <1>6 DEF Contains
  <2>2. p \in Readable(q) <=> \E j \in LinesAt(q) : q[j] = p
    BY DEF Readable
  <2> QED BY <1>4, <2>1, <2>2
<1>8. ASSUME NEW p, Once(q, p) PROVE Once(Lines(q), p)
  BY <1>3, <1>4, <1>5, <1>6, <1>8 DEF Once
<1> QED BY <1>6, <1>7, <1>8

(***************************************************************************)
(* The invariant of the spool                                              *)
(***************************************************************************)
Places == {"off", "idle", "flush", "newline", "truncate", "send"}

\* A task has items from its read of the file until it has sent or spooled them,
\* and sends only what it has.
SpoolTypeOK ==
    /\ file \in Seq(Pieces) /\ flight \in Seq(Reports)
    /\ link \in {"down", "up", "closed"}
    /\ pc \in [Tasks -> Places]
    /\ items \in [Tasks -> Seq(Reports)]
    /\ made \subseteq Reports
    /\ got \in [Reports -> Nat]
    /\ \A t \in Tasks : /\ pc[t] = "send" => items[t] # <<>>
                        /\ items[t] # <<>> => pc[t] \in {"truncate", "send"}

InHand(t, p) == pc[t] = "send" /\ Contains(items[t], p)

\* A report that met with nothing that loses it has been received, is on its way, can
\* be read from the file or is in the hands of a task that has truncated it: what a
\* task has read and not truncated is not what keeps a report.
Safe(p) ==
    \/ got[p] > 0 \/ Contains(flight, p)
    \/ p \in Readable(file)
    \/ \E t \in Tasks : InHand(t, p)

NothingLost == \A p \in made : p \in perilled \/ Safe(p)

Held(p)  == \E t \in Tasks : Contains(items[t], p)
Away(p)  == got[p] > 0 \/ Contains(flight, p)

\* A report that met with nothing that repeats it stands once in the file and in the
\* hands of one task, not in both once the file is truncated, and in neither when it
\* is on its way or received.
OnePlace(p) ==
    /\ Once(file, p) /\ Once(flight, p) /\ \A t \in Tasks : Once(items[t], p)
    /\ \A t, u \in Tasks : Contains(items[t], p) /\ Contains(items[u], p) => t = u
    /\ \A t \in Tasks : InHand(t, p) => ~Contains(file, p)
    /\ Away(p) => ~Contains(file, p) /\ ~Held(p)
    /\ Contains(flight, p) => got[p] = 0
    /\ got[p] <= 1
    /\ p \notin made => ~Away(p) /\ ~Contains(file, p) /\ ~Held(p)

NothingRepeated == \A p \in Reports : p \in reread \/ OnePlace(p)

SpoolInv == SpoolTypeOK /\ NothingLost /\ NothingRepeated

LEMMA NothingIn == \A p : ~Contains(<<>>, p) /\ Once(<<>>, p)
BY DEF Contains, Once

LEMMA SpoolStarts == SpoolInit => SpoolInv
<1> SUFFICES ASSUME SpoolInit PROVE SpoolInv
  OBVIOUS
<1>1. SpoolTypeOK
  BY DEF SpoolInit, SpoolTypeOK, Places
<1>2. NothingLost
  BY DEF SpoolInit, NothingLost
<1>3. NothingRepeated
  BY NothingIn DEF SpoolInit, NothingRepeated, OnePlace, Away, Held, InHand
<1> QED BY <1>1, <1>2, <1>3 DEF SpoolInv

\* What enqueue writes, however far it comes.
LEMMA WriteAppends ==
    ASSUME SpoolTypeOK, NEW t \in Tasks, NEW q \in Reports, NEW cut, WriteLine(t, q, cut)
    PROVE  /\ \E x \in {q, Scrap} : file' = file \/ file' = Append(file, x)
           /\ file' \in Seq(Pieces)
           /\ \A p \in Reports : /\ Contains(file', p) => Contains(file, p) \/ p = q
                                 /\ Once(file, p) /\ (p = q => ~Contains(file, p)) => Once(file', p)
           /\ pc' = [pc EXCEPT ![t] = "newline"] \/ pc' = [pc EXCEPT ![t] = "idle"]
<1>1. PICK x \in {q, Scrap} : file' = file \/ file' = Append(file, x)
  BY DEF WriteLine
<1>2. x \in Pieces /\ file \in Seq(Pieces)
  BY DEF Pieces, SpoolTypeOK
<1>3. ASSUME NEW p \in Reports PROVE Contains(file', p) => Contains(file, p) \/ p = q
  BY <1>1, <1>2, <1>3, ContainsAppended, SpoolAssumption
<1>4. ASSUME NEW p \in Reports, Once(file, p), p = q => ~Contains(file, p) PROVE Once(file', p)
  <2>1. x # p \/ ~Contains(file, p)
    BY <1>4, SpoolAssumption
  <2> HIDE DEF Once, SpoolTypeOK
  <2>2. Once(Append(file, x), p)
    BY <1>2, <1>4, <2>1, OnceAppended
  <2> QED BY <1>1, <1>4, <2>2
<1>5. file' \in Seq(Pieces)
  BY <1>1, <1>2
<1> QED BY <1>1, <1>3, <1>4, <1>5 DEF WriteLine

\* What enqueue does not mark as in peril can be read.
LEMMA WriteKeeps ==
    ASSUME SpoolTypeOK, NEW t \in Tasks, NEW q \in Reports, NEW cut, WriteLine(t, q, cut),
           NEW p \in Reports, p \notin perilled'
    PROVE  /\ p \notin perilled /\ p \notin cut
           /\ p \in Readable(file) \/ p = q => p \in Readable(file')
<1>1. p \notin perilled /\ p \notin cut
  BY DEF WriteLine
<1>2. file \in Seq(Pieces) /\ p \notin {NL, Scrap}
  BY SpoolAssumption DEF SpoolTypeOK
<1>3. CASE file' = Append(file, q) /\ p \notin Torn(q)
  <2>1. file = <<>> \/ file[Len(file)] = NL \/ (p # q /\ p # file[Len(file)])
    BY <1>3 DEF Torn, Last
  <2> QED BY <1>1, <1>2, <1>3, <2>1, ReadableLine, ReadableKept
<1>4. CASE p # q /\ file' = Append(file, Scrap) /\ p \notin Torn(q)
  <2>1. file = <<>> \/ file[Len(file)] = NL \/ p # file[Len(file)]
    BY <1>4 DEF Torn, Last
  <2> QED BY <1>1, <1>2, <1>4, <2>1, ReadableLine, ReadableKept
<1>5. CASE p # q /\ file' = file
  BY <1>1, <1>5
<1> QED BY <1>1, <1>3, <1>4, <1>5 DEF WriteLine

LEMMA SpoolTypeStep ==
    ASSUME SpoolTypeOK, [SpoolNext]_spoolVars
    PROVE  SpoolTypeOK'
<1> USE DEF SpoolTypeOK, Places
<1>1. ASSUME NEW t \in Reporters, NEW p \in Reports, Report(t, p) PROVE SpoolTypeOK'
  <2>1. t \in Tasks /\ pc[t] = "idle" /\ items' = items /\ link' = link /\ made' \subseteq Reports /\ got' = got
    BY <1>1 DEF Report, Reporters, Tasks
  <2>2. CASE link = "up"
    <3>1. flight' = Append(flight, p) /\ file' = file /\ pc' = pc
      BY <1>1, <2>2 DEF Report
    <3>2. flight' \in Seq(Reports)
      BY <3>1
    <3> QED BY <2>1, <3>1, <3>2
  <2>3. CASE link # "up"
    <3>1. WriteLine(t, p, {}) /\ flight' = flight
      BY <1>1, <2>3 DEF Report
    <3>2. file' \in Seq(Pieces) /\ (pc' = [pc EXCEPT ![t] = "newline"] \/ pc' = [pc EXCEPT ![t] = "idle"])
      BY <2>1, <3>1, WriteAppends
    <3> QED BY <2>1, <3>1, <3>2
  <2> QED BY <2>2, <2>3
<1>2. ASSUME NEW t \in Tasks, WriteNewline(t) PROVE SpoolTypeOK'
  <2>1. NL \in Pieces
    BY DEF Pieces
  <2>2. file' = file \/ file' = Append(file, NL)
    BY <1>2 DEF WriteNewline
  <2>3. file' \in Seq(Pieces)
    <3>1. file \in Seq(Pieces)
      OBVIOUS
    <3> HIDE DEF SpoolTypeOK
    <3> QED BY <2>1, <2>2, <3>1
  <2>4. pc[t] = "newline" /\ pc' = [pc EXCEPT ![t] = "idle"]
    BY <1>2 DEF WriteNewline
  <2> QED BY <1>2, <2>3, <2>4 DEF WriteNewline
<1>3. ASSUME NEW t \in Tasks, DrainRead(t) PROVE SpoolTypeOK'
  BY <1>3, LinesAreReadable DEF DrainRead
<1>4. ASSUME NEW t \in Tasks, Truncate(t) PROVE SpoolTypeOK'
  <2>1. /\ file' = <<>> \/ file' = file
        /\ pc' = [pc EXCEPT ![t] = IF items[t] = <<>> THEN "idle" ELSE "send"]
        /\ UNCHANGED <<link, flight, items, made, got>>
    BY <1>4 DEF Truncate
  <2>2. file' \in Seq(Pieces)
    <3>1. file \in Seq(Pieces)
      OBVIOUS
    <3>2. <<>> \in Seq(Pieces)
      OBVIOUS
    <3> QED BY <2>1, <3>1, <3>2, Zenon
  <2> QED BY <2>1, <2>2
<1>5. ASSUME NEW t \in Tasks, SendItem(t) PROVE SpoolTypeOK'
  <2>1. items[t] \in Seq(Reports) /\ items[t] # <<>>
    BY <1>5 DEF SendItem
  <2>2. /\ Head(items[t]) \in Reports /\ Tail(items[t]) \in Seq(Reports)
        /\ Len(items[t]) # 1 <=> Tail(items[t]) # <<>>
    <3>1. /\ Head(items[t]) \in Reports /\ Tail(items[t]) \in Seq(Reports)
          /\ Len(Tail(items[t])) = Len(items[t]) - 1 /\ Len(items[t]) \in Nat
      BY <2>1, ContainsTaken
    <3> HIDE DEF SpoolTypeOK
    <3>2. \A q \in Seq(Reports) : q # <<>> <=> Len(q) # 0
      OBVIOUS
    <3>3. Tail(items[t]) # <<>> <=> Len(Tail(items[t])) # 0
      BY <3>1, <3>2, Zenon
    <3>4. Len(Tail(items[t])) # 0 <=> Len(items[t]) # 1
      BY <3>1
    <3> QED BY <3>1, <3>3, <3>4
  <2>3. flight' \in Seq(Reports)
    BY <1>5, <2>2 DEF SendItem
  <2> HIDE DEF Places
  <2> QED BY <1>5, <2>1, <2>2, <2>3 DEF SendItem, Places
<1>6. ASSUME NEW t \in Tasks, SendFails(t) PROVE SpoolTypeOK'
  <2>1. items[t] \in Seq(Reports) /\ items[t] # <<>>
    BY <1>6 DEF SendFails
  <2>2. Head(items[t]) \in Reports
    BY <2>1
  <2>3. WriteLine(t, Head(items[t]), In(Tail(items[t])))
    BY <1>6 DEF SendFails
  <2>4. file' \in Seq(Pieces) /\ (pc' = [pc EXCEPT ![t] = "newline"] \/ pc' = [pc EXCEPT ![t] = "idle"])
    BY <2>2, <2>3, WriteAppends
  <2>5. items' = [items EXCEPT ![t] = <<>>] /\ UNCHANGED <<link, flight, made, got>>
    BY <1>6 DEF SendFails
  <2>6. items' \in [Tasks -> Seq(Reports)] /\ items'[t] = <<>>
    BY <2>5
  <2> QED BY <2>4, <2>5, <2>6
<1>7. CASE DrainNothing \/ Connect \/ SessionEnds
  BY <1>7 DEF DrainNothing, Connect, SessionEnds, Tasks
<1>8. CASE UNCHANGED spoolVars
  BY <1>8 DEF spoolVars
<1>11. CASE LinkDies
  BY <1>11 DEF LinkDies
<1>12. ASSUME NEW t \in Tasks, DrainFails(t) PROVE SpoolTypeOK'
  <2>1. /\ pc[t] \in {"flush", "idle"} /\ pc' = [pc EXCEPT ![t] = "idle"]
        /\ UNCHANGED <<file, link, flight, items, made, got>>
    BY <1>12 DEF DrainFails, Flushes
  <2> QED BY <2>1
<1>9. CASE Crash
  BY <1>9 DEF Crash
<1>10. CASE Deliver
  BY <1>10 DEF Deliver
<1> HIDE DEF SpoolTypeOK
<1> QED BY <1>1, <1>2, <1>3, <1>4, <1>5, <1>6, <1>7, <1>8, <1>9, <1>10, <1>11, <1>12
  DEF SpoolNext, TaskStep

LEMMA NothingLostStep ==
    ASSUME SpoolTypeOK, NothingLost, [SpoolNext]_spoolVars
    PROVE  NothingLost'
<1> SUFFICES ASSUME NEW p \in made', p \notin perilled' PROVE Safe(p)'
  BY DEF NothingLost
<1> USE DEF SpoolTypeOK
<1>0. p \in made /\ p \notin perilled => Safe(p)
  BY DEF NothingLost
<1>1. ASSUME NEW t \in Reporters, NEW q \in Reports, Report(t, q) PROVE Safe(p)'
  <2>1. /\ pc[t] = "idle" /\ t \in Tasks /\ items' = items /\ got' = got
        /\ made' = made \cup {q} /\ p \in Reports
    BY <1>1 DEF Report, Reporters, Tasks
  <2>2. CASE link = "up"
    <3>1. file' = file /\ pc' = pc /\ perilled' = perilled /\ flight' = Append(flight, q)
      BY <1>1, <2>2 DEF Report
    <3>2. \A y : Contains(flight', y) <=> Contains(flight, y) \/ q = y
      BY <3>1, ContainsAppended
    <3> HIDE DEF SpoolTypeOK
    <3> QED BY <1>0, <2>1, <3>1, <3>2 DEF Safe, InHand
  <2>3. CASE link # "up"
    <3>1. WriteLine(t, q, {}) /\ flight' = flight
      BY <1>1, <2>3 DEF Report
    <3>2. p \notin perilled /\ (p \in Readable(file) \/ p = q => p \in Readable(file'))
      BY <2>1, <3>1, WriteKeeps
    <3>3. \A u \in Tasks : u # t => pc'[u] = pc[u]
      BY <2>1, <3>1, WriteAppends
    <3> HIDE DEF SpoolTypeOK
    <3> QED BY <1>0, <2>1, <3>1, <3>2, <3>3 DEF Safe, InHand
  <2> QED BY <2>2, <2>3
<1>2. ASSUME NEW t \in Tasks, WriteNewline(t) PROVE Safe(p)'
  <2>1. /\ pc[t] = "newline" /\ pc' = [pc EXCEPT ![t] = "idle"] /\ items' = items /\ got' = got
        /\ flight' = flight /\ made' = made /\ perilled' = perilled
        /\ file' = file \/ file' = Append(file, NL)
    BY <1>2 DEF WriteNewline
  <2>2. Readable(file) \subseteq Readable(file')
    BY <2>1, ReadableNewline
  <2>3. \A u \in Tasks : InHand(u, p) => InHand(u, p)'
    BY <2>1 DEF InHand
  <2> HIDE DEF SpoolTypeOK
  <2> QED BY <1>0, <2>1, <2>2, <2>3 DEF Safe
<1>3. ASSUME NEW t \in Tasks, DrainRead(t) PROVE Safe(p)'
  <2>1. /\ pc[t] # "send" /\ pc' = [pc EXCEPT ![t] = "truncate"]
        /\ items' = [items EXCEPT ![t] = Lines(file)]
        /\ got' = got /\ flight' = flight /\ made' = made /\ perilled' = perilled /\ file' = file
    BY <1>3 DEF DrainRead, Flushes
  <2>2. \A u \in Tasks : InHand(u, p) => InHand(u, p)'
    BY <2>1 DEF InHand
  <2> HIDE DEF SpoolTypeOK
  <2> QED BY <1>0, <2>1, <2>2 DEF Safe
<1>4. ASSUME NEW t \in Tasks, Truncate(t) PROVE Safe(p)'
  <2>1. /\ p \in made /\ p \in Reports /\ p \notin perilled
        /\ got' = got /\ flight' = flight /\ items' = items /\ pc[t] = "truncate"
        /\ pc' = [pc EXCEPT ![t] = IF items[t] = <<>> THEN "idle" ELSE "send"]
        /\ file' = file \/ perilled' = perilled \cup (In(file) \ In(items[t]))
    BY <1>4 DEF Truncate
  <2>2. \A u \in Tasks : InHand(u, p) => InHand(u, p)'
    BY <2>1 DEF InHand
  <2>3. ASSUME p \in Readable(file), file' # file PROVE InHand(t, p)'
    <3>1. Contains(file, p)
      BY <2>3, ReadableStands
    <3>2. Contains(items[t], p)
      BY <2>1, <2>3, <3>1 DEF In
    <3>3. items[t] # <<>>
      BY <3>2 DEF Contains
    <3> QED BY <2>1, <3>2, <3>3 DEF InHand
  <2> HIDE DEF SpoolTypeOK
  <2> QED BY <1>0, <2>1, <2>2, <2>3 DEF Safe
<1>5. ASSUME NEW t \in Tasks, SendItem(t) PROVE Safe(p)'
  <2>1. /\ items[t] \in Seq(Reports) /\ items[t] # <<>> /\ p \in Reports
        /\ made' = made /\ perilled' = perilled /\ got' = got /\ file' = file
        /\ flight' = Append(flight, Head(items[t])) /\ items' = [items EXCEPT ![t] = Tail(items[t])]
        /\ pc' = [pc EXCEPT ![t] = IF Len(items[t]) = 1 THEN "idle" ELSE "send"]
    BY <1>5 DEF SendItem
  <2>2. /\ Len(Tail(items[t])) = Len(items[t]) - 1 /\ Len(items[t]) \in Nat
        /\ Contains(items[t], p) <=> Head(items[t]) = p \/ Contains(Tail(items[t]), p)
    BY <2>1, ContainsTaken
  <2>3. Contains(flight', p) <=> Contains(flight, p) \/ Head(items[t]) = p
    BY <2>1, ContainsAppended
  <2>4. ASSUME NEW u \in Tasks, InHand(u, p), p # Head(items[t]) PROVE InHand(u, p)'
    <3>1. CASE u # t
      BY <2>1, <2>4, <3>1 DEF InHand
    <3>2. CASE u = t
      <4>1. Contains(Tail(items[t]), p)
        BY <2>2, <2>4, <3>2 DEF InHand
      <4>2. Len(items[t]) # 1
        <5>1. Len(Tail(items[t])) # 0
          BY <4>1 DEF Contains
        <5> QED BY <2>2, <5>1
      <4> QED BY <2>1, <2>4, <3>2, <4>1, <4>2 DEF InHand
    <3> QED BY <3>1, <3>2
  <2> HIDE DEF SpoolTypeOK
  <2> QED BY <1>0, <2>1, <2>3, <2>4 DEF Safe
<1>6. ASSUME NEW t \in Tasks, SendFails(t) PROVE Safe(p)'
  <2>1. /\ items[t] \in Seq(Reports) /\ items[t] # <<>> /\ p \in Reports /\ p \in made
        /\ got' = got /\ flight' = flight /\ items' = [items EXCEPT ![t] = <<>>]
        /\ WriteLine(t, Head(items[t]), In(Tail(items[t])))
    BY <1>6 DEF SendFails
  <2>2. /\ Head(items[t]) \in Reports
        /\ Contains(items[t], p) <=> Head(items[t]) = p \/ Contains(Tail(items[t]), p)
    BY <2>1, ContainsTaken
  <2>3. /\ p \notin perilled /\ p \notin In(Tail(items[t]))
        /\ p \in Readable(file) \/ p = Head(items[t]) => p \in Readable(file')
    BY <2>1, <2>2, WriteKeeps
  <2>4. Contains(items[t], p) => p \in Readable(file')
    BY <2>1, <2>2, <2>3 DEF In
  <2>5. \A u \in Tasks : u # t => pc'[u] = pc[u] /\ items'[u] = items[u]
    BY <2>1, <2>2, WriteAppends
  <2> HIDE DEF SpoolTypeOK
  <2> QED BY <1>0, <2>1, <2>3, <2>4, <2>5 DEF Safe, InHand
<1>7. CASE DrainNothing \/ Connect \/ SessionEnds \/ UNCHANGED spoolVars \/ \E t \in Tasks : DrainFails(t)
  <2>1. /\ made' = made /\ got' = got /\ file' = file /\ perilled' = perilled
        /\ items' = items /\ flight' = flight
    BY <1>7 DEF DrainNothing, Connect, SessionEnds, DrainFails, spoolVars
  <2>2. \A u \in Tasks : InHand(u, p) => InHand(u, p)'
    BY <1>7 DEF DrainNothing, Connect, SessionEnds, DrainFails, Flushes, spoolVars, InHand
  <2> HIDE DEF SpoolTypeOK
  <2> QED BY <1>0, <2>1, <2>2 DEF Safe
<1>8. CASE LinkDies
  <2>1. /\ made' = made /\ got' = got /\ file' = file /\ items' = items /\ pc' = pc
        /\ perilled' = perilled \cup In(flight) /\ p \in Reports
    BY <1>8 DEF LinkDies
  <2> HIDE DEF SpoolTypeOK
  <2> QED BY <1>0, <2>1 DEF Safe, InHand, In
<1>9. CASE Crash
  <2>1. /\ made' = made /\ got' = got /\ file' = file /\ p \in Reports
        /\ p \notin perilled /\ ~Contains(flight, p) /\ \A t \in Tasks : ~InHand(t, p)
    BY <1>9 DEF Crash, In, InHand
  <2> HIDE DEF SpoolTypeOK
  <2> QED BY <1>0, <2>1 DEF Safe
<1>10. CASE Deliver
  <2>1. /\ flight \in Seq(Reports) /\ flight # <<>> /\ p \in Reports
        /\ made' = made /\ file' = file /\ items' = items /\ pc' = pc /\ perilled' = perilled
        /\ got' = [got EXCEPT ![Head(flight)] = @ + 1] /\ flight' = Tail(flight)
    BY <1>10 DEF Deliver
  <2>2. /\ Head(flight) \in Reports
        /\ Contains(flight, p) <=> Head(flight) = p \/ Contains(Tail(flight), p)
    BY <2>1, ContainsTaken
  <2>3. got[p] > 0 \/ p = Head(flight) => got'[p] > 0
    BY <2>1, <2>2
  <2> HIDE DEF SpoolTypeOK
  <2> QED BY <1>0, <2>1, <2>2, <2>3 DEF Safe, InHand
<1> QED BY <1>1, <1>2, <1>3, <1>4, <1>5, <1>6, <1>7, <1>8, <1>9, <1>10 DEF SpoolNext, TaskStep

LEMMA NothingRepeatedStep ==
    ASSUME SpoolTypeOK, NothingRepeated, [SpoolNext]_spoolVars
    PROVE  NothingRepeated'
<1> SUFFICES ASSUME NEW p \in Reports, p \notin reread' PROVE OnePlace(p)'
  BY DEF NothingRepeated
<1>0. p \notin reread => OnePlace(p)
  BY DEF NothingRepeated
<1> HIDE DEF NothingRepeated
<1> USE DEF SpoolTypeOK
\* What enqueue writes of a report that is nowhere else, or in no hand but the task's.
<1>a. ASSUME NEW t \in Tasks, NEW q \in Reports, NEW cut, WriteLine(t, q, cut), OnePlace(p),
             got' = got, flight' = flight, p \in made \cup {q} => p \in made',
             ~Contains(items'[t], q), \A u \in Tasks : u # t => items'[u] = items[u],
             items'[t] \in {items[t], <<>>},
             p = q => ~Away(p) /\ ~Contains(file, p) /\ \A u \in Tasks : Contains(items[u], p) => u = t
      PROVE  OnePlace(p)'
  <2>1. /\ Contains(file', p) => Contains(file, p) \/ p = q
        /\ Once(file', p)
        /\ \A u \in Tasks : pc'[u] \in {"truncate", "send"} => pc'[u] = pc[u] /\ u # t
    BY <1>a, WriteAppends DEF OnePlace
  <2> HIDE DEF SpoolTypeOK
  <2>2. \A u \in Tasks : Contains(items'[u], p) => Contains(items[u], p) /\ (p = q => u # t)
    BY <1>a, NothingIn
  <2>3. \A u \in Tasks : Once(items'[u], p)
    BY <1>a, NothingIn DEF OnePlace
  <2>4. ~Away(p)' \/ (Away(p) /\ p # q)
    BY <1>a DEF Away
  <2>5. \A u \in Tasks : ~(p = q /\ Contains(items'[u], p))
    BY <1>a, <2>2
  <2> QED BY <1>a, <2>1, <2>2, <2>3, <2>4, <2>5 DEF OnePlace, Held, InHand, Away
<1>1. ASSUME NEW t \in Reporters, NEW r \in Reports, Report(t, r) PROVE OnePlace(p)'
  <2>1. /\ pc[t] = "idle" /\ t \in Tasks /\ r \notin made /\ made' = made \cup {r}
        /\ items' = items /\ got' = got /\ OnePlace(p)
    BY <1>0, <1>1 DEF Report, Reporters, Tasks
  <2>2. p = r => ~Away(p) /\ ~Contains(file, p) /\ ~Held(p)
    BY <2>1 DEF OnePlace
  <2>3. CASE link = "up"
    <3>1. file' = file /\ pc' = pc /\ flight' = Append(flight, r)
      BY <1>1, <2>3 DEF Report
    <3>2. Contains(flight', p) <=> Contains(flight, p) \/ r = p
      BY <3>1, ContainsAppended
    <3>3. Once(flight', p)
      BY <2>1, <2>2, <3>1, OnceAppended DEF OnePlace, Away
    <3>4. got[p] \in Nat
      OBVIOUS
    <3> HIDE DEF SpoolTypeOK
    <3> QED BY <2>1, <2>2, <3>1, <3>2, <3>3, <3>4 DEF OnePlace, Away, Held, InHand
  <2>4. CASE link # "up"
    <3>1. WriteLine(t, r, {}) /\ flight' = flight
      BY <1>1, <2>4 DEF Report
    <3>2. items[t] = <<>>
      BY <2>1
    <3> HIDE DEF SpoolTypeOK
    <3> QED BY <1>a, <2>1, <2>2, <3>1, <3>2, NothingIn DEF Held
  <2> QED BY <2>3, <2>4
<1>2. ASSUME NEW t \in Tasks, WriteNewline(t) PROVE OnePlace(p)'
  <2>1. /\ file' = file \/ file' = Append(file, NL)
        /\ pc' = [pc EXCEPT ![t] = "idle"] /\ flight' = flight
        /\ items' = items /\ got' = got /\ made' = made /\ OnePlace(p)
    BY <1>0, <1>2 DEF WriteNewline
  <2>2. (Contains(file', p) <=> Contains(file, p)) /\ Once(file', p)
    <3>1. p # NL /\ file \in Seq(Pieces) /\ Once(file, p)
      BY <2>1, SpoolAssumption DEF OnePlace
    <3> HIDE DEF SpoolTypeOK
    <3>2. (Contains(Append(file, NL), p) <=> Contains(file, p)) /\ Once(Append(file, NL), p)
      BY <3>1, OnceAppended, ContainsAppended
    <3> QED BY <2>1, <3>1, <3>2
  <2>4. \A u \in Tasks : pc'[u] = "send" => pc[u] = "send"
    BY <2>1
  <2> HIDE DEF SpoolTypeOK
  <2> QED BY <2>1, <2>2, <2>4 DEF OnePlace, Away, Held, InHand
<1>3. ASSUME NEW t \in Tasks, DrainRead(t) PROVE OnePlace(p)'
  <2>1. /\ file' = file /\ got' = got /\ made' = made /\ flight' = flight
        /\ items' = [items EXCEPT ![t] = Lines(file)]
        /\ pc' = [pc EXCEPT ![t] = "truncate"]
        /\ p \notin ReadTwice(t) /\ OnePlace(p)
    BY <1>0, <1>3 DEF DrainRead
  <2>2. /\ Once(Lines(file), p)
        /\ Contains(Lines(file), p) => Contains(file, p)
    BY <2>1, LinesAreReadable, ReadableStands DEF OnePlace
  <2>3. /\ items'[t] = Lines(file) /\ pc'[t] = "truncate"
        /\ \A u \in Tasks : u # t => items'[u] = items[u] /\ pc'[u] = pc[u]
    BY <2>1
  <2>4. ASSUME NEW u \in Tasks \ {t}, Contains(Lines(file), p) PROVE ~Contains(items[u], p)
    <3>1. pc[u] = "truncate" => ~Contains(items[u], p)
      BY <2>1, <2>4 DEF ReadTwice, In
    <3>2. pc[u] = "send" => ~Contains(items[u], p)
      BY <2>1, <2>2, <2>4 DEF OnePlace, InHand
    <3>3. pc[u] \notin {"truncate", "send"} => items[u] = <<>>
      BY DEF SpoolTypeOK
    <3> QED BY <3>1, <3>2, <3>3, NothingIn
  <2> HIDE DEF SpoolTypeOK
  <2> QED BY <2>1, <2>2, <2>3, <2>4 DEF OnePlace, Away, Held, InHand
<1>4. ASSUME NEW t \in Tasks, Truncate(t) PROVE OnePlace(p)'
  <2>1. /\ pc[t] = "truncate" /\ \A u \in Tasks : u # t => pc'[u] = pc[u]
        /\ items' = items /\ got' = got /\ made' = made /\ flight' = flight
        /\ file' = <<>> \/ (file' = file /\ reread' = reread \cup (In(file) \cap In(items[t])))
        /\ OnePlace(p)
    BY <1>0, <1>4 DEF Truncate
  <2> HIDE DEF SpoolTypeOK
  <2>2. Once(file', p) /\ (Contains(file', p) => Contains(file, p) /\ file' = file)
    BY <2>1, NothingIn DEF OnePlace
  <2>3. file' = file => ~(Contains(file, p) /\ Contains(items[t], p))
    BY <2>1, NothingIn DEF In
  <2> QED BY <2>1, <2>2, <2>3 DEF OnePlace, Away, Held, InHand
<1>5. ASSUME NEW t \in Tasks, SendItem(t) PROVE OnePlace(p)'
  <2>0. PICK r : r = Head(items[t])
    OBVIOUS
  <2>1. /\ pc[t] = "send" /\ file' = file /\ made' = made /\ got' = got
        /\ items' = [items EXCEPT ![t] = Tail(items[t])] /\ flight' = Append(flight, r)
        /\ \A u \in Tasks : u # t => pc'[u] = pc[u]
        /\ items[t] \in Seq(Reports) /\ items[t] # <<>>
        /\ OnePlace(p)
    BY <1>0, <1>5, <2>0 DEF SendItem
  <2>2. /\ r \in Reports
        /\ Contains(items[t], p) <=> r = p \/ Contains(Tail(items[t]), p)
    BY <2>0, <2>1, ContainsTaken
  <2>3. /\ items'[t] = Tail(items[t]) /\ \A u \in Tasks : u # t => items'[u] = items[u]
    BY <2>1
  <2>4. Once(Tail(items[t]), p) /\ (r = p => ~Contains(Tail(items[t]), p))
    BY <2>0, <2>1, OnceTaken DEF OnePlace
  <2>5. r = p => InHand(t, p) /\ Held(p) /\ ~Contains(flight, p) /\ ~(got[p] > 0)
    BY <2>1, <2>2 DEF OnePlace, InHand, Held, Away
  <2>6. Contains(flight', p) <=> Contains(flight, p) \/ r = p
    BY <2>1, ContainsAppended
  <2>7. Once(flight', p)
    BY <2>1, <2>5, OnceAppended DEF OnePlace
  <2>8. got[p] \in Nat
    OBVIOUS
  <2> HIDE DEF SpoolTypeOK
  <2>9. r = p => \A u \in Tasks : ~Contains(items'[u], p)
    BY <2>1, <2>2, <2>3, <2>4 DEF OnePlace
  <2>10. \A u \in Tasks : Contains(items'[u], p) => Contains(items[u], p)
    BY <2>2, <2>3
  <2>11. \A u \in Tasks : InHand(u, p)' => InHand(u, p)
    BY <2>1, <2>10 DEF InHand
  <2>12. \A u \in Tasks : Once(items'[u], p)
    BY <2>1, <2>3, <2>4 DEF OnePlace
  <2>13. r = p => ~Contains(file, p)
    BY <2>1, <2>5 DEF OnePlace
  <2> QED BY <2>1, <2>5, <2>6, <2>7, <2>8, <2>9, <2>10, <2>11, <2>12, <2>13 DEF OnePlace, Away, Held
<1>6. ASSUME NEW t \in Tasks, SendFails(t) PROVE OnePlace(p)'
  <2>0. PICK r : r = Head(items[t])
    OBVIOUS
  <2>1. /\ pc[t] = "send" /\ made' = made /\ flight' = flight /\ got' = got
        /\ items' = [items EXCEPT ![t] = <<>>]
        /\ items[t] \in Seq(Reports) /\ items[t] # <<>>
        /\ WriteLine(t, r, In(Tail(items[t])))
        /\ OnePlace(p)
    BY <1>0, <1>6, <2>0 DEF SendFails
  <2>2. r \in Reports /\ Contains(items[t], r)
    BY <2>0, <2>1, ContainsTaken
  <2>3. items'[t] = <<>> /\ \A u \in Tasks : u # t => items'[u] = items[u]
    BY <2>1
  <2> HIDE DEF SpoolTypeOK
  <2>4. p = r => ~Away(p) /\ ~Contains(file, p) /\ p \in made /\ \A u \in Tasks : Contains(items[u], p) => u = t
    BY <2>1, <2>2 DEF OnePlace, InHand, Held
  <2> QED BY <1>a, <2>1, <2>2, <2>3, <2>4, NothingIn
<1>7. CASE DrainNothing \/ Connect \/ SessionEnds \/ UNCHANGED spoolVars \/ \E t \in Tasks : DrainFails(t)
  <2>1. /\ made' = made /\ got' = got /\ file' = file /\ items' = items /\ flight' = flight /\ OnePlace(p)
        /\ \A u \in Tasks : pc'[u] = "send" => pc[u] = "send"
    BY <1>0, <1>7 DEF DrainNothing, Connect, SessionEnds, DrainFails, spoolVars
  <2> HIDE DEF SpoolTypeOK
  <2> QED BY <2>1 DEF OnePlace, Away, Held, InHand
<1>8. CASE LinkDies \/ Crash
  <2>1. /\ made' = made /\ got' = got /\ file' = file /\ flight' = <<>> /\ OnePlace(p)
        /\ (items' = items /\ pc' = pc) \/ \A u \in Tasks : items'[u] = <<>>
    BY <1>0, <1>8 DEF LinkDies, Crash
  <2> HIDE DEF SpoolTypeOK
  <2> QED BY <2>1, NothingIn DEF OnePlace, Away, Held, InHand
<1>9. CASE Deliver
  <2>1. /\ flight \in Seq(Reports) /\ flight # <<>>
        /\ made' = made /\ file' = file /\ items' = items /\ pc' = pc
        /\ got' = [got EXCEPT ![Head(flight)] = @ + 1] /\ flight' = Tail(flight)
        /\ OnePlace(p)
    BY <1>0, <1>9 DEF Deliver
  <2>2. /\ Head(flight) \in Reports
        /\ Contains(flight, p) <=> Head(flight) = p \/ Contains(Tail(flight), p)
    BY <2>1, ContainsTaken
  <2>3. Once(Tail(flight), p) /\ (Head(flight) = p => ~Contains(Tail(flight), p))
    BY <2>1, OnceTaken DEF OnePlace
  <2>4. IF p = Head(flight) THEN got[p] = 0 /\ got'[p] = 1 ELSE got'[p] = got[p]
    BY <2>1, <2>2 DEF OnePlace
  <2> HIDE DEF SpoolTypeOK
  <2> QED BY <2>1, <2>2, <2>3, <2>4 DEF OnePlace, Away, Held, InHand
<1> QED BY <1>1, <1>2, <1>3, <1>4, <1>5, <1>6, <1>7, <1>8, <1>9 DEF SpoolNext, TaskStep

LEMMA SpoolInvariant == SpoolSpec => []SpoolInv
<1>1. SpoolInv /\ [SpoolNext]_spoolVars => SpoolInv'
  BY SpoolTypeStep, NothingLostStep, NothingRepeatedStep DEF SpoolInv
<1> QED BY SpoolStarts, <1>1, PTL DEF SpoolSpec

\* A report that was handed in is lost only if a drain truncated it because it was
\* appended after the read, two appends stood in one line, a failed send dropped it,
\* the process died with it in hand, enqueue failed or the stream died under it:
\* whatever the reports, the interleavings of the three tasks, the reconnects, the
\* restarts and the failures of the file.
THEOREM LossesHaveCauses == SpoolSpec => []LossHasCause
<1>1. SpoolInv => LossHasCause
  BY DEF SpoolInv, NothingLost, Safe, InHand, LossHasCause, Kept
<1> QED BY <1>1, SpoolInvariant, PTL

\* A report reaches the center twice only if two drains read it before either
\* truncated the file, or if the file could not be truncated: no reconnect, failed
\* send or restart of the node repeats it.
THEOREM RepeatsHaveCauses == SpoolSpec => []RepeatHasCause
<1>1. SpoolInv => RepeatHasCause
  BY DEF SpoolInv, NothingRepeated, OnePlace, RepeatHasCause
<1> QED BY <1>1, SpoolInvariant, PTL

(***************************************************************************)
(* Minutes                                                                 *)
(***************************************************************************)
LEMMA MinuteOrder ==
    ASSUME NEW a \in Nat, NEW b \in Nat
    PROVE  /\ Minute(a) \in Nat /\ (a <= b => Minute(a) <= Minute(b))
BY DEF Minute

\* Whether a cron expression names a time depends on the minute alone.
LEMMA CronReadsMinutes ==
    ASSUME NEW a \in Nat, NEW b \in Nat, Minute(a) = Minute(b), NEW cron
    PROVE  CronMatches(cron, a) <=> CronMatches(cron, b)
<1>1. a \div 86400 = Minute(a) \div 1440
  BY DEF Minute
<1>2. b \div 86400 = Minute(b) \div 1440
  BY DEF Minute
<1>3. (a % 3600) \div 60 = Minute(a) % 60
  BY DEF Minute
<1>4. (b % 3600) \div 60 = Minute(b) % 60
  BY DEF Minute
<1>5. (a % 86400) \div 3600 = (Minute(a) % 1440) \div 60
  BY DEF Minute
<1>6. (b % 86400) \div 3600 = (Minute(b) % 1440) \div 60
  BY DEF Minute
<1>7. UtcParts(a) = UtcParts(b)
  BY <1>1, <1>2, <1>3, <1>4, <1>5, <1>6 DEF UtcParts
<1> QED BY <1>7 DEF CronMatches

(***************************************************************************)
(* The invariant of the scheduler                                          *)
(***************************************************************************)
Faults == {"clock", "report", "panic", "hang", "stop"}

SchedTypeOK ==
    /\ now \in Nat /\ now >= Start
    /\ config \in Configs \cup {NoConfig}
    /\ last \in [Specs -> Nat]
    /\ owed \in Nat
    /\ queue \in Seq([spec : Specs, minute : Nat])
    /\ fired \in [Specs -> SUBSET Nat]
    /\ idle \in Nat /\ settled \in Nat
    /\ troubles \in Seq(Faults)

NoTrouble(whats) == \A what \in whats : ~Contains(troubles, what)

\* s is executed for the minute m, or going to be.
Queued(s, m) == \E j \in DOMAIN queue : queue[j].spec = s /\ queue[j].minute = m
Taken(s, m) == m \in fired[s] \/ Queued(s, m)

\* What is executed or going to be was noted at its minute or later: a spec is noted
\* before it runs, and a note is never set back.
NotedFirst ==
    \A s \in Specs : \A m \in Nat :
        Taken(s, m) => last[s] # Never /\ m <= Minute(last[s])

\* What is noted is executed or going to be, unless a report failed or the task ended.
NotesRun ==
    NoTrouble({"report", "panic"}) =>
        \A s \in Specs :
            last[s] # Never => Taken(s, Minute(last[s]))

\* No note lies in the future unless the clock was set back.
NotesPast == NoTrouble({"clock"}) => idle <= Minute(now) /\ \A s \in Specs : last[s] <= now

\* In a minute in which the scheduler was idle, and which began under this config, it
\* either owes a tick that nothing keeps it from, or has looked at the schedules.
MinuteCovered ==
    NoTrouble({"clock", "report", "panic", "hang"}) /\ settled < Minute(now) /\ idle = Minute(now) =>
        \/ queue = <<>> /\ owed > 0
        \/ \A s \in config.specs : \A i \in Entries(s) :
              CronMatches(config.schedules[i].cron, now) =>
                  Taken(s, Minute(now))

SchedInv == SchedTypeOK /\ NotedFirst /\ NotesRun /\ NotesPast /\ MinuteCovered

LEMMA SchedStarts == Init => SchedInv
<1> SUFFICES ASSUME Init PROVE SchedInv
  OBVIOUS
<1>1. SchedTypeOK
  BY SchedulerAssumption DEF Init, SchedTypeOK, Never, Minute
<1>2. \A s, m : ~Queued(s, m)
  BY DEF Init, Queued
<1>3. NotedFirst /\ NotesRun
  BY <1>2 DEF Init, NotedFirst, NotesRun, Taken
<1>4. NotesPast
  BY SchedulerAssumption DEF Init, NotesPast, Never, Minute
<1>5. MinuteCovered
  BY SchedulerAssumption DEF Init, MinuteCovered
<1> QED BY <1>1, <1>3, <1>4, <1>5 DEF SchedInv

LEMMA ConfigWellFormed ==
    ASSUME SchedTypeOK
    PROVE  WellFormed(config)
<1>1. WellFormed(NoConfig)
  BY DEF WellFormed, NoConfig
<1> QED BY <1>1, SchedulerAssumption DEF SchedTypeOK

\* What is selected is a schedule of the config that is due, and notes go forward.
LEMMA SelectedIsDue ==
    ASSUME SchedTypeOK, NEW i \in Selected
    PROVE  /\ i \in 1..Len(config.schedules)
           /\ config.schedules[i].spec \in Specs \cap config.specs
           /\ config.schedules[i].enabled
           /\ ScheduleDue(config.schedules[i], last[config.schedules[i].spec], now)
           /\ last[config.schedules[i].spec] <= now
<1> DEFINE s == config.schedules[i]
<1>1. /\ i \in 1..Len(config.schedules) /\ s.spec \in Specs /\ s.interval \in Nat \cup {NoInterval}
      /\ s.spec \in config.specs /\ s.enabled /\ ScheduleDue(s, last[s.spec], now)
  BY ConfigWellFormed DEF WellFormed, Selected, DueSpecs
<1>2. last[s.spec] \in Nat /\ now \in Nat
  BY <1>1 DEF SchedTypeOK
<1> HIDE DEF s
<1>3. ASSUME IntervalDue(s, last[s.spec], now) PROVE last[s.spec] <= now
  BY <1>1, <1>2, <1>3 DEF IntervalDue, NoInterval
<1>4. ASSUME CronDue(s, last[s.spec], now) PROVE last[s.spec] <= now
  <2>1. ~(now <= last[s.spec] /\ Minute(now) > Minute(last[s.spec]))
    BY <1>2, MinuteOrder
  <2> QED BY <1>2, <1>4, <2>1 DEF CronDue, Never
<1> QED BY <1>1, <1>3, <1>4 DEF ScheduleDue, s

\* A tick queues what it selected, for this minute, and nothing else.
LEMMA TickQueues ==
    ASSUME SchedTypeOK, Tick
    PROVE  /\ queue' \in Seq([spec : Specs, minute : Nat])
           /\ \A k \in DOMAIN queue' :
                 /\ queue'[k].minute = Minute(now)
                 /\ \E i \in Selected : queue'[k].spec = config.schedules[i].spec
           /\ \A i \in Selected : \E k \in DOMAIN queue' :
                 /\ queue'[k].spec = config.schedules[i].spec
                 /\ queue'[k].minute = Minute(now)
<1> DEFINE q == config.schedules
           due == Subsequence(q, Selected)
<1>1. queue' = [k \in DOMAIN due |-> [spec |-> due[k].spec, minute |-> Minute(now)]]
  BY DEF Tick
<1>2. Selected \in SUBSET (1..Len(q)) /\ Len(q) \in Nat /\ \A i \in Selected : q[i].spec \in Specs
  BY SelectedIsDue, ConfigWellFormed DEF WellFormed
<1>3. PICK c, nth : Picks(q, Selected, c, nth)
  BY <1>2, SubsequencePicks
<1>4. /\ c \in Nat /\ nth \in Bijection(1..c, Selected)
      /\ due = [k \in 1..c |-> q[nth[k]]]
  BY <1>3 DEF Picks
<1>5. /\ \A k \in 1..c : nth[k] \in Selected
      /\ \A i \in Selected : \E k \in 1..c : nth[k] = i
  BY <1>4 DEF Bijection, Injection, Surjection
<1>6. Minute(now) \in Nat
  BY MinuteOrder DEF SchedTypeOK
<1> HIDE DEF q, due
<1>7. queue' = [k \in 1..c |-> [spec |-> q[nth[k]].spec, minute |-> Minute(now)]]
  BY <1>1, <1>4
<1>8. queue' \in Seq([spec : Specs, minute : Nat])
  <2>1. \A k \in 1..c : [spec |-> q[nth[k]].spec, minute |-> Minute(now)] \in [spec : Specs, minute : Nat]
    BY <1>2, <1>5, <1>6
  <2> QED BY <1>4, <1>7, <2>1
<1>9. ASSUME NEW i \in Selected
      PROVE  \E k \in DOMAIN queue' : queue'[k].spec = q[i].spec /\ queue'[k].minute = Minute(now)
  BY <1>5, <1>7
<1> QED BY <1>5, <1>7, <1>8, <1>9 DEF q

LEMMA HeadAndTail ==
    ASSUME NEW S, NEW q \in Seq(S), q # <<>>
    PROVE  /\ Len(q) \in Nat \ {0} /\ 1 \in DOMAIN q /\ Head(q) = q[1] /\ q[1] \in S
           /\ Tail(q) \in Seq(S) /\ Len(Tail(q)) = Len(q) - 1
           /\ \A j \in 1..Len(q) - 1 : Tail(q)[j] = q[j + 1]
<1>1. Len(q) \in Nat \ {0}
  OBVIOUS
<1> QED BY <1>1

\* What is selected is noted at this time, whatever was noted of it before.
LEMMA TickNotes ==
    ASSUME SchedTypeOK, Tick
    PROVE  /\ last' \in [Specs -> Nat]
           /\ \A s \in Specs :
                 \/ last'[s] = last[s] /\ \A i \in Selected : config.schedules[i].spec # s
                 \/ /\ last'[s] = now /\ last[s] <= now
                    /\ \E i \in Selected : config.schedules[i].spec = s
<1>1. last' = Marked(Selected)
  BY DEF Tick
<1>2. \A i \in Selected : last[config.schedules[i].spec] <= now
  BY SelectedIsDue
<1> QED BY <1>1, <1>2 DEF Marked, SchedTypeOK

\* The head of the queue is executed and leaves the queue: nothing is lost by it.
LEMMA ExecuteTakes ==
    ASSUME SchedTypeOK, queue # <<>>, RanHead, queue' = Tail(queue)
    PROVE  /\ queue' \in Seq([spec : Specs, minute : Nat]) /\ fired' \in [Specs -> SUBSET Nat]
           /\ \A s \in Specs : \A m \in Nat : Taken(s, m)' <=> Taken(s, m)
<1>1. /\ queue \in Seq([spec : Specs, minute : Nat]) /\ Len(queue) \in Nat \ {0}
      /\ Head(queue) = queue[1] /\ queue[1] \in [spec : Specs, minute : Nat]
      /\ queue' \in Seq([spec : Specs, minute : Nat]) /\ Len(queue') = Len(queue) - 1
      /\ \A j \in 1..Len(queue) - 1 : queue'[j] = queue[j + 1]
  BY HeadAndTail DEF SchedTypeOK
<1>2. /\ fired' \in [Specs -> SUBSET Nat]
      /\ \A s \in Specs : \A m : m \in fired'[s] <=>
             m \in fired[s] \/ (s = queue[1].spec /\ m = queue[1].minute)
  <2>1. PICK spec \in Specs, minute \in Nat : queue[1].spec = spec /\ queue[1].minute = minute
    BY <1>1
  <2>2. fired' = [fired EXCEPT ![spec] = @ \cup {minute}]
    BY <1>1, <2>1 DEF RanHead
  <2> QED BY <2>1, <2>2 DEF SchedTypeOK
<1>3. ASSUME NEW s, NEW m PROVE Queued(s, m) <=> (queue[1].spec = s /\ queue[1].minute = m) \/ Queued(s, m)'
  <2>1. CASE Queued(s, m)
    <3>1. PICK j \in 1..Len(queue) : queue[j].spec = s /\ queue[j].minute = m
      BY <1>1, <2>1 DEF Queued
    <3>2. j # 1 => j - 1 \in DOMAIN queue' /\ queue'[j - 1] = queue[j]
      BY <1>1
    <3> QED BY <2>1, <3>1, <3>2 DEF Queued
  <2>2. CASE (queue[1].spec = s /\ queue[1].minute = m) \/ Queued(s, m)'
    BY <1>1, <2>2 DEF Queued
  <2> QED BY <2>1, <2>2
<1> QED BY <1>1, <1>2, <1>3 DEF Taken

\* Where the queue is dropped, nothing is executed that was not queued.
LEMMA DropTakes ==
    ASSUME SchedTypeOK, queue # <<>>, RanHead, queue' = <<>>
    PROVE  /\ fired' \in [Specs -> SUBSET Nat]
           /\ \A s \in Specs : \A m \in Nat : Taken(s, m)' => Taken(s, m)
<1>1. Head(queue) = queue[1] /\ queue[1] \in [spec : Specs, minute : Nat] /\ 1 \in DOMAIN queue
  BY HeadAndTail DEF SchedTypeOK
<1>2. /\ fired' \in [Specs -> SUBSET Nat]
      /\ \A s \in Specs : \A m : m \in fired'[s] =>
             m \in fired[s] \/ (s = queue[1].spec /\ m = queue[1].minute)
  <2>1. PICK spec \in Specs, minute \in Nat : queue[1].spec = spec /\ queue[1].minute = minute
    BY <1>1
  <2>2. fired' = [fired EXCEPT ![spec] = @ \cup {minute}]
    BY <1>1, <2>1 DEF RanHead
  <2> QED BY <2>1, <2>2 DEF SchedTypeOK
<1>3. \A s, m : ~Queued(s, m)'
  BY DEF Queued
<1> QED BY <1>1, <1>2, <1>3 DEF Taken, Queued

LEMMA TroublesStay ==
    ASSUME SchedTypeOK, NEW what \in Faults, Trouble(what)
    PROVE  /\ troubles' \in Seq(Faults)
           /\ \A whats : NoTrouble(whats)' => NoTrouble(whats) /\ what \notin whats
<1>1. \A y : Contains(troubles', y) <=> Contains(troubles, y) \/ what = y
  BY ContainsAppended DEF Trouble, SchedTypeOK
<1> QED BY <1>1 DEF NoTrouble, Trouble, SchedTypeOK

LEMMA SchedTypeStep ==
    ASSUME SchedTypeOK, [Next]_schedVars
    PROVE  SchedTypeOK'
<1> USE DEF SchedTypeOK
<1>0. /\ Minute(now) \in Nat /\ Step \in Nat \ {0} /\ now + Step \in Nat
      /\ Minute(now + Step) \in Nat /\ now + Step >= Start
      /\ "panic" \in Faults /\ "report" \in Faults /\ "clock" \in Faults /\ "stop" \in Faults
      /\ "hang" \in Faults
  <2>1. Step \in Nat \ {0} /\ Start \in Nat
    BY SchedulerAssumption
  <2>2. now + Step \in Nat /\ now + Step >= Start
    BY <2>1
  <2> QED BY <2>1, <2>2, MinuteOrder DEF Faults
<1>1. CASE Tick
  BY <1>0, <1>1, TickQueues, TickNotes DEF Tick
<1>2. CASE Execute
  BY <1>2, ExecuteTakes DEF Execute
<1>3. CASE Panic \/ ReportFails
  <2>1. /\ queue # <<>> /\ RanHead /\ queue' = <<>> /\ \E what \in Faults : Trouble(what)
        /\ UNCHANGED <<now, config, last, owed, idle, settled>>
    BY <1>0, <1>3 DEF Panic, ReportFails
  <2>2. fired' \in [Specs -> SUBSET Nat]
    BY <2>1, DropTakes
  <2>3. troubles' \in Seq(Faults)
    BY <2>1, TroublesStay
  <2> QED BY <2>1, <2>2, <2>3
<1>4. CASE Pass
  BY <1>0, <1>4 DEF Pass
<1>5. CASE Stop
  BY <1>0, <1>5, TroublesStay DEF Stop, Boot, Never
<1>6. ASSUME NEW c \in Configs, ApplyConfig(c) PROVE SchedTypeOK'
  BY <1>0, <1>6 DEF ApplyConfig
<1>7. ASSUME NEW n \in {Step, 60}, SetBack(n) PROVE SchedTypeOK'
  <2>1. now - n >= Start /\ now' = now - n /\ n \in Nat /\ Start \in Nat
    BY <1>0, <1>7, SchedulerAssumption DEF SetBack
  <2>2. now' \in Nat /\ now' >= Start
    BY <2>1
  <2>3. troubles' \in Seq(Faults)
    BY <1>0, <1>7, TroublesStay DEF SetBack
  <2> QED BY <1>7, <2>2, <2>3 DEF SetBack
<1>8. CASE Hang
  BY <1>0, <1>8, TroublesStay DEF Hang
<1>9. CASE UNCHANGED schedVars
  BY <1>9 DEF schedVars
<1> HIDE DEF SchedTypeOK
<1> QED BY <1>1, <1>2, <1>3, <1>4, <1>5, <1>6, <1>7, <1>8, <1>9 DEF Next

\* A step other than a tick, an execution, a drop or a restart leaves what is noted,
\* queued and executed as it is.
Elsewhere == Pass \/ Hang \/ (\E c \in Configs : ApplyConfig(c)) \/ (\E n \in {Step, 60} : SetBack(n))
             \/ UNCHANGED schedVars

LEMMA ElsewhereKeeps ==
    ASSUME SchedTypeOK, Elsewhere
    PROVE  /\ last' = last /\ queue' = queue /\ fired' = fired
           /\ \A s, m : Taken(s, m)' <=> Taken(s, m)
           /\ \A whats : NoTrouble(whats)' => NoTrouble(whats)
<1>1. last' = last /\ queue' = queue /\ fired' = fired
  BY DEF Elsewhere, Pass, Hang, ApplyConfig, SetBack, schedVars
<1>2. \A whats : NoTrouble(whats)' => NoTrouble(whats)
  <2>1. CASE \E n \in {Step, 60} : SetBack(n)
    BY <2>1, TroublesStay DEF SetBack, Faults
  <2>2. CASE Hang
    BY <2>2, TroublesStay DEF Hang, Faults
  <2>3. CASE troubles' = troubles
    BY <2>3 DEF NoTrouble
  <2> QED BY <2>1, <2>2, <2>3 DEF Elsewhere, Pass, ApplyConfig, schedVars
<1> QED BY <1>1, <1>2 DEF Taken, Queued

LEMMA BootTakesNothing ==
    ASSUME SchedTypeOK, Stop
    PROVE  \A s \in Specs : last'[s] = Never /\ \A m : ~Taken(s, m)'
BY DEF Stop, Boot, Taken, Queued

\* A tick looks at the schedules with nothing queued, so what is taken after it was
\* executed before or is selected, and what is selected is taken.
LEMMA TickTakes ==
    ASSUME SchedTypeOK, Tick
    PROVE  \A s \in Specs : \A m \in Nat :
               Taken(s, m)' <=>
                   \/ Taken(s, m)
                   \/ m = Minute(now) /\ \E i \in Selected : config.schedules[i].spec = s
<1>1. queue = <<>> /\ fired' = fired
  BY DEF Tick, CanTick
<1>2. ASSUME NEW s \in Specs, NEW m \in Nat
      PROVE  Queued(s, m)' <=> m = Minute(now) /\ \E i \in Selected : config.schedules[i].spec = s
  BY TickQueues DEF Queued
<1>3. \A s, m : ~Queued(s, m)
  BY <1>1 DEF Queued
<1> QED BY <1>1, <1>2, <1>3 DEF Taken

LEMMA NotedFirstStep ==
    ASSUME SchedTypeOK, NotedFirst, [Next]_schedVars
    PROVE  NotedFirst'
<1> SUFFICES ASSUME NEW s \in Specs, NEW m \in Nat, Taken(s, m)'
             PROVE  (last[s] # Never /\ m <= Minute(last[s]))'
  BY DEF NotedFirst
<1>0. Taken(s, m) => last[s] # Never /\ m <= Minute(last[s])
  BY DEF NotedFirst
<1>1. CASE Tick
  <2>1. now \in Nat /\ now # Never /\ last[s] \in Nat
    BY SchedulerAssumption DEF SchedTypeOK, Never
  <2>2. last[s] <= now => Minute(last[s]) <= Minute(now)
    BY <2>1, MinuteOrder
  <2>3. Minute(last[s]) \in Nat /\ Minute(now) \in Nat
    BY <2>1, MinuteOrder
  <2>4. last'[s] = last[s] \/ (last'[s] = now /\ last[s] <= now)
    BY <1>1, TickNotes
  <2>5. CASE Taken(s, m)
    BY <1>0, <2>1, <2>2, <2>3, <2>4, <2>5
  <2>6. CASE m = Minute(now) /\ \E i \in Selected : config.schedules[i].spec = s
    <3>1. last'[s] = now
      BY <1>1, <2>6, TickNotes
    <3> QED BY <2>1, <2>3, <2>6, <3>1
  <2> QED BY <1>1, <2>5, <2>6, TickTakes
<1>2. CASE Execute
  BY <1>0, <1>2, ExecuteTakes DEF Execute
<1>3. CASE Panic \/ ReportFails
  BY <1>0, <1>3, DropTakes DEF Panic, ReportFails
<1>4. CASE Stop
  BY <1>4, BootTakesNothing
<1>5. CASE Elsewhere
  BY <1>0, <1>5, ElsewhereKeeps
<1> QED BY <1>1, <1>2, <1>3, <1>4, <1>5 DEF Next, Elsewhere

LEMMA NotesRunStep ==
    ASSUME SchedTypeOK, NotesRun, [Next]_schedVars
    PROVE  NotesRun'
<1> DEFINE whats == {"report", "panic"}
<1> SUFFICES ASSUME NoTrouble(whats)', NEW s \in Specs, (last[s] # Never)'
             PROVE  Taken(s, Minute(last[s]))'
  BY DEF NotesRun
<1>0. NoTrouble(whats) /\ last[s] # Never => Taken(s, Minute(last[s]))
  BY DEF NotesRun
<1> HIDE DEF whats
<1>a. \A t : t \in Nat => Minute(t) \in Nat
  BY MinuteOrder
<1>b. last[s] \in Nat /\ now \in Nat
  BY DEF SchedTypeOK
<1>1. CASE Tick
  <2>1. NoTrouble(whats)
    BY <1>1 DEF Tick, NoTrouble
  <2>2. CASE last'[s] = last[s]
    <3>1. PICK m \in Nat : m = Minute(last[s]) /\ m = Minute(last'[s]) /\ Taken(s, m)
      BY <1>0, <1>a, <1>b, <2>1, <2>2
    <3>2. Taken(s, m)'
      BY <1>1, <3>1, TickTakes
    <3> QED BY <3>1, <3>2
  <2>3. CASE last'[s] = now /\ \E i \in Selected : config.schedules[i].spec = s
    <3>1. PICK m \in Nat : m = Minute(now) /\ m = Minute(last'[s])
      BY <1>a, <1>b, <2>3
    <3>2. Taken(s, m)'
      BY <1>1, <2>3, <3>1, TickTakes
    <3> QED BY <3>1, <3>2
  <2> QED BY <1>1, <2>2, <2>3, TickNotes
<1>2. CASE Execute
  <2>1. NoTrouble(whats) /\ last' = last
    BY <1>2 DEF Execute, NoTrouble
  <2>2. PICK m \in Nat : m = Minute(last[s]) /\ m = Minute(last'[s]) /\ Taken(s, m)
    BY <1>0, <1>a, <1>b, <2>1
  <2>3. Taken(s, m)'
    BY <1>2, <2>2, ExecuteTakes DEF Execute
  <2> QED BY <2>2, <2>3
<1>3. CASE Panic \/ ReportFails
  BY <1>3, TroublesStay DEF Panic, ReportFails, whats, Faults
<1>4. CASE Stop
  BY <1>4, BootTakesNothing
<1>5. CASE Elsewhere
  <2>1. NoTrouble(whats) /\ last' = last
    BY <1>5, ElsewhereKeeps
  <2>2. PICK m \in Nat : m = Minute(last[s]) /\ m = Minute(last'[s]) /\ Taken(s, m)
    BY <1>0, <1>a, <1>b, <2>1
  <2>3. Taken(s, m)'
    BY <1>5, <2>2, ElsewhereKeeps
  <2> QED BY <2>2, <2>3
<1> QED BY <1>1, <1>2, <1>3, <1>4, <1>5 DEF Next, Elsewhere

LEMMA NotesPastStep ==
    ASSUME SchedTypeOK, NotesPast, [Next]_schedVars
    PROVE  NotesPast'
<1> SUFFICES ASSUME NoTrouble({"clock"})'
             PROVE  (idle <= Minute(now) /\ \A s \in Specs : last[s] <= now)'
  BY DEF NotesPast
<1>0. NoTrouble({"clock"}) => idle <= Minute(now) /\ \A s \in Specs : last[s] <= now
  BY DEF NotesPast
<1>a. /\ now \in Nat /\ idle \in Nat /\ Minute(now) \in Nat
      /\ \A s \in Specs : last[s] \in Nat
  BY MinuteOrder DEF SchedTypeOK
<1>1. CASE Tick
  <2>1. NoTrouble({"clock"}) /\ now' = now /\ idle' = Minute(now)
    BY <1>1 DEF Tick, NoTrouble
  <2>2. \A s \in Specs : last'[s] <= now
    BY <1>0, <1>1, <1>a, <2>1, TickNotes
  <2> QED BY <1>a, <2>1, <2>2
<1>2. CASE Execute
  BY <1>0, <1>2 DEF Execute, NoTrouble
<1>3. CASE Panic \/ ReportFails
  <2>1. NoTrouble({"clock"})
    BY <1>3, TroublesStay DEF Panic, ReportFails, Faults
  <2> QED BY <1>0, <1>3, <2>1 DEF Panic, ReportFails
<1>4. CASE Pass
  <2>1. NoTrouble({"clock"}) /\ now' = now + Step /\ last' = last /\ idle' \in {idle, Minute(now + Step)}
    BY <1>4 DEF Pass, NoTrouble
  <2>2. Step \in Nat /\ now + Step \in Nat /\ now <= now + Step
    BY <1>a, SchedulerAssumption
  <2>3. Minute(now) <= Minute(now + Step) /\ Minute(now + Step) \in Nat
    BY <1>a, <2>2, MinuteOrder
  <2>4. \A s \in Specs : last[s] <= now + Step
    BY <1>0, <1>a, <2>1, <2>2
  <2> QED BY <1>0, <1>a, <2>1, <2>3, <2>4
<1>5. CASE Stop
  <2>1. \A s \in Specs : last'[s] = 0
    BY <1>5, BootTakesNothing DEF Never
  <2>2. now' = now /\ idle' = Minute(now)
    BY <1>5 DEF Stop
  <2> QED BY <1>a, <2>1, <2>2
<1>6. ASSUME NEW c \in Configs, ApplyConfig(c) PROVE (idle <= Minute(now) /\ \A s \in Specs : last[s] <= now)'
  BY <1>0, <1>6 DEF ApplyConfig, NoTrouble
<1>7. ASSUME NEW n \in {Step, 60}, SetBack(n) PROVE FALSE
  BY <1>7, TroublesStay DEF SetBack, Faults
<1>8. CASE Hang
  <2>1. NoTrouble({"clock"})
    BY <1>8, TroublesStay DEF Hang, Faults
  <2> QED BY <1>0, <1>8, <2>1 DEF Hang
<1>9. CASE UNCHANGED schedVars
  BY <1>0, <1>9 DEF schedVars, NoTrouble
<1> QED BY <1>1, <1>2, <1>3, <1>4, <1>5, <1>6, <1>7, <1>8, <1>9 DEF Next

\* A tick takes, for its minute, every spec that a cron schedule names in it: the
\* ones it selects, and the others were noted in this minute and have been executed.
LEMMA TickCovers ==
    ASSUME SchedTypeOK, NotesRun, NotesPast, Tick, NoTrouble({"clock", "report", "panic", "hang"}),
           NEW s \in config.specs, NEW i \in Entries(s), CronMatches(config.schedules[i].cron, now)
    PROVE  s \in Specs /\ Taken(s, Minute(now))'
<1>1. /\ i \in DOMAIN config.schedules /\ config.schedules[i].spec = s /\ s \in Specs
      /\ config.schedules[i].enabled
  BY ConfigWellFormed DEF Entries, WellFormed
<1>2. PICK m \in Nat : m = Minute(now) /\ now' = now
  BY <1>1, MinuteOrder DEF Tick, SchedTypeOK
<1>3. CASE i \in Selected
  BY <1>1, <1>2, <1>3, TickTakes
<1>4. CASE i \notin Selected
  <2>1. ~CronDue(config.schedules[i], last[s], now)
    BY <1>1, <1>4 DEF Selected, DueSpecs, ScheduleDue
  <2>2. last[s] # Never /\ ~(Minute(now) > Minute(last[s]))
    BY <2>1 DEF CronDue
  <2>3. NoTrouble({"clock"}) /\ NoTrouble({"report", "panic"})
    BY DEF NoTrouble
  <2>4. last[s] \in Nat /\ now \in Nat /\ last[s] <= now
    BY <1>1, <2>3 DEF NotesPast, SchedTypeOK
  <2>5. Minute(last[s]) = m
    BY <1>2, <2>2, <2>4, MinuteOrder
  <2>6. Taken(s, m)
    BY <1>1, <2>2, <2>3, <2>5 DEF NotesRun
  <2> QED BY <1>1, <1>2, <2>6, TickTakes
<1> QED BY <1>3, <1>4

LEMMA MinuteCoveredStep ==
    ASSUME SchedTypeOK, NotesRun, NotesPast, MinuteCovered, [Next]_schedVars
    PROVE  MinuteCovered'
<1> DEFINE whats == {"clock", "report", "panic", "hang"}
<1> SUFFICES ASSUME NoTrouble(whats)', (settled < Minute(now))', (idle = Minute(now))',
                    ~(queue' = <<>> /\ owed' > 0),
                    NEW s \in config'.specs, NEW i \in Entries(s)',
                    CronMatches(config.schedules[i].cron, now)'
             PROVE  Taken(s, Minute(now))'
  BY DEF MinuteCovered
<1>a. now \in Nat /\ settled \in Nat /\ idle \in Nat /\ Minute(now) \in Nat
  BY MinuteOrder DEF SchedTypeOK
<1>0. \/ ~NoTrouble(whats) \/ ~(settled < Minute(now)) \/ idle # Minute(now)
      \/ queue = <<>> /\ owed > 0
      \/ \A r \in config.specs : \A j \in Entries(r) :
            CronMatches(config.schedules[j].cron, now) => Taken(r, Minute(now))
  BY DEF MinuteCovered
<1> HIDE DEF whats
<1>b. config' = config => s \in config.specs /\ s \in Specs /\ i \in Entries(s)
  BY ConfigWellFormed DEF Entries, WellFormed
<1>1. CASE Tick
  <2>1. NoTrouble(whats) /\ config' = config /\ now' = now
    BY <1>1 DEF Tick, NoTrouble
  <2> QED BY <1>1, <1>b, <2>1, TickCovers DEF whats
<1>2. CASE Execute
  <2>1. /\ NoTrouble(whats) /\ config' = config /\ now' = now /\ settled' = settled /\ idle' = idle
        /\ queue # <<>>
    BY <1>2 DEF Execute, NoTrouble
  <2>2. Taken(s, Minute(now))
    BY <1>0, <1>b, <2>1
  <2>3. PICK m \in Nat : m = Minute(now)
    BY <1>a
  <2> QED BY <1>2, <1>b, <2>1, <2>2, <2>3, ExecuteTakes DEF Execute
<1>3. CASE Panic \/ ReportFails
  BY <1>3, TroublesStay DEF Panic, ReportFails, whats, Faults
<1>4. CASE Pass
  <2>1. /\ NoTrouble(whats) /\ config' = config /\ now' = now + Step /\ settled' = settled
        /\ owed' > 0 /\ queue' = queue /\ queue # <<>> /\ idle' = idle
    BY <1>4 DEF Pass, NoTrouble, SchedTypeOK
  <2>2. now' \in Nat /\ now <= now'
    BY <1>a, <2>1, SchedulerAssumption
  <2>3. idle <= Minute(now)
    BY <2>1 DEF NotesPast, NoTrouble, whats
  <2>4. Minute(now') = Minute(now)
    BY <1>a, <2>1, <2>2, <2>3, MinuteOrder
  <2>5. CronMatches(config.schedules[i].cron, now)
    BY <1>a, <2>1, <2>2, <2>4, CronReadsMinutes
  <2>6. Taken(s, Minute(now))
    BY <1>0, <1>b, <2>1, <2>4, <2>5
  <2>7. PICK m \in Nat : m = Minute(now) /\ m = Minute(now')
    BY <1>a, <2>4
  <2> QED BY <1>4, <2>6, <2>7, ElsewhereKeeps DEF Elsewhere
<1>5. CASE Stop \/ \E c \in Configs : ApplyConfig(c)
  <2>1. settled' = Minute(now) /\ now' = now
    BY <1>5 DEF Stop, Boot, ApplyConfig
  <2> QED BY <1>a, <2>1
<1>6. ASSUME NEW n \in {Step, 60}, SetBack(n) PROVE FALSE
  BY <1>6, TroublesStay DEF SetBack, Faults, whats
<1>7. CASE Hang
  BY <1>7, TroublesStay DEF Hang, whats, Faults
<1>8. CASE UNCHANGED schedVars
  <2>1. NoTrouble(whats) /\ config' = config /\ now' = now /\ settled' = settled /\ idle' = idle
        /\ queue' = queue /\ owed' = owed
    BY <1>8 DEF schedVars, NoTrouble
  <2>2. Taken(s, Minute(now))
    BY <1>0, <1>b, <2>1
  <2>3. PICK m \in Nat : m = Minute(now)
    BY <1>a
  <2> QED BY <1>8, <2>1, <2>2, <2>3, ElsewhereKeeps DEF Elsewhere
<1> QED BY <1>1, <1>2, <1>3, <1>4, <1>5, <1>6, <1>7, <1>8 DEF Next

LEMMA SchedInvariant == Spec => []SchedInv
<1>1. SchedInv /\ [Next]_schedVars => SchedInv'
  BY SchedTypeStep, NotedFirstStep, NotesRunStep, NotesPastStep, MinuteCoveredStep DEF SchedInv
<1> QED BY SchedStarts, <1>1, PTL DEF Spec

\* A spec with cron schedules alone is not selected for a minute for which it was
\* executed: for all configs, hosts, tick intervals and clocks set back.
THEOREM CronRunsOncePerMinute == Spec => OncePerMinute
<1>1. ASSUME SchedInv, [Next]_schedVars, queue = <<>>, NEW k \in DOMAIN queue',
             CronOnly(queue'[k].spec)
      PROVE  queue'[k].minute \notin fired[queue'[k].spec]
  <2>1. Tick
    BY <1>1 DEF Next, Execute, Panic, Hang, ReportFails, Pass, Stop, Boot, ApplyConfig, SetBack, schedVars
  <2>2. PICK i \in Selected : queue'[k].spec = config.schedules[i].spec /\ queue'[k].minute = Minute(now)
    BY <1>1, <2>1, TickQueues DEF SchedInv
  <2> DEFINE s == config.schedules[i].spec
  <2>3. i \in Entries(s) /\ s \in Specs /\ ScheduleDue(config.schedules[i], last[s], now)
    BY <1>1, SelectedIsDue DEF SchedInv, Entries
  <2>4. CronDue(config.schedules[i], last[s], now)
    BY <1>1, <2>2, <2>3 DEF CronOnly, ScheduleDue, IntervalDue
  <2>5. last[s] \in Nat /\ now \in Nat /\ Minute(last[s]) \in Nat /\ Minute(now) \in Nat
    BY <1>1, <2>3, MinuteOrder DEF SchedInv, SchedTypeOK
  <2>6. Minute(now) \in fired[s] => last[s] # Never /\ Minute(now) <= Minute(last[s])
    BY <1>1, <2>3, <2>5 DEF SchedInv, NotedFirst, Taken
  <2> QED BY <2>2, <2>4, <2>5, <2>6 DEF CronDue
<1>2. SchedInv /\ [Next]_schedVars =>
          (queue = <<>> => \A i \in DOMAIN queue' :
              CronOnly(queue'[i].spec) => queue'[i].minute \notin fired[queue'[i].spec])
  BY <1>1
<1> QED BY <1>2, SchedInvariant, PTL DEF Spec, OncePerMinute

\* A minute that a cron schedule names does not end without the spec being taken for
\* it, unless the config came in it, the scheduler was executing all the while, the
\* clock was set back, a report failed, the scheduler ended or is held, or it lies between two
\* ticks more than a minute apart: for every period of the ticks.
THEOREM MissesHaveCauses == Spec => MissedHasCause
<1> DEFINE Covered ==
        \A s \in config.specs : \A i \in Entries(s) : \A m \in Minute(now) .. Minute(now') - 1 :
            CronMatches(config.schedules[i].cron, 60 * m) =>
                \/ m \in fired[s]
                \/ \E j \in DOMAIN queue : queue[j].spec = s /\ queue[j].minute = m
                \/ Step > 60 /\ m > Minute(now)
           Undisturbed ==
        /\ \A what \in {"clock", "report", "panic", "hang"} : ~Contains(troubles, what)
        /\ settled < Minute(now) /\ idle = Minute(now)
<1>1. ASSUME SchedInv, [Next]_schedVars, Minute(now') > Minute(now), Undisturbed
      PROVE  Covered
  <2>1. now \in Nat /\ Minute(now) \in Nat /\ now >= Start /\ owed \in Nat
    BY <1>1, MinuteOrder DEF SchedInv, SchedTypeOK
  <2>2. \A n \in {Step, 60} : ~SetBack(n)
    <3> SUFFICES ASSUME NEW n \in {Step, 60}, SetBack(n) PROVE FALSE
      OBVIOUS
    <3>1. now' \in Nat /\ now' <= now
      BY <2>1, SchedulerAssumption DEF SetBack
    <3>2. Minute(now') <= Minute(now) /\ Minute(now') \in Nat
      BY <2>1, <3>1, MinuteOrder
    <3> QED BY <1>1, <2>1, <3>2
  <2>3. now' # now
    BY <1>1, <2>1
  <2>4. Pass
    BY <1>1, <2>2, <2>3 DEF Next, Tick, Execute, Panic, Hang, ReportFails, Stop, ApplyConfig, schedVars
  <2>5. ~Gone
    BY <1>1 DEF Gone, Contains, SchedInv, SchedTypeOK
  <2>6. ~(queue = <<>> /\ owed > 0)
    BY <2>4, <2>5 DEF Pass, CanTick
  <2>7. MinuteCovered /\ NoTrouble({"clock", "report", "panic", "hang"})
    BY <1>1 DEF SchedInv, NoTrouble
  <2>8. Step \in Nat /\ now' = now + Step
    BY <2>4, SchedulerAssumption DEF Pass
  <2>9. \A m \in Minute(now) .. Minute(now') - 1 : m = Minute(now) \/ (Step > 60 /\ m > Minute(now))
    BY <2>1, <2>8 DEF Minute
  <2>10. \A cron : CronMatches(cron, 60 * Minute(now)) => CronMatches(cron, now)
    <3>1. 60 * Minute(now) \in Nat /\ Minute(60 * Minute(now)) = Minute(now)
      BY <2>1 DEF Minute
    <3> QED BY <2>1, <3>1, CronReadsMinutes
  <2> QED BY <1>1, <2>6, <2>7, <2>9, <2>10 DEF MinuteCovered, Taken, Queued
<1>2. SchedInv /\ [Next]_schedVars => (Minute(now') > Minute(now) /\ Undisturbed => Covered)
  BY <1>1
<1>3. Spec => [][Minute(now') > Minute(now) /\ Undisturbed => Covered]_schedVars
  <2> HIDE DEF Undisturbed, Covered
  <2> QED BY <1>2, SchedInvariant, PTL DEF Spec
<1>4. (Minute(now') > Minute(now) /\ Undisturbed => Covered) <=>
      (Minute(now') > Minute(now)
       /\ (\A what \in {"clock", "report", "panic", "hang"} : ~Contains(troubles, what))
       /\ settled < Minute(now) /\ idle = Minute(now) => Covered)
  BY Zenon
<1> QED BY <1>3, <1>4, PTL DEF MissedHasCause
=============================================================================
