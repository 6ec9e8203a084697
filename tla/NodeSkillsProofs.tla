--------------------------- MODULE NodeSkillsProofs ---------------------------
(***************************************************************************)
(* The skills of a node: what its host runs and saved is in its store, as  *)
(* SkillSet promises; what the center accepted runs, as its own module and *)
(* for its whole time but for the causes that SkillRun names, for any      *)
(* skills, sets, stops and mishaps, and for any packages and timeouts.     *)
(***************************************************************************)
EXTENDS SkillHost, SkillRun, FiniteSetTheorems, SequenceTheorems, TLAPS

(***************************************************************************)
(* SkillHost                                                               *)
(***************************************************************************)
Skills == [Names -> Skill]
Jobs == [gen : Nat, want : [Names -> VersOrNone], active : Skills, left : SUBSET Names,
         failed : SUBSET Names, cur : Names \cup {0}, tries : Nat, bytes : {"good", "altered"},
         drop : SUBSET Vers]

Installing == {"try", "failed", "fetch", "hung", "verify", "seal", "place"}

TypeOK ==
    /\ store \in [Names -> [Vers -> StoreStates]]
    /\ file \in [gen : Nat, skills : Skills]
    /\ mem \in [gen : Nat, seen : Nat, skills : Skills, failed : SUBSET Names]
    /\ pc \in Installing \cup {"idle", "next", "drop", "switch", "down"}
    /\ job \in Jobs
    /\ damaged \subseteq Names \X Vers
    /\ unsaved \in Nat

\* Until a skill is placed, the copy that reconcile works on has of it what the host
\* has; after that, the wanted version or the one it had.
JobFits ==
    /\ pc \in {"idle", "down"} => job = NoJob
    /\ pc = "down" => mem = Stopped
    /\ pc \notin {"idle", "down"} =>
           /\ job.gen > 0
           /\ \A n \in Names :
                 job.active[n].ver \in IF job.want[n] = None THEN {None} ELSE {job.want[n], mem.skills[n].ver}
    /\ \A n \in job.left : job.want[n] # None /\ job.active[n] = mem.skills[n]
    /\ pc \in Installing \cup {"drop"} => job.cur \in Names \ job.left
    /\ pc \in Installing => job.want[job.cur] # None /\ job.active[job.cur] = mem.skills[job.cur]

Whole(n, v) == store[n][v] = "good" \/ <<n, v>> \in damaged
InStore(skills) == \A n \in Names : skills[n].ver # None => Whole(n, skills[n].ver)

StoreFits ==
    /\ \A n \in Names, v \in Vers : store[n][v] = "altered" => <<n, v>> \in damaged
    /\ InStore(mem.skills) /\ InStore(job.active) /\ SavedInStore

\* A package is fetched only if there is none, what is sealed is good, and what is
\* dropped is not in use.
PackageFits ==
    /\ pc \in {"fetch", "verify", "seal"} => store[Cur][Ver] \in {"none", "bare"}
    /\ pc = "seal" => job.bytes = "good"
    /\ pc = "place" => Whole(Cur, Ver) \/ store[Cur][Ver] = "thin"
    /\ pc = "drop" =>
           /\ mem.skills[Cur].ver \notin job.drop /\ job.active[Cur].ver \notin job.drop
           /\ file.skills[Cur].ver \notin job.drop \/ unsaved >= Keep

\* The saved version of a skill is what it runs, or among the last k it ran, or no
\* longer one that a trim could drop.
Recent(s, k, v) ==
    v # s.ver =>
        \A i \in 1..Len(s.prev) : s.prev[i] = v => \E j \in 1..Len(s.prev) : s.prev[j] = v /\ j <= k

AllRecent(skills, k) == \A n \in Names : Recent(skills[n], k, file.skills[n].ver)

\* Each set that is applied without being saved takes it one place back.
SavedIsRecent ==
    /\ pc \notin {"down", "switch"} => AllRecent(mem.skills, unsaved) /\ AllRecent(job.active, unsaved + 1)
    /\ pc = "switch" => AllRecent(job.active, unsaved)

HInv == TypeOK /\ JobFits /\ StoreFits /\ PackageFits /\ SavedIsRecent

LEMMA NoVersion == None \notin Vers /\ None \in VersOrNone /\ Vers \subseteq VersOrNone /\ VersOrNone = Vers \cup {None}
BY HostAssumption DEF None, Vers, VersOrNone

LEMMA NothingYet ==
    /\ Off \in Skill /\ Off.ver = None /\ Off.prev = <<>> /\ Len(Off.prev) = 0
    /\ NoSkills \in Skills /\ \A n \in Names : NoSkills[n] = Off
    /\ NoJob \in Jobs
    /\ Stopped \in [gen : Nat, seen : Nat, skills : Skills, failed : SUBSET Names]
<1>1. Off \in Skill /\ Off.ver = None /\ Off.prev = <<>> /\ Len(Off.prev) = 0
  BY NoVersion DEF Off, Skill
<1>2. NoSkills \in Skills /\ \A n \in Names : NoSkills[n] = Off
  BY <1>1 DEF NoSkills, Skills
<1>3. NoJob \in Jobs
  BY <1>2, NoVersion DEF NoJob, Jobs
<1>4. Stopped \in [gen : Nat, seen : Nat, skills : Skills, failed : SUBSET Names]
  BY <1>2 DEF Stopped
<1> QED BY <1>1, <1>2, <1>3, <1>4

LEMMA InitH == Init => HInv
<1> SUFFICES ASSUME Init PROVE HInv
  OBVIOUS
<1>1. TypeOK
  BY NothingYet DEF Init, TypeOK, StoreStates
<1>2. JobFits
  BY DEF Init, JobFits, NoJob, Installing
<1>3. InStore(NoSkills)
  BY NothingYet DEF InStore
<1>4. StoreFits
  BY <1>3, NothingYet DEF Init, StoreFits, SavedInStore, Stopped, NoJob
<1>5. PackageFits
  BY DEF Init, PackageFits
<1>6. \A k \in Nat : AllRecent(NoSkills, k)
  BY NothingYet DEF AllRecent, Recent
<1>7. mem.skills = NoSkills /\ job.active = NoSkills /\ unsaved = 0 /\ pc = "idle"
  BY DEF Init, Stopped, NoJob
<1>8. SavedIsRecent
  BY <1>6, <1>7 DEF SavedIsRecent
<1> QED BY <1>1, <1>2, <1>4, <1>5, <1>8 DEF HInv

-----------------------------------------------------------------------------
\* The steps of an install before it changes the store
LEMMA InstallKeeps ==
    ASSUME HInv, pc \in Installing, UNCHANGED <<store, file, mem, damaged, unsaved>>, job' \in Jobs,
           job'.gen = job.gen, job'.want = job.want, job'.active = job.active, job'.left = job.left,
           job'.cur = job.cur, pc' \in Installing \cup {"next"},
           pc' = "seal" => job'.bytes = "good",
           pc' \in {"fetch", "verify", "seal"} => store[Cur][Ver] \in {"none", "bare"},
           pc' = "place" => (Whole(Cur, Ver) \/ store[Cur][Ver] = "thin")
    PROVE  HInv'
<1> USE DEF HInv
<1>1. TypeOK'
  BY DEF TypeOK
<1>2. JobFits'
  BY DEF JobFits, Installing
<1>3. StoreFits'
  BY DEF StoreFits, InStore, Whole, SavedInStore
<1>4. PackageFits'
  BY DEF PackageFits, Cur, Ver, Whole, Installing
<1>5. pc \notin {"down", "switch"} /\ pc' \notin {"down", "switch"}
  BY DEF Installing
<1>6. SavedIsRecent'
  BY <1>5 DEF SavedIsRecent, AllRecent
<1> QED BY <1>1, <1>2, <1>3, <1>4, <1>6

LEMMA GivesUp ==
    ASSUME job \in Jobs, job.cur \in Names, GiveUp
    PROVE  /\ pc' = "next" /\ job' \in Jobs /\ job'.gen = job.gen /\ job'.want = job.want
           /\ job'.active = job.active /\ job'.left = job.left /\ job'.cur = job.cur
BY DEF GiveUp, Jobs, Cur

LEMMA TryH == ASSUME HInv, Try PROVE HInv'
<1>1. /\ pc = "try" /\ pc \in Installing /\ job \in Jobs /\ job.cur \in Names /\ Ver \in Vers
      /\ store[Cur][Ver] \in StoreStates
      /\ store[Cur][Ver] = "altered" => <<Cur, Ver>> \in damaged
  <2>1. pc = "try" /\ pc \in Installing /\ TypeOK /\ JobFits /\ StoreFits
    BY DEF HInv, Try, Installing
  <2>2. job \in Jobs /\ job.cur \in Names /\ job.want[job.cur] # None
    BY <2>1 DEF TypeOK, JobFits
  <2>3. Ver \in Vers
    BY <2>2, NoVersion DEF Ver, Jobs
  <2> QED BY <2>1, <2>2, <2>3 DEF TypeOK, StoreFits, Cur
<1>2. UNCHANGED <<store, file, mem, damaged, unsaved>>
  BY DEF Try
<1>3. CASE GiveUp
  BY <1>1, <1>2, <1>3, GivesUp, InstallKeeps
<1>4. CASE Attempt /\ job' = [job EXCEPT !.tries = @ + 1]
  <2>1. job' = [job EXCEPT !.tries = @ + 1]
    BY <1>4
  <2>2. /\ job' \in Jobs /\ job'.gen = job.gen /\ job'.want = job.want /\ job'.active = job.active
        /\ job'.left = job.left /\ job'.cur = job.cur
    BY <1>1, <2>1 DEF Jobs
  <2>3. /\ pc' \in {"failed", "place", "fetch"}
        /\ pc' = "place" => store[Cur][Ver] \in {"good", "altered", "thin"}
        /\ pc' = "fetch" => store[Cur][Ver] \in {"none", "bare"}
    BY <1>1, <1>4 DEF Attempt, Verified, StoreStates
  <2>4. pc' = "place" => Whole(Cur, Ver) \/ store[Cur][Ver] = "thin"
    BY <1>1, <2>3 DEF Whole
  <2>5. pc' \in Installing
    BY <2>3 DEF Installing
  <2> QED BY <1>1, <1>2, <2>2, <2>3, <2>4, <2>5, InstallKeeps
<1> QED BY <1>3, <1>4 DEF Try, Refused

LEMMA RetryH == ASSUME HInv, Retry PROVE HInv'
<1>1. pc \in Installing /\ job \in Jobs /\ job.cur \in Names
  BY DEF HInv, TypeOK, JobFits, Retry, Installing
<1>2. UNCHANGED <<store, file, mem, damaged, unsaved>>
  BY DEF Retry
<1>3. CASE GiveUp
  BY <1>1, <1>2, <1>3, GivesUp, InstallKeeps
<1>4. CASE pc' = "try" /\ UNCHANGED job
  <2>1. pc' \in Installing
    BY <1>4 DEF Installing
  <2> QED BY <1>1, <1>2, <1>4, <2>1, InstallKeeps
<1> QED BY <1>3, <1>4 DEF Retry

\* A package of the right digest is opened and goes on to be sealed, or never will be.
LEMMA OpenH ==
    ASSUME HInv, pc \in {"fetch", "verify"}, Open("good"), UNCHANGED <<store, file, mem, damaged, unsaved>>
    PROVE  HInv'
<1>1. pc \in Installing /\ job \in Jobs /\ job.cur \in Names /\ store[Cur][Ver] \in {"none", "bare"}
  BY DEF HInv, TypeOK, JobFits, PackageFits, Installing
<1>2. CASE GiveUp
  BY <1>1, <1>2, GivesUp, InstallKeeps
<1>3. CASE pc' = "seal" /\ job' = [job EXCEPT !.bytes = "good"]
  <2>1. /\ job' \in Jobs /\ job'.gen = job.gen /\ job'.want = job.want /\ job'.active = job.active
        /\ job'.left = job.left /\ job'.cur = job.cur /\ job'.bytes = "good"
    BY <1>1, <1>3 DEF Jobs
  <2>2. pc' \in Installing
    BY <1>3 DEF Installing
  <2> QED BY <1>1, <1>3, <2>1, <2>2, InstallKeeps
<1> QED BY <1>2, <1>3 DEF Open

LEMMA FetchesH == ASSUME HInv, Fetch \/ Hang \/ Resume \/ Verify PROVE HInv'
<1>1. UNCHANGED <<store, file, mem, damaged, unsaved>> /\ pc \in {"fetch", "verify"}
  BY DEF Fetch, Hang, Resume, Verify
<1>2. pc \in Installing /\ job \in Jobs /\ store[Cur][Ver] \in {"none", "bare"}
  BY <1>1 DEF HInv, TypeOK, PackageFits, Installing
<1>3. CASE Open("good")
  BY <1>1, <1>3, OpenH
<1>4. CASE pc' \in {"verify", "failed", "hung"} /\ UNCHANGED job
  <2>1. pc' \in Installing
    BY <1>4 DEF Installing
  <2> QED BY <1>1, <1>2, <1>4, <2>1, InstallKeeps
<1> QED BY <1>3, <1>4 DEF Fetch, Hang, Resume, Verify

-----------------------------------------------------------------------------
\* The steps that change the store
LEMMA SealH == ASSUME HInv, Seal PROVE HInv'
<1>1. /\ pc = "seal" /\ pc \in Installing /\ job \in Jobs /\ job.cur \in Names /\ Ver \in Vers
      /\ TypeOK /\ JobFits /\ StoreFits /\ PackageFits /\ SavedIsRecent /\ job.bytes = "good"
      /\ store[Cur][Ver] \in {"none", "bare"}
  <2>1. pc = "seal" /\ pc \in Installing /\ TypeOK /\ JobFits /\ PackageFits
    BY DEF HInv, Seal, Installing
  <2>2. job \in Jobs /\ job.cur \in Names /\ job.want[job.cur] # None
    BY <2>1 DEF TypeOK, JobFits
  <2>3. Ver \in Vers
    BY <2>2, NoVersion DEF Ver, Jobs
  <2> QED BY <2>1, <2>2, <2>3 DEF HInv, PackageFits
<1>2. PICK b \in StoreStates \ {"altered"} :
          /\ store' = [store EXCEPT ![Cur][Ver] = b]
          /\ \/ b = "good" /\ damaged' = damaged \ {<<Cur, Ver>>} /\ pc' = "place" /\ job' = job
             \/ damaged' = damaged /\ GiveUp
  <2>1. Rests("good") \cup {"none", store[Cur][Ver]} \subseteq StoreStates \ {"altered"}
    BY <1>1 DEF Rests, StoreStates
  <2>2. "good" \in StoreStates \ {"altered"}
    BY DEF StoreStates
  <2> QED BY <1>1, <2>1, <2>2 DEF Seal
<1>3. UNCHANGED <<file, mem, unsaved>>
  BY DEF Seal
<1>4. /\ job' \in Jobs /\ job'.gen = job.gen /\ job'.want = job.want /\ job'.active = job.active
      /\ job'.left = job.left /\ job'.cur = job.cur /\ pc' \in {"place", "next"}
      /\ damaged' \subseteq damaged
  BY <1>1, <1>2, GivesUp
<1>5. /\ \A n \in Names, v \in Vers : <<n, v>> # <<Cur, Ver>> =>
             store'[n][v] = store[n][v] /\ (<<n, v>> \in damaged' <=> <<n, v>> \in damaged)
      /\ store'[Cur][Ver] = b
      /\ store' \in [Names -> [Vers -> StoreStates]]
  <2>1. store \in [Names -> [Vers -> StoreStates]] /\ b \in StoreStates /\ Cur \in Names
    BY <1>1 DEF TypeOK, StoreStates, Cur
  <2>2. store' \in [Names -> [Vers -> StoreStates]] /\ store'[Cur][Ver] = b
    BY <1>1, <1>2, <2>1
  <2>3. ASSUME NEW n \in Names, NEW v \in Vers, <<n, v>> # <<Cur, Ver>>
        PROVE  store'[n][v] = store[n][v] /\ (<<n, v>> \in damaged' <=> <<n, v>> \in damaged)
    <3>1. store'[n][v] = store[n][v]
      BY <1>1, <1>2, <2>1, <2>3
    <3>2. <<n, v>> \in damaged' <=> <<n, v>> \in damaged
      BY <1>2, <2>3
    <3> QED BY <3>1, <3>2
  <2> QED BY <2>2, <2>3
\* What was held is not what the seal overwrites.
<1>6. ASSUME NEW n \in Names, NEW v \in Vers, Whole(n, v)
      PROVE  Whole(n, v)'
  <2>1. CASE <<n, v>> = <<Cur, Ver>>
    <3>1. n = Cur /\ v = Ver
      BY <2>1
    <3>2. <<n, v>> \in damaged
      BY <1>1, <1>6, <3>1 DEF Whole
    <3>3. b = "good" => Whole(n, v)'
      BY <1>5, <3>1 DEF Whole
    <3>4. damaged' = damaged => Whole(n, v)'
      BY <3>2 DEF Whole
    <3> QED BY <1>2, <3>3, <3>4
  <2>2. CASE <<n, v>> # <<Cur, Ver>>
    BY <1>5, <1>6, <2>2 DEF Whole
  <2> QED BY <2>1, <2>2
<1>7. TypeOK'
  <2>1. file' \in [gen : Nat, skills : Skills] /\ unsaved' \in Nat
        /\ mem' \in [gen : Nat, seen : Nat, skills : Skills, failed : SUBSET Names]
    BY <1>1, <1>3 DEF TypeOK
  <2>2. damaged' \subseteq Names \X Vers
    BY <1>1, <1>4 DEF TypeOK
  <2>3. pc' \in Installing \cup {"idle", "next", "drop", "switch", "down"}
    BY <1>4 DEF Installing
  <2> QED BY <1>4, <1>5, <2>1, <2>2, <2>3 DEF TypeOK
<1>8. JobFits'
  BY <1>1, <1>3, <1>4 DEF JobFits, Installing
<1>9. StoreFits'
  <2>1. \A n \in Names, v \in Vers : store'[n][v] = "altered" => <<n, v>> \in damaged'
    <3> TAKE n \in Names, v \in Vers
    <3>1. CASE <<n, v>> = <<Cur, Ver>>
      BY <1>5, <3>1
    <3>2. CASE <<n, v>> # <<Cur, Ver>>
      BY <1>1, <1>5, <3>2 DEF StoreFits
    <3> QED BY <3>1, <3>2
  <2>2. ASSUME NEW skills \in Skills, NEW n \in Names, skills[n].ver # None
        PROVE  skills[n].ver \in Vers
    BY <2>2, NoVersion DEF Skills, Skill
  <2>3. mem.skills \in Skills /\ job.active \in Skills /\ file.skills \in Skills
    BY <1>1 DEF TypeOK, Jobs
  <2>4. InStore(mem.skills)' /\ InStore(job.active)'
    BY <1>1, <1>3, <1>4, <1>6, <2>2, <2>3 DEF StoreFits, InStore
  <2>5. SavedInStore'
    <3>1. \A n \in Names : file.skills[n].ver # None => Whole(n, file.skills[n].ver) \/ unsaved >= Keep
      BY <1>1 DEF StoreFits, SavedInStore, Whole
    <3>2. \A n \in Names : file.skills[n].ver # None => Whole(n, file.skills[n].ver)' \/ unsaved >= Keep
      BY <1>3, <1>6, <2>2, <2>3, <3>1
    <3> QED BY <1>3, <3>2 DEF SavedInStore, Whole
  <2> QED BY <2>1, <2>4, <2>5 DEF StoreFits
<1>10. PackageFits'
  <2>1. pc' = "place" => b = "good"
    BY <1>2 DEF GiveUp
  <2>2. Cur' = Cur /\ Ver' = Ver
    BY <1>4 DEF Cur, Ver
  <2>3. pc' = "place" => Whole(Cur, Ver)'
    BY <1>5, <2>1, <2>2 DEF Whole
  <2> QED BY <1>4, <2>3 DEF PackageFits
<1>11. SavedIsRecent'
  BY <1>1, <1>3, <1>4 DEF SavedIsRecent, AllRecent
<1> QED BY <1>7, <1>8, <1>9, <1>10, <1>11 DEF HInv

\* What trim_previous keeps are the newest of the earlier versions.
LEMMA KeptIsPrefix ==
    ASSUME Previous \in Seq(Vers)
    PROVE  /\ Kept \in Seq(Vers)
           /\ Len(Kept) = IF Len(Previous) < Keep THEN Len(Previous) ELSE Keep
           /\ \A i \in 1..Len(Kept) : Kept[i] = Previous[i]
<1> DEFINE k == IF Len(Previous) < Keep THEN Len(Previous) ELSE Keep
<1>1. Len(Previous) \in Nat /\ Keep \in Nat \ {0}
  BY HostAssumption
<1>2. k \in Nat /\ k <= Len(Previous)
  BY <1>1
<1>3. Kept = SubSeq(Previous, 1, k)
  BY DEF Kept
<1>4. \A i \in 1..k : Previous[i] \in Vers
  BY <1>1, <1>2
<1> HIDE DEF k
<1>5. /\ SubSeq(Previous, 1, k) \in Seq(Vers) /\ Len(SubSeq(Previous, 1, k)) = k
      /\ \A i \in 1..k : SubSeq(Previous, 1, k)[i] = Previous[i]
  <2>1. 1 \in Int /\ k \in Int
    BY <1>2
  <2>2. /\ SubSeq(Previous, 1, k) \in Seq(Vers)
        /\ Len(SubSeq(Previous, 1, k)) = IF 1 <= k THEN k - 1 + 1 ELSE 0
        /\ \A i \in 1..k-1+1 : SubSeq(Previous, 1, k)[i] = Previous[1+i-1]
    BY <1>4, <2>1, SubSeqProperties
  <2> QED BY <1>2, <2>2
<1> QED BY <1>3, <1>5 DEF k

\* The saved version stays among the earlier ones, one place further back.
LEMMA PreviousIsRecent ==
    ASSUME NEW had \in Skill, NEW ver \in Vers, NEW saved, NEW k \in Nat, Recent(had, k, saved),
           NEW prev, prev = IF had.ver = None THEN <<>>
                            ELSE IF had.ver = ver THEN had.prev ELSE <<had.ver>> \o had.prev
    PROVE  /\ prev \in Seq(Vers)
           /\ Recent([ver |-> ver, prev |-> prev], k + 1, saved)
           /\ had.ver \notin {None, ver} => Len(prev) > 0 /\ prev[1] = had.ver
<1>1. had.ver \in VersOrNone /\ had.prev \in Seq(Vers)
  BY DEF Skill
<1>2. CASE had.ver = None
  BY <1>2 DEF Recent
<1>3. CASE had.ver = ver
  <2>1. prev = had.prev
    BY <1>3, NoVersion
  <2> QED BY <1>1, <1>3, <2>1 DEF Recent
<1>4. CASE had.ver \notin {None, ver}
  <2>1. prev = <<had.ver>> \o had.prev /\ <<had.ver>> \in Seq(Vers) /\ Len(<<had.ver>>) = 1 /\ <<had.ver>>[1] = had.ver
    BY <1>1, <1>4, NoVersion
  <2>2. /\ prev \in Seq(Vers) /\ Len(prev) = 1 + Len(had.prev)
        /\ \A i \in 1..1 + Len(had.prev) : prev[i] = IF i <= 1 THEN <<had.ver>>[i] ELSE had.prev[i - 1]
    BY <1>1, <2>1, ConcatProperties
  <2>3. Len(had.prev) \in Nat
    BY <1>1
  <2>4. prev[1] = had.ver /\ \A i \in 1..Len(had.prev) : prev[i + 1] = had.prev[i]
    BY <2>1, <2>2, <2>3
  <2>5. Recent([ver |-> ver, prev |-> prev], k + 1, saved)
    <3> SUFFICES ASSUME saved # ver, NEW i \in 1..Len(prev), prev[i] = saved
                 PROVE  \E j \in 1..Len(prev) : prev[j] = saved /\ j <= k + 1
      BY DEF Recent
    <3>1. CASE saved = had.ver
      BY <2>2, <2>3, <2>4, <3>1
    <3>2. CASE saved # had.ver
      <4>1. i - 1 \in 1..Len(had.prev) /\ had.prev[i - 1] = saved
        BY <2>1, <2>2, <2>3, <3>2
      <4>2. PICK j \in 1..Len(had.prev) : had.prev[j] = saved /\ j <= k
        BY <3>2, <4>1 DEF Recent
      <4>3. j + 1 \in 1..Len(prev) /\ prev[j + 1] = saved /\ j + 1 <= k + 1
        BY <2>2, <2>3, <2>4, <4>2
      <4> QED BY <4>3
    <3> QED BY <3>1, <3>2
  <2> QED BY <2>2, <2>3, <2>4, <2>5
<1> QED BY <1>2, <1>3, <1>4

LEMMA PlaceH == ASSUME HInv, Place PROVE HInv'
<1> DEFINE saved == file.skills[Cur].ver
           had == job.active[Cur]
           new == [ver |-> Ver, prev |-> Kept]
<1>1. /\ pc = "place" /\ TypeOK /\ JobFits /\ StoreFits /\ PackageFits /\ SavedIsRecent
      /\ Cur \in Names /\ Cur \notin job.left /\ Ver \in Vers /\ job \in Jobs
      /\ had = mem.skills[Cur] /\ had \in Skill /\ unsaved \in Nat
  <2>1. pc = "place" /\ pc \in Installing /\ TypeOK /\ JobFits
    BY DEF HInv, Place, Installing
  <2>2. job \in Jobs /\ Cur \in Names \ job.left /\ job.want[Cur] # None /\ had = mem.skills[Cur]
    BY <2>1 DEF TypeOK, JobFits, Cur
  <2>3. Ver \in Vers
    BY <2>2, NoVersion DEF Ver, Jobs, Cur
  <2>4. had \in Skill
    BY <2>2 DEF Jobs, Skills
  <2> QED BY <2>1, <2>2, <2>3, <2>4 DEF HInv, TypeOK
<1>2. Recent(had, unsaved, saved)
  BY <1>1 DEF SavedIsRecent, AllRecent
<1>3. /\ Previous \in Seq(Vers)
      /\ Recent([ver |-> Ver, prev |-> Previous], unsaved + 1, saved)
      /\ had.ver \notin {None, Ver} => Len(Previous) > 0 /\ Previous[1] = had.ver
  <2>1. Previous = IF had.ver = None THEN <<>> ELSE IF had.ver = Ver THEN had.prev ELSE <<had.ver>> \o had.prev
    BY DEF Previous
  <2> HIDE DEF had, saved
  <2> QED BY <1>1, <1>2, <2>1, PreviousIsRecent
<1>4. /\ Kept \in Seq(Vers)
      /\ Len(Kept) = IF Len(Previous) < Keep THEN Len(Previous) ELSE Keep
      /\ \A i \in 1..Len(Kept) : Kept[i] = Previous[i]
  BY <1>3, KeptIsPrefix
<1>5. Len(Previous) \in Nat /\ Len(Kept) \in Nat /\ Keep \in Nat \ {0}
  BY <1>3, <1>4, HostAssumption
<1>6. new \in Skill /\ new.ver = Ver
  BY <1>1, <1>4, NoVersion DEF Skill
\* The saved version is kept, if it is recent enough.
<1>7. ASSUME NEW i \in 1..Len(Previous), Previous[i] = saved, saved # Ver
      PROVE  \E j \in 1..Len(Previous) : Previous[j] = saved /\ j <= unsaved + 1
  BY <1>3, <1>7 DEF Recent
<1>8. Recent(new, unsaved + 1, saved)
  <2> SUFFICES ASSUME saved # Ver, NEW i \in 1..Len(Kept), Kept[i] = saved
               PROVE  \E j \in 1..Len(Kept) : Kept[j] = saved /\ j <= unsaved + 1
    BY <1>6 DEF Recent
  <2>1. i \in 1..Len(Previous) /\ Previous[i] = saved
    BY <1>4, <1>5
  <2>2. PICK j \in 1..Len(Previous) : Previous[j] = saved /\ j <= unsaved + 1
    BY <1>7, <2>1
  <2>3. CASE j <= Len(Kept)
    <3>1. j \in 1..Len(Kept)
      BY <1>5, <2>2, <2>3
    <3> QED BY <1>4, <2>2, <3>1
  <2>4. CASE j > Len(Kept)
    BY <1>1, <1>5, <2>2, <2>4
  <2> QED BY <1>5, <2>3, <2>4
<1>9. /\ Dropped \subseteq Vers /\ Ver \notin Dropped /\ had.ver \notin Dropped
      /\ saved \notin Dropped \/ unsaved >= Keep
  <2>1. \A v \in Dropped : v # Ver /\ v \notin ToSet(Kept) /\ \E i \in 1..Len(Previous) : Previous[i] = v
    BY <1>3 DEF Dropped, ToSet
  <2>2. \A i \in 1..Len(Kept) : Kept[i] \in ToSet(Kept)
    BY <1>4 DEF ToSet
  <2>3. Dropped \subseteq Vers
    BY <1>3, <2>1
  <2>4. had.ver \notin Dropped
    <3> SUFFICES ASSUME had.ver \in Dropped PROVE FALSE
      OBVIOUS
    <3>1. had.ver \notin {None, Ver}
      BY <2>1, <2>3, NoVersion
    <3>2. 1 \in 1..Len(Kept) /\ Kept[1] = had.ver
      BY <1>3, <1>4, <1>5, <3>1
    <3> QED BY <2>1, <2>2, <3>2
  <2>5. ASSUME saved \in Dropped, ~(unsaved >= Keep) PROVE FALSE
    <3>1. PICK i \in 1..Len(Previous) : Previous[i] = saved
      BY <2>1, <2>5
    <3>2. PICK j \in 1..Len(Previous) : Previous[j] = saved /\ j <= unsaved + 1
      BY <1>7, <2>1, <2>5, <3>1
    <3>3. j \in 1..Len(Kept) /\ Kept[j] = saved
      BY <1>1, <1>4, <1>5, <2>5, <3>2
    <3> QED BY <2>1, <2>2, <2>5, <3>3
  <2> QED BY <2>1, <2>3, <2>4, <2>5
<1>10. PICK rest \in [Dropped -> StoreStates] :
           /\ \A v \in Dropped : rest[v] \in Rests(store[Cur][v])
           /\ store' = [store EXCEPT ![Cur] = [v \in Vers |-> IF v \in Dropped THEN rest[v] ELSE @[v]]]
  BY DEF Place
<1> HIDE DEF new
<1>11. /\ job' = [job EXCEPT !.active[Cur] = new, !.drop = Dropped]
       /\ pc' \in {"next", "drop"} /\ UNCHANGED <<file, mem, unsaved>>
       /\ damaged' = damaged \cup IF store[Cur][Ver] = "thin" THEN {<<Cur, Ver>>} ELSE {}
  BY DEF Place, new
<1>12. /\ job' \in Jobs /\ job'.gen = job.gen /\ job'.want = job.want /\ job'.left = job.left
       /\ job'.cur = job.cur /\ job'.active = [job.active EXCEPT ![Cur] = new] /\ job'.drop = Dropped
       /\ Cur' = Cur
  <2>1. [job.active EXCEPT ![Cur] = new] \in Skills
    BY <1>1, <1>6 DEF Jobs, Skills
  <2> QED BY <1>1, <1>9, <1>11, <2>1 DEF Jobs, Cur
<1>13. \A n \in Names : job'.active[n] = IF n = Cur THEN new ELSE job.active[n]
  BY <1>1, <1>12 DEF Jobs, Skills
<1>14. /\ store' \in [Names -> [Vers -> StoreStates]]
       /\ \A n \in Names, v \in Vers :
             store'[n][v] = IF n = Cur /\ v \in Dropped THEN rest[v] ELSE store[n][v]
  <2>1. store \in [Names -> [Vers -> StoreStates]]
    BY <1>1 DEF TypeOK
  <2>2. \A n \in Names : store'[n] = IF n = Cur THEN [v \in Vers |-> IF v \in Dropped THEN rest[v] ELSE store[Cur][v]]
                                               ELSE store[n]
    BY <1>1, <1>10, <2>1
  <2>3. [v \in Vers |-> IF v \in Dropped THEN rest[v] ELSE store[Cur][v]] \in [Vers -> StoreStates]
    BY <1>1, <1>10, <2>1
  <2>4. store' \in [Names -> [Vers -> StoreStates]]
    BY <1>1, <1>10, <2>1, <2>3
  <2> QED BY <2>1, <2>2, <2>4
<1> HIDE DEF had, saved
<1>15. ASSUME NEW n \in Names, NEW v \in Vers, Whole(n, v), n # Cur \/ v \notin Dropped
       PROVE  Whole(n, v)'
  BY <1>11, <1>14, <1>15 DEF Whole
<1>16. ASSUME NEW skills \in Skills, NEW n \in Names, skills[n].ver # None
       PROVE  skills[n].ver \in Vers
  BY <1>16, NoVersion DEF Skills, Skill
<1>17. mem.skills \in Skills /\ job.active \in Skills /\ file.skills \in Skills
  BY <1>1 DEF TypeOK, Jobs
<1>18. TypeOK'
  <2>1. file' \in [gen : Nat, skills : Skills] /\ unsaved' \in Nat /\ damaged' \subseteq Names \X Vers
        /\ mem' \in [gen : Nat, seen : Nat, skills : Skills, failed : SUBSET Names]
    BY <1>1, <1>11 DEF TypeOK
  <2> QED BY <1>11, <1>12, <1>14, <2>1 DEF TypeOK
<1>19. JobFits'
  <2>1. \A n \in Names : job'.active[n].ver \in IF job'.want[n] = None THEN {None}
                                                ELSE {job'.want[n], mem'.skills[n].ver}
    <3> TAKE n \in Names
    <3>1. CASE n = Cur
      <4>1. job'.active[n].ver = job'.want[n] /\ job'.want[n] # None
        BY <1>1, <1>6, <1>12, <1>13, <3>1, NoVersion DEF Ver, Cur
      <4> QED BY <4>1
    <3>2. CASE n # Cur
      BY <1>1, <1>11, <1>12, <1>13, <3>2 DEF JobFits
    <3> QED BY <3>1, <3>2
  <2>2. \A n \in job'.left : job'.want[n] # None /\ job'.active[n] = mem'.skills[n]
    BY <1>1, <1>11, <1>12, <1>13 DEF JobFits, Jobs
  <2>3. job'.cur \in Names \ job'.left /\ job'.gen > 0
    BY <1>1, <1>12 DEF JobFits, Cur
  <2> QED BY <1>11, <2>1, <2>2, <2>3 DEF JobFits, Installing
<1>20. StoreFits'
  <2>1. \A n \in Names, v \in Vers : store'[n][v] = "altered" => <<n, v>> \in damaged'
    <3> SUFFICES ASSUME NEW n \in Names, NEW v \in Vers, store'[n][v] = "altered"
                 PROVE  store[n][v] = "altered"
      BY <1>1, <1>11 DEF StoreFits
    <3>1. \A s : "altered" \in Rests(s) => s = "altered"
      BY DEF Rests
    <3> QED BY <1>10, <1>14, <3>1
  <2>2. InStore(mem.skills)'
    <3> SUFFICES ASSUME NEW n \in Names, mem.skills[n].ver # None
                 PROVE  Whole(n, mem.skills[n].ver)'
      BY <1>11 DEF InStore
    <3>1. Whole(n, mem.skills[n].ver)
      BY <1>1 DEF StoreFits, InStore
    <3>2. n # Cur \/ mem.skills[n].ver \notin Dropped
      BY <1>1, <1>9
    <3>3. mem.skills[n].ver \in Vers
      BY <1>16, <1>17
    <3>4. \A v \in Vers : Whole(n, v) /\ (n # Cur \/ v \notin Dropped) => Whole(n, v)'
      BY <1>15
    <3> QED BY <1>11, <3>1, <3>2, <3>3, <3>4
  <2>3. InStore(job.active)'
    <3> SUFFICES ASSUME NEW n \in Names, job'.active[n].ver # None
                 PROVE  store'[n][job'.active[n].ver] = "good" \/ <<n, job'.active[n].ver>> \in damaged'
      BY DEF InStore, Whole
    <3>1. CASE n = Cur
      <4>1. job'.active[n].ver = Ver /\ Ver \in Vers /\ Ver \notin Dropped
        BY <1>1, <1>6, <1>9, <1>13, <3>1
      <4>2. store[n][Ver] = "good" \/ <<n, Ver>> \in damaged'
        BY <1>1, <1>11, <3>1 DEF PackageFits, Whole
      <4> QED BY <1>11, <1>14, <4>1, <4>2
    <3>2. CASE n # Cur
      <4>1. job'.active[n].ver = job.active[n].ver
        BY <1>13, <3>2
      <4>2. Whole(n, job.active[n].ver) /\ job.active[n].ver \in Vers
        BY <1>1, <1>16, <1>17, <4>1 DEF StoreFits, InStore
      <4> QED BY <1>11, <1>14, <3>2, <4>1, <4>2 DEF Whole
    <3> QED BY <3>1, <3>2
  <2>4. SavedInStore'
    <3> SUFFICES ASSUME NEW n \in Names, file.skills[n].ver # None
                 PROVE  Whole(n, file.skills[n].ver)' \/ unsaved >= Keep
      BY <1>11 DEF SavedInStore, Whole
    <3>1. Whole(n, file.skills[n].ver) \/ unsaved >= Keep
      BY <1>1 DEF StoreFits, SavedInStore, Whole
    <3>2. n # Cur \/ file.skills[n].ver \notin Dropped \/ unsaved >= Keep
      BY <1>9 DEF saved
    <3>3. file.skills[n].ver \in Vers
      BY <1>16, <1>17
    <3>4. \A v \in Vers : Whole(n, v) /\ (n # Cur \/ v \notin Dropped) => Whole(n, v)'
      BY <1>15
    <3> QED BY <1>11, <3>1, <3>2, <3>3, <3>4
  <2> QED BY <2>1, <2>2, <2>3, <2>4 DEF StoreFits
<1>21. PackageFits'
  <2>1. mem'.skills[Cur].ver \notin job'.drop /\ job'.active[Cur].ver \notin job'.drop
    BY <1>1, <1>6, <1>9, <1>11, <1>12, <1>13
  <2>2. file'.skills[Cur].ver \notin job'.drop \/ unsaved' >= Keep
    BY <1>9, <1>11, <1>12 DEF saved
  <2> QED BY <1>11, <1>12, <2>1, <2>2 DEF PackageFits
<1>22. SavedIsRecent'
  <2>1. AllRecent(mem.skills, unsaved)' /\ pc' \notin {"down", "switch"}
    BY <1>1, <1>11 DEF SavedIsRecent, AllRecent
  <2>2. AllRecent(job.active, unsaved + 1)'
    <3> SUFFICES ASSUME NEW n \in Names PROVE Recent(job'.active[n], unsaved + 1, file.skills[n].ver)
      BY <1>11 DEF AllRecent
    <3>1. CASE n = Cur
      BY <1>8, <1>13, <3>1 DEF saved
    <3>2. CASE n # Cur
      BY <1>1, <1>13, <3>2 DEF SavedIsRecent, AllRecent
    <3> QED BY <3>1, <3>2
  <2> QED BY <2>1, <2>2 DEF SavedIsRecent
<1> QED BY <1>18, <1>19, <1>20, <1>21, <1>22 DEF HInv

LEMMA DropH == ASSUME HInv, Drop PROVE HInv'
<1>1. /\ pc = "drop" /\ TypeOK /\ JobFits /\ StoreFits /\ PackageFits /\ SavedIsRecent
      /\ Cur \in Names /\ job \in Jobs
  BY DEF HInv, Drop, TypeOK, JobFits, Cur
<1>2. /\ \/ /\ store' = [store EXCEPT ![Cur] = [v \in Vers |-> IF v \in job.drop THEN "none" ELSE @[v]]]
            /\ damaged' = damaged \ {<<Cur, v>> : v \in job.drop}
         \/ UNCHANGED <<store, damaged>>
      /\ job' = [job EXCEPT !.drop = {}] /\ pc' = "next" /\ UNCHANGED <<file, mem, unsaved>>
  BY DEF Drop
<1>3. /\ job' \in Jobs /\ job'.gen = job.gen /\ job'.want = job.want /\ job'.left = job.left
      /\ job'.active = job.active
  BY <1>1, <1>2 DEF Jobs
<1>4. /\ store' \in [Names -> [Vers -> StoreStates]]
      /\ damaged' \subseteq damaged
      /\ \A n \in Names, v \in Vers :
            \/ store'[n][v] = store[n][v] /\ (<<n, v>> \in damaged => <<n, v>> \in damaged')
            \/ n = Cur /\ v \in job.drop /\ store'[n][v] = "none"
  <2>1. CASE UNCHANGED <<store, damaged>>
    <3>1. store' = store /\ damaged' = damaged /\ store \in [Names -> [Vers -> StoreStates]]
      BY <1>1, <2>1 DEF TypeOK
    <3> QED BY <3>1
  <2>2. CASE /\ store' = [store EXCEPT ![Cur] = [v \in Vers |-> IF v \in job.drop THEN "none" ELSE @[v]]]
             /\ damaged' = damaged \ {<<Cur, v>> : v \in job.drop}
    <3>1. store \in [Names -> [Vers -> StoreStates]] /\ "none" \in StoreStates
      BY <1>1 DEF TypeOK, StoreStates
    <3>2. \A n \in Names : store'[n] = IF n = Cur THEN [v \in Vers |-> IF v \in job.drop THEN "none" ELSE store[Cur][v]]
                                                 ELSE store[n]
      BY <1>1, <2>2, <3>1
    <3>3. [v \in Vers |-> IF v \in job.drop THEN "none" ELSE store[Cur][v]] \in [Vers -> StoreStates]
      BY <1>1, <3>1
    <3>4. store' \in [Names -> [Vers -> StoreStates]]
      BY <1>1, <2>2, <3>1, <3>3
    <3>5. \A n, v : n # Cur \/ v \notin job.drop => (<<n, v>> \in damaged => <<n, v>> \in damaged')
      BY <2>2
    <3>6. damaged' \subseteq damaged
      BY <2>2
    <3>7. \A n \in Names, v \in Vers : store'[n][v] = IF n = Cur /\ v \in job.drop THEN "none" ELSE store[n][v]
      BY <3>2
    <3> HIDE <2>2
    <3> QED BY <3>4, <3>5, <3>6, <3>7
  <2> QED BY <1>2, <2>1, <2>2
<1>6. ASSUME NEW skills \in Skills, NEW n \in Names, skills[n].ver # None
      PROVE  skills[n].ver \in Vers
  BY <1>6, NoVersion DEF Skills, Skill
<1>7. mem.skills \in Skills /\ job.active \in Skills /\ file.skills \in Skills
  BY <1>1 DEF TypeOK, Jobs
<1>8. \A n \in Names, v \in Vers : Whole(n, v) /\ (n # Cur \/ v \notin job.drop) => Whole(n, v)'
  BY <1>4 DEF Whole
<1>9. TypeOK'
  <2>1. file' \in [gen : Nat, skills : Skills] /\ unsaved' \in Nat /\ damaged' \subseteq Names \X Vers
        /\ mem' \in [gen : Nat, seen : Nat, skills : Skills, failed : SUBSET Names]
    BY <1>1, <1>2, <1>4 DEF TypeOK
  <2> QED BY <1>2, <1>3, <1>4, <2>1 DEF TypeOK
<1>10. JobFits'
  BY <1>1, <1>2, <1>3 DEF JobFits, Installing
<1>11. StoreFits'
  <2>1. \A n \in Names, v \in Vers : store'[n][v] = "altered" => <<n, v>> \in damaged'
    BY <1>1, <1>4 DEF StoreFits
  <2>2. ASSUME NEW skills \in Skills, InStore(skills), skills[Cur].ver \notin job.drop,
               NEW n \in Names, skills[n].ver # None
        PROVE  Whole(n, skills[n].ver)'
    <3>1. Whole(n, skills[n].ver) /\ skills[n].ver \in Vers
      BY <1>6, <2>2 DEF InStore
    <3> QED BY <1>8, <2>2, <3>1
  <2>3. InStore(mem.skills)'
    <3>1. \A n \in Names : mem.skills[n].ver # None => store'[n][mem.skills[n].ver] = "good" \/ <<n, mem.skills[n].ver>> \in damaged'
      BY <1>1, <1>7, <2>2 DEF StoreFits, PackageFits, Whole
    <3> QED BY <1>2, <3>1 DEF InStore, Whole
  <2>4. InStore(job.active)'
    <3>1. \A n \in Names : job.active[n].ver # None => store'[n][job.active[n].ver] = "good" \/ <<n, job.active[n].ver>> \in damaged'
      BY <1>1, <1>7, <2>2 DEF StoreFits, PackageFits, Whole
    <3> QED BY <1>3, <3>1 DEF InStore, Whole
  <2>5. SavedInStore'
    <3> SUFFICES ASSUME NEW n \in Names, file.skills[n].ver # None
                 PROVE  Whole(n, file.skills[n].ver)' \/ unsaved >= Keep
      BY <1>2 DEF SavedInStore, Whole
    <3>1. Whole(n, file.skills[n].ver) \/ unsaved >= Keep
      BY <1>1 DEF StoreFits, SavedInStore, Whole
    <3>2. n # Cur \/ file.skills[n].ver \notin job.drop \/ unsaved >= Keep
      BY <1>1 DEF PackageFits
    <3>3. file.skills[n].ver \in Vers
      BY <1>6, <1>7
    <3> QED BY <1>2, <1>8, <3>1, <3>2, <3>3
  <2> QED BY <2>1, <2>3, <2>4, <2>5 DEF StoreFits
<1>12. PackageFits'
  BY <1>2 DEF PackageFits
<1>13. SavedIsRecent'
  BY <1>1, <1>2, <1>3 DEF SavedIsRecent, AllRecent
<1> QED BY <1>9, <1>10, <1>11, <1>12, <1>13 DEF HInv

-----------------------------------------------------------------------------
\* The steps that leave the store as it is
LEMMA BeginH == ASSUME HInv, NEW g \in 1..MaxGen, NEW want \in Wants, Begin(g, want) PROVE HInv'
<1> DEFINE act == [n \in Names |-> IF want[n] = None THEN Off ELSE mem.skills[n]]
           left == {n \in Names : want[n] # None}
           seen == IF g > mem.seen THEN g ELSE mem.seen
<1>1. /\ pc = "idle" /\ TypeOK /\ StoreFits /\ SavedIsRecent /\ want \in [Names -> VersOrNone]
      /\ g \in Nat /\ g > 0 /\ mem \in [gen : Nat, seen : Nat, skills : Skills, failed : SUBSET Names]
  BY HostAssumption DEF HInv, Begin, TypeOK, Wants
<1>2. mem.skills \in Skills /\ act \in Skills /\ unsaved \in Nat
  BY <1>1, NothingYet DEF Skills, TypeOK
<1>3. \A n \in Names : act[n] = IF want[n] = None THEN Off ELSE mem.skills[n]
  OBVIOUS
<1>4. left \subseteq Names /\ seen \in Nat /\ \A n \in left : want[n] # None
  BY <1>1
<1> HIDE DEF act
<1>5. job' = [NoJob EXCEPT !.gen = g, !.want = want, !.left = left, !.active = act]
  BY DEF Begin, act
<1>6. mem' = [mem EXCEPT !.seen = seen]
  BY DEF Begin
<1> HIDE DEF left, seen
<1>7. /\ job' \in Jobs /\ job'.gen = g /\ job'.want = want /\ job'.left = left /\ job'.active = act
  BY <1>1, <1>2, <1>4, <1>5, NothingYet DEF Jobs, NoJob
<1>8. /\ mem' \in [gen : Nat, seen : Nat, skills : Skills, failed : SUBSET Names]
      /\ mem'.skills = mem.skills
  BY <1>1, <1>4, <1>6
<1>9. pc' = "next" /\ UNCHANGED <<store, file, damaged, unsaved>>
  BY DEF Begin
<1>10. TypeOK'
  BY <1>1, <1>7, <1>8, <1>9 DEF TypeOK
<1>11. JobFits'
  <2>1. \A n \in Names : job'.active[n].ver \in IF job'.want[n] = None THEN {None}
                                                ELSE {job'.want[n], mem'.skills[n].ver}
    BY <1>3, <1>7, <1>8, NothingYet
  <2>2. \A n \in job'.left : job'.want[n] # None /\ job'.active[n] = mem'.skills[n]
    BY <1>3, <1>4, <1>7, <1>8
  <2> QED BY <1>1, <1>7, <1>9, <2>1, <2>2 DEF JobFits, Installing
<1>12. StoreFits'
  <2>1. InStore(mem.skills) /\ InStore(act)
    BY <1>1, <1>3, NothingYet DEF StoreFits, InStore
  <2>2. InStore(mem.skills)' /\ InStore(job.active)'
    BY <1>7, <1>8, <1>9, <2>1 DEF InStore, Whole
  <2>3. SavedInStore'
    BY <1>1, <1>9 DEF StoreFits, SavedInStore
  <2> QED BY <1>1, <1>9, <2>2, <2>3 DEF StoreFits
<1>13. PackageFits'
  BY <1>9 DEF PackageFits
<1>14. SavedIsRecent'
  <2>1. AllRecent(mem.skills, unsaved)
    BY <1>1 DEF SavedIsRecent
  <2>2. ASSUME NEW n \in Names PROVE Recent(act[n], unsaved + 1, file.skills[n].ver)
    <3>1. Recent(Off, unsaved + 1, file.skills[n].ver)
      BY NothingYet DEF Recent
    <3>2. Recent(mem.skills[n], unsaved + 1, file.skills[n].ver)
      <4>1. Recent(mem.skills[n], unsaved, file.skills[n].ver)
        BY <2>1 DEF AllRecent
      <4>2. mem.skills[n].prev \in Seq(Vers)
        BY <1>2 DEF Skills, Skill
      <4> QED BY <1>2, <4>1, <4>2 DEF Recent
    <3> QED BY <1>3, <3>1, <3>2
  <2>3. AllRecent(act, unsaved + 1)
    BY <2>2 DEF AllRecent
  <2> QED BY <1>7, <1>8, <1>9, <2>1, <2>3 DEF SavedIsRecent, AllRecent
<1> QED BY <1>10, <1>11, <1>12, <1>13, <1>14 DEF HInv

LEMMA PickH == ASSUME HInv, NEW n \in Names, Pick(n) PROVE HInv'
<1>1. /\ pc = "next" /\ TypeOK /\ JobFits /\ StoreFits /\ SavedIsRecent /\ job \in Jobs /\ n \in job.left
  BY DEF HInv, Pick, TypeOK
<1>2. /\ job' = [job EXCEPT !.cur = n, !.left = @ \ {n}, !.tries = 0]
      /\ pc' = "try" /\ UNCHANGED <<store, file, mem, damaged, unsaved>>
  BY DEF Pick
<1>3. /\ job' \in Jobs /\ job'.gen = job.gen /\ job'.want = job.want /\ job'.active = job.active
      /\ job'.left = job.left \ {n} /\ job'.cur = n
  BY <1>1, <1>2 DEF Jobs
<1>4. TypeOK'
  BY <1>1, <1>2, <1>3 DEF TypeOK, Installing
<1>5. JobFits'
  BY <1>1, <1>2, <1>3 DEF JobFits
<1>6. StoreFits'
  BY <1>1, <1>2, <1>3 DEF StoreFits, InStore, Whole, SavedInStore
<1>7. PackageFits'
  BY <1>2 DEF PackageFits
<1>8. SavedIsRecent'
  BY <1>1, <1>2, <1>3 DEF SavedIsRecent, AllRecent
<1> QED BY <1>4, <1>5, <1>6, <1>7, <1>8 DEF HInv

\* The set is saved, or one more is not.
LEMMA WriteStateH == ASSUME HInv, WriteState PROVE HInv'
<1>1. /\ pc = "next" /\ TypeOK /\ JobFits /\ StoreFits /\ SavedIsRecent /\ job \in Jobs /\ unsaved \in Nat
  BY DEF HInv, WriteState, TypeOK
<1>2. pc' = "switch" /\ UNCHANGED <<store, mem, job, damaged>>
  BY DEF WriteState
<1>3. JobFits' /\ PackageFits'
  BY <1>1, <1>2 DEF JobFits, PackageFits, Installing
<1>4. InStore(mem.skills)' /\ InStore(job.active)'
  BY <1>1, <1>2 DEF StoreFits, InStore, Whole
<1>5. CASE file' = [gen |-> job.gen, skills |-> job.active] /\ unsaved' = 0
  <2>1. file'.skills = job.active /\ file' \in [gen : Nat, skills : Skills]
    BY <1>1, <1>5 DEF Jobs
  <2>2. TypeOK'
    BY <1>1, <1>2, <1>5, <2>1 DEF TypeOK
  <2>3. SavedInStore'
    BY <1>2, <1>4, <2>1 DEF InStore, Whole, SavedInStore
  <2>4. StoreFits'
    BY <1>1, <1>2, <1>4, <2>3 DEF StoreFits
  <2>5. SavedIsRecent'
    BY <1>2, <2>1 DEF SavedIsRecent, AllRecent, Recent
  <2> QED BY <1>3, <2>2, <2>4, <2>5 DEF HInv
<1>6. CASE unsaved' = unsaved + 1 /\ UNCHANGED file
  <2>1. TypeOK'
    BY <1>1, <1>2, <1>6 DEF TypeOK
  <2>2. Keep \in Nat
    BY HostAssumption
  <2>3. SavedInStore'
    BY <1>1, <1>2, <1>6, <2>2 DEF StoreFits, SavedInStore
  <2>4. StoreFits'
    BY <1>1, <1>2, <1>4, <2>3 DEF StoreFits
  <2>5. SavedIsRecent'
    BY <1>1, <1>2, <1>6 DEF SavedIsRecent, AllRecent
  <2> QED BY <1>3, <2>1, <2>4, <2>5 DEF HInv
<1> QED BY <1>5, <1>6 DEF WriteState

LEMMA SwitchH == ASSUME HInv, Switch PROVE HInv'
<1>1. /\ pc = "switch" /\ TypeOK /\ JobFits /\ StoreFits /\ SavedIsRecent /\ job \in Jobs
      /\ mem \in [gen : Nat, seen : Nat, skills : Skills, failed : SUBSET Names] /\ unsaved \in Nat
  BY DEF HInv, Switch, TypeOK
<1>2. /\ mem' = [gen |-> job.gen, seen |-> mem.seen, skills |-> job.active, failed |-> {}]
      /\ job' = NoJob /\ pc' = "idle" /\ UNCHANGED <<store, file, damaged, unsaved>>
  BY DEF Switch
<1>3. /\ mem' \in [gen : Nat, seen : Nat, skills : Skills, failed : SUBSET Names]
      /\ mem'.skills = job.active
  BY <1>1, <1>2 DEF Jobs
<1>4. NoJob.active = NoSkills /\ NoJob.left = {}
  BY DEF NoJob
<1>5. TypeOK'
  BY <1>1, <1>2, <1>3, NothingYet DEF TypeOK
<1>6. JobFits'
  BY <1>2, <1>4 DEF JobFits, Installing
<1>7. StoreFits'
  <2>1. InStore(NoSkills) /\ InStore(job.active)
    BY <1>1, NothingYet DEF StoreFits, InStore
  <2>2. InStore(mem.skills)' /\ InStore(job.active)'
    BY <1>2, <1>3, <1>4, <2>1 DEF InStore, Whole
  <2>3. SavedInStore'
    BY <1>1, <1>2 DEF StoreFits, SavedInStore
  <2> QED BY <1>1, <1>2, <2>2, <2>3 DEF StoreFits
<1>8. PackageFits'
  BY <1>2 DEF PackageFits
<1>9. SavedIsRecent'
  <2>1. AllRecent(job.active, unsaved)
    BY <1>1 DEF SavedIsRecent
  <2>2. AllRecent(NoSkills, unsaved + 1)
    BY NothingYet DEF AllRecent, Recent
  <2> QED BY <1>2, <1>3, <1>4, <2>1, <2>2 DEF SavedIsRecent, AllRecent
<1> QED BY <1>5, <1>6, <1>7, <1>8, <1>9 DEF HInv

-----------------------------------------------------------------------------
\* Stops, damage and the start
LEMMA StopH == ASSUME HInv, Stop PROVE HInv'
<1>1. TypeOK /\ StoreFits
  BY DEF HInv
<1>2. /\ mem' = Stopped /\ job' = NoJob /\ pc' = "down" /\ UNCHANGED <<store, file, damaged, unsaved>>
  BY DEF Stop
<1>3. NoJob.active = NoSkills /\ NoJob.left = {} /\ Stopped.skills = NoSkills
  BY DEF NoJob, Stopped
<1>4. TypeOK'
  BY <1>1, <1>2, NothingYet DEF TypeOK
<1>5. JobFits'
  BY <1>2, <1>3 DEF JobFits, Installing
<1>6. StoreFits'
  <2>1. InStore(NoSkills)
    BY NothingYet DEF InStore
  <2>2. InStore(mem.skills)' /\ InStore(job.active)'
    BY <1>2, <1>3, <2>1 DEF InStore, Whole
  <2>3. SavedInStore'
    BY <1>1, <1>2 DEF StoreFits, SavedInStore
  <2> QED BY <1>1, <1>2, <2>2, <2>3 DEF StoreFits
<1>7. PackageFits' /\ SavedIsRecent'
  BY <1>2 DEF PackageFits, SavedIsRecent
<1> QED BY <1>4, <1>5, <1>6, <1>7 DEF HInv

LEMMA DamageH == ASSUME HInv, NEW n \in Names, NEW v \in Vers, Damage(n, v) PROVE HInv'
<1>1. /\ TypeOK /\ JobFits /\ StoreFits /\ PackageFits /\ SavedIsRecent /\ store[n][v] = "good"
  BY DEF HInv, Damage
<1>2. PICK b \in {"altered", "thin", "torn", "bare"} : store' = [store EXCEPT ![n][v] = b]
  BY DEF Damage
<1>3. damaged' = damaged \cup {<<n, v>>} /\ UNCHANGED <<file, mem, pc, job, unsaved>>
  BY DEF Damage
<1>4. /\ store' \in [Names -> [Vers -> StoreStates]]
      /\ \A m \in Names, w \in Vers : store'[m][w] = IF m = n /\ w = v THEN b ELSE store[m][w]
  <2>1. store \in [Names -> [Vers -> StoreStates]] /\ b \in StoreStates
    BY <1>1 DEF TypeOK, StoreStates
  <2>2. store' \in [Names -> [Vers -> StoreStates]]
    BY <1>2, <2>1
  <2>3. \A m \in Names, w \in Vers : store'[m][w] = IF m = n /\ w = v THEN b ELSE store[m][w]
    BY <1>2, <2>1
  <2> QED BY <2>2, <2>3
<1>5. \A m \in Names, w \in Vers : Whole(m, w) => Whole(m, w)'
  BY <1>3, <1>4 DEF Whole
<1>6. ASSUME NEW skills \in Skills, NEW m \in Names, skills[m].ver # None
      PROVE  skills[m].ver \in Vers
  BY <1>6, NoVersion DEF Skills, Skill
<1>7. mem.skills \in Skills /\ job.active \in Skills /\ file.skills \in Skills
  BY <1>1 DEF TypeOK, Jobs
<1>8. TypeOK'
  <2>1. damaged' \subseteq Names \X Vers
    BY <1>1, <1>3 DEF TypeOK
  <2> QED BY <1>1, <1>3, <1>4, <2>1 DEF TypeOK
<1>9. JobFits' /\ SavedIsRecent'
  BY <1>1, <1>3 DEF JobFits, SavedIsRecent, AllRecent
<1>10. StoreFits'
  <2>1. ASSUME NEW m \in Names, NEW w \in Vers, store'[m][w] = "altered"
        PROVE  <<m, w>> \in damaged'
    <3>1. CASE m = n /\ w = v
      BY <1>3, <3>1
    <3>2. CASE ~(m = n /\ w = v)
      BY <1>1, <1>3, <1>4, <2>1, <3>2 DEF StoreFits
    <3> QED BY <3>1, <3>2
  <2>2. InStore(mem.skills)' /\ InStore(job.active)'
    BY <1>1, <1>3, <1>5, <1>6, <1>7 DEF StoreFits, InStore
  <2>3. SavedInStore'
    <3> SUFFICES ASSUME NEW m \in Names, file.skills[m].ver # None
                 PROVE  Whole(m, file.skills[m].ver)' \/ unsaved >= Keep
      BY <1>3 DEF SavedInStore, Whole
    <3>1. Whole(m, file.skills[m].ver) \/ unsaved >= Keep
      BY <1>1 DEF StoreFits, SavedInStore, Whole
    <3>2. file.skills[m].ver \in Vers
      BY <1>6, <1>7
    <3> QED BY <1>3, <1>5, <3>1, <3>2
  <2> QED BY <2>1, <2>2, <2>3 DEF StoreFits
\* A package that is fetched is not in the store, so it is another one that is damaged.
<1>11. PackageFits'
  <2>1. pc \in {"fetch", "verify", "seal", "place"} => Cur \in Names /\ Ver \in Vers
    <3>1. pc \in {"fetch", "verify", "seal", "place"} => pc \in Installing
      BY DEF Installing
    <3>2. pc \in Installing => job.cur \in Names /\ job.want[job.cur] # None
      BY <1>1 DEF JobFits
    <3> QED BY <1>1, <3>1, <3>2, NoVersion DEF TypeOK, Jobs, Cur, Ver
  <2>2. pc \in {"fetch", "verify", "seal"} => store'[Cur][Ver] \in {"none", "bare"}
    BY <1>1, <1>4, <2>1 DEF PackageFits
  <2>3. pc = "place" => store'[Cur][Ver] \in {"good", "thin"} \/ <<Cur, Ver>> \in damaged'
    BY <1>1, <1>3, <1>4, <2>1 DEF PackageFits, Whole
  <2> QED BY <1>1, <1>3, <2>2, <2>3 DEF PackageFits, Whole, Cur, Ver
<1> QED BY <1>8, <1>9, <1>10, <1>11 DEF HInv

\* After the start a skill that is on has its package whole, or thin.
LEMMA StartH == ASSUME HInv, Start PROVE HInv'
<1> DEFINE kept == [n \in Names |-> IF n \in Tampered THEN Off ELSE file.skills[n]]
<1>1. /\ pc = "down" /\ TypeOK /\ StoreFits /\ job = NoJob /\ mem = Stopped
      /\ file \in [gen : Nat, skills : Skills] /\ Tampered \subseteq Names
  BY DEF HInv, Start, TypeOK, JobFits, Tampered
<1>2. /\ store' = [n \in Names |-> IF n \in Tampered THEN [store[n] EXCEPT ![file.skills[n].ver] = "none"]
                                                  ELSE store[n]]
      /\ job' = NoJob
  BY <1>1 DEF Start
<1>3. /\ store' \in [Names -> [Vers -> StoreStates]]
      /\ \A n \in Names, v \in Vers :
            store'[n][v] = IF n \in Tampered /\ v = file.skills[n].ver THEN "none" ELSE store[n][v]
  <2>1. store \in [Names -> [Vers -> StoreStates]] /\ "none" \in StoreStates
    BY <1>1 DEF TypeOK, StoreStates
  <2>2. \A n \in Names : [store[n] EXCEPT ![file.skills[n].ver] = "none"] \in [Vers -> StoreStates]
    BY <2>1
  <2>3. store' \in [Names -> [Vers -> StoreStates]]
    BY <1>2, <2>1, <2>2
  <2>4. ASSUME NEW n \in Names, NEW v \in Vers
        PROVE  store'[n][v] = IF n \in Tampered /\ v = file.skills[n].ver THEN "none" ELSE store[n][v]
    <3>1. store[n] \in [Vers -> StoreStates]
      BY <2>1
    <3>2. store'[n] = IF n \in Tampered THEN [store[n] EXCEPT ![file.skills[n].ver] = "none"] ELSE store[n]
      BY <1>2
    <3> QED BY <3>1, <3>2
  <2> QED BY <2>3, <2>4
<1>4. NoJob.active = NoSkills /\ NoJob.left = {} /\ Stopped.skills = NoSkills
  BY DEF NoJob, Stopped
<1>5. ASSUME NEW skills \in Skills, NEW n \in Names, skills[n].ver # None
      PROVE  skills[n].ver \in Vers
  BY <1>5, NoVersion DEF Skills, Skill
<1>6. InStore(NoSkills)' /\ \A k \in Nat : AllRecent(NoSkills, k)'
  BY NothingYet DEF InStore, AllRecent, Recent
<1>7. \A n \in Names, v \in Vers : store[n][v] = "altered" => <<n, v>> \in damaged
  BY <1>1 DEF StoreFits
<1>8. CASE UNCHANGED <<file, mem, pc, unsaved, damaged>>
  <2>1. TypeOK'
    BY <1>1, <1>2, <1>3, <1>8 DEF TypeOK
  <2>2. JobFits' /\ PackageFits' /\ SavedIsRecent'
    BY <1>1, <1>2, <1>4, <1>8 DEF JobFits, Installing, PackageFits, SavedIsRecent
  <2>3. InStore(mem.skills)' /\ InStore(job.active)'
    BY <1>1, <1>2, <1>4, <1>6, <1>8 DEF InStore, Whole
  <2>4. SavedInStore'
    <3> SUFFICES ASSUME NEW n \in Names, file.skills[n].ver # None
                 PROVE  Whole(n, file.skills[n].ver)' \/ unsaved >= Keep
      BY <1>8 DEF SavedInStore, Whole
    <3>1. file.skills[n].ver \in Vers
      BY <1>1, <1>5
    <3>2. Whole(n, file.skills[n].ver) \/ unsaved >= Keep
      BY <1>1 DEF StoreFits, SavedInStore, Whole
    <3>3. n \in Tampered => store[n][file.skills[n].ver] # "good"
      BY DEF Tampered
    <3> QED BY <1>3, <1>8, <3>1, <3>2, <3>3 DEF Whole
  <2>5. StoreFits'
    BY <1>3, <1>7, <1>8, <2>3, <2>4 DEF StoreFits
  <2> QED BY <2>1, <2>2, <2>5 DEF HInv
<1>9. CASE /\ file' = IF Tampered = {} THEN file ELSE [gen |-> 0, skills |-> kept]
           /\ mem' = [gen |-> file'.gen, seen |-> file'.gen, skills |-> file'.skills, failed |-> Tampered]
           /\ damaged' = (damaged \ {<<n, file.skills[n].ver>> : n \in Tampered}) \cup Thin(file.skills)
           /\ pc' = "idle" /\ unsaved' = 0
  <2>1. kept \in Skills /\ \A n \in Names : kept[n] = IF n \in Tampered THEN Off ELSE file.skills[n]
    BY <1>1, NothingYet DEF Skills
  <2> HIDE DEF kept
  <2>2. /\ file' \in [gen : Nat, skills : Skills]
        /\ \A n \in Names : file'.skills[n] = IF n \in Tampered THEN Off ELSE file.skills[n]
    <3>1. CASE Tampered = {}
      BY <1>1, <1>9, <3>1
    <3>2. CASE Tampered # {}
      BY <1>1, <1>9, <2>1, <3>2
    <3> QED BY <3>1, <3>2
  <2>3. /\ mem' \in [gen : Nat, seen : Nat, skills : Skills, failed : SUBSET Names]
        /\ mem'.skills = file'.skills
    BY <1>1, <1>9, <2>2
  <2>4. ASSUME NEW n \in Names, file'.skills[n].ver # None
        PROVE  store'[n][file'.skills[n].ver] = "good" \/ <<n, file'.skills[n].ver>> \in damaged'
    <3>1. n \notin Tampered /\ file'.skills[n] = file.skills[n]
      BY <2>2, <2>4, NothingYet
    <3>2. file.skills[n].ver \in Vers /\ store[n][file.skills[n].ver] \in {"good", "thin"}
      BY <1>1, <1>5, <2>4, <3>1 DEF Tampered
    <3>3. store[n][file.skills[n].ver] = "thin" => <<n, file.skills[n].ver>> \in Thin(file.skills)
      BY <2>4, <3>1 DEF Thin
    <3> QED BY <1>3, <1>9, <3>1, <3>2, <3>3
  <2>5. TypeOK'
    <3>1. Thin(file.skills) \subseteq Names \X Vers
      BY <1>1, <1>5 DEF Thin
    <3>2. damaged' \subseteq Names \X Vers /\ unsaved' \in Nat
      BY <1>1, <1>9, <3>1 DEF TypeOK
    <3> QED BY <1>2, <1>3, <1>9, <2>2, <2>3, <3>2, NothingYet DEF TypeOK
  <2>6. JobFits' /\ PackageFits'
    BY <1>2, <1>4, <1>9 DEF JobFits, Installing, PackageFits
  <2>7. StoreFits'
    <3>1. ASSUME NEW n \in Names, NEW v \in Vers, store'[n][v] = "altered"
          PROVE  <<n, v>> \in damaged'
      <4>1. ~(n \in Tampered /\ v = file.skills[n].ver) /\ store[n][v] = "altered"
        BY <1>3, <3>1
      <4> QED BY <1>7, <1>9, <4>1
    <3>2. InStore(mem.skills)' /\ SavedInStore'
      BY <2>3, <2>4 DEF InStore, Whole, SavedInStore
    <3>3. InStore(job.active)'
      BY <1>2, <1>4, <1>6 DEF InStore, Whole
    <3> QED BY <3>1, <3>2, <3>3 DEF StoreFits
  <2>8. SavedIsRecent'
    <3>1. AllRecent(mem.skills, unsaved)'
      BY <2>3 DEF AllRecent, Recent
    <3>2. AllRecent(job.active, unsaved + 1)'
      BY <1>2, <1>4, <1>6, <1>9 DEF AllRecent
    <3> QED BY <1>9, <3>1, <3>2 DEF SavedIsRecent
  <2> QED BY <2>5, <2>6, <2>7, <2>8 DEF HInv
<1> QED BY <1>8, <1>9 DEF Start

-----------------------------------------------------------------------------
LEMMA NextH == ASSUME HInv, [Next]_hostVars PROVE HInv'
<1>1. CASE \E g \in 1..MaxGen, want \in Wants : Begin(g, want)
  BY <1>1, BeginH
<1>2. CASE Reconcile
  <2>1. CASE \E n \in Names : Pick(n)
    BY <2>1, PickH
  <2>2. CASE Install
    BY <2>2, TryH, RetryH, FetchesH, SealH, PlaceH, DropH DEF Install
  <2>3. CASE WriteState \/ Switch
    BY <2>3, WriteStateH, SwitchH
  <2> QED BY <1>2, <2>1, <2>2, <2>3 DEF Reconcile
<1>3. CASE Hang \/ Stop \/ Start
  BY <1>3, FetchesH, StopH, StartH
<1>4. CASE \E n \in Names : \E v \in Offered[n] : Damage(n, v)
  <2>1. PICK n \in Names : \E v \in Offered[n] : Damage(n, v)
    BY <1>4
  <2>2. Offered[n] \subseteq Vers
    BY <2>1, HostAssumption
  <2> QED BY <2>1, <2>2, DamageH
<1>5. CASE UNCHANGED hostVars
  <2> USE <1>5 DEF hostVars
  <2>1. TypeOK' /\ JobFits'
    BY DEF HInv, TypeOK, JobFits
  <2>2. StoreFits'
    BY DEF HInv, StoreFits, InStore, Whole, SavedInStore
  <2>3. PackageFits' /\ SavedIsRecent'
    BY DEF HInv, PackageFits, Cur, Ver, Whole, SavedIsRecent, AllRecent
  <2> QED BY <2>1, <2>2, <2>3 DEF HInv
<1> QED BY <1>1, <1>2, <1>3, <1>4, <1>5 DEF Next

LEMMA HostInvariant == Spec => []HInv
<1>1. Init => HInv
  BY InitH
<1>2. HInv /\ [Next]_hostVars => HInv'
  BY NextH
<1> QED BY <1>1, <1>2, PTL DEF Spec

(***************************************************************************)
(* What follows of the invariant                                           *)
(***************************************************************************)
\* Of install_skill, trim_previous and sha_referenced: what reconcile removes is never
\* what the host runs, and what it runs was sealed whole, however many versions are
\* kept and however fetches, writes and stops fall.
THEOREM RunsWhatItHas == Spec => []ActiveInStore
<1>1. HInv => ActiveInStore
  BY DEF HInv, StoreFits, InStore, Whole, ActiveInStore
<1> QED BY <1>1, HostInvariant, PTL

\* Of write_state, trim_previous and verify_active: the versions state.json names stay in
\* the store while fewer sets than keep_previous_versions were applied without saving.
THEOREM RestartFindsWhatItSaved == Spec => []SavedInStore
<1>1. HInv => SavedInStore
  BY DEF HInv, StoreFits
<1> QED BY <1>1, HostInvariant, PTL

(***************************************************************************)
(* The steps of the host are steps of SkillSet                             *)
(***************************************************************************)
Gen == IF pc = "down" THEN file.gen ELSE mem.gen
Running == [n \in Names |-> IF pc = "down" THEN file.skills[n].ver ELSE mem.skills[n].ver]
OnFile == [gen |-> file.gen, ver |-> [n \in Names |-> file.skills[n].ver]]
Aim == [gen |-> job.gen, want |-> job.want]

NoAim == [gen |-> 0, want |-> [n \in Names |-> None]]
Restarted(lost) == IF lost = {} THEN OnFile
                   ELSE [gen |-> 0, ver |-> [n \in Names |-> IF n \in lost THEN None ELSE OnFile.ver[n]]]
OutcomeOf(vs) == \A n \in Names : vs[n] \in IF job.want[n] = None THEN {None} ELSE {job.want[n], Running[n]}

\* SkillSet as it reads of the host's state.
LEMMA PromiseTerms ==
    /\ UNCHANGED <<Gen, Running, OnFile, Aim>> => UNCHANGED Promised!setVars
    /\ Gen = 0 /\ Running = [n \in Names |-> None] /\ OnFile = [gen |-> 0, ver |-> Running] /\ Aim = NoAim
           => Promised!Init
    /\ \A g \in 1..MaxGen, want \in [Names -> VersOrNone] :
           Aim = NoAim /\ g >= Gen /\ Aim' = [gen |-> g, want |-> want]
             /\ UNCHANGED <<Gen, Running, OnFile>> => Promised!Next
    /\ Aim # NoAim /\ OnFile'.gen = job.gen /\ OutcomeOf(OnFile'.ver) /\ UNCHANGED <<Gen, Running, Aim>>
           => Promised!Next
    /\ Aim # NoAim /\ Gen' = job.gen /\ OutcomeOf(Running') /\ Aim' = NoAim /\ UNCHANGED OnFile
           => Promised!Next
    /\ \A lost \in SUBSET Names :
           OnFile' = Restarted(lost) /\ Gen' = OnFile'.gen /\ Running' = OnFile'.ver /\ Aim' = NoAim
             => Promised!Next
<1> USE DEF Gen, Running, OnFile, Aim, NoAim, None, Promised!None
<1>1. UNCHANGED <<Gen, Running, OnFile, Aim>> => UNCHANGED Promised!setVars
  BY DEF Promised!setVars
<1>2. Gen = 0 /\ Running = [n \in Names |-> None] /\ OnFile = [gen |-> 0, ver |-> Running] /\ Aim = NoAim
        => Promised!Init
  BY DEF Promised!Init, Promised!Idle
<1>3. ASSUME NEW g \in 1..MaxGen, NEW want \in [Names -> VersOrNone],
             Aim = NoAim, g >= Gen, Aim' = [gen |-> g, want |-> want], UNCHANGED <<Gen, Running, OnFile>>
      PROVE  Promised!Next
  <2>1. Promised!Begin(g, want)
    BY <1>3 DEF Promised!Begin, Promised!Idle
  <2>2. want \in [Names -> Promised!VersOrNone]
    BY DEF VersOrNone, Promised!VersOrNone
  <2> QED BY <2>1, <2>2 DEF Promised!Next
<1>4. ASSUME Aim # NoAim, OnFile'.gen = job.gen, OutcomeOf(OnFile'.ver), UNCHANGED <<Gen, Running, Aim>>
      PROVE  Promised!Next
  <2>1. Promised!Save
    BY <1>4 DEF Promised!Save, Promised!Idle, Promised!Outcome, OutcomeOf
  <2> QED BY <2>1 DEF Promised!Next
<1>5. ASSUME Aim # NoAim, Gen' = job.gen, OutcomeOf(Running'), Aim' = NoAim, UNCHANGED OnFile
      PROVE  Promised!Next
  <2>1. Promised!Apply
    BY <1>5 DEF Promised!Apply, Promised!Idle, Promised!Outcome, OutcomeOf
  <2> QED BY <2>1 DEF Promised!Next
<1>6. ASSUME NEW lost \in SUBSET Names,
             OnFile' = Restarted(lost), Gen' = OnFile'.gen, Running' = OnFile'.ver, Aim' = NoAim
      PROVE  Promised!Next
  <2>1. Promised!Restart(lost)
    BY <1>6 DEF Promised!Restart, Promised!Idle, Restarted
  <2> QED BY <2>1 DEF Promised!Next
<1> HIDE DEF Gen, Running, OnFile, Aim, NoAim, None, Promised!None
<1>7. \A g \in 1..MaxGen, want \in [Names -> VersOrNone] :
         Aim = NoAim /\ g >= Gen /\ Aim' = [gen |-> g, want |-> want]
           /\ UNCHANGED <<Gen, Running, OnFile>> => Promised!Next
  BY <1>3
<1>8. \A lost \in SUBSET Names :
         OnFile' = Restarted(lost) /\ Gen' = OnFile'.gen /\ Running' = OnFile'.ver /\ Aim' = NoAim
           => Promised!Next
  BY <1>6
<1> QED BY <1>1, <1>2, <1>4, <1>5, <1>7, <1>8

LEMMA PromisedInit == Init => Promised!Init
<1> SUFFICES ASSUME Init PROVE Promised!Init
  OBVIOUS
<1>1. Gen = 0 /\ Running = [n \in Names |-> None] /\ OnFile = [gen |-> 0, ver |-> Running] /\ Aim = NoAim
  BY NothingYet DEF Init, Gen, Running, OnFile, Aim, NoAim, Stopped, NoJob
<1> QED BY <1>1, PromiseTerms

\* No step of an install changes what the host runs, saved or works towards.
LEMMA InstallStutters == ASSUME HInv, Install \/ Hang \/ (\E n \in Names : Pick(n)) PROVE UNCHANGED Promised!setVars
<1>1. file' = file /\ mem' = mem /\ pc # "down" /\ pc' # "down"
  BY DEF Install, Pick, Try, Refused, Attempt, Retry, Fetch, Hang, Resume, Verify, Open, GiveUp,
         Seal, Place, Drop
<1>2. job \in Jobs
  BY DEF HInv, TypeOK
<1>3. job'.gen = job.gen /\ job'.want = job.want
  <2>1. CASE GiveUp
    BY <1>2, <2>1 DEF GiveUp, Jobs
  <2>2. CASE ~GiveUp
    BY <1>2, <2>2 DEF Install, Pick, Try, Refused, Attempt, Retry, Fetch, Hang, Resume, Verify, Open, Seal,
           Place, Drop, Jobs
  <2> QED BY <2>1, <2>2
<1>4. UNCHANGED <<Gen, Running, OnFile, Aim>>
  BY <1>1, <1>3 DEF Gen, Running, OnFile, Aim
<1> QED BY <1>4, PromiseTerms

LEMMA PromisedStep == ASSUME HInv, HInv', [Next]_hostVars PROVE [Promised!Next]_Promised!setVars
<1>1. /\ TypeOK /\ JobFits /\ job \in Jobs
      /\ mem \in [gen : Nat, seen : Nat, skills : Skills, failed : SUBSET Names]
      /\ file \in [gen : Nat, skills : Skills]
  BY DEF HInv, TypeOK
<1>2. NoJob.gen = 0 /\ NoJob.want = [n \in Names |-> None]
  BY DEF NoJob
<1>3. job.gen # 0 => Aim # NoAim
  BY DEF Aim, NoAim
<1>4. ASSUME NEW g \in 1..MaxGen, NEW want \in Wants, Begin(g, want) PROVE Promised!Next
  <2>1. Aim = NoAim /\ pc = "idle" /\ pc' = "next" /\ file' = file
    BY <1>1, <1>2, <1>4 DEF Begin, JobFits, Aim, NoAim
  <2>2. mem'.gen = mem.gen /\ mem'.skills = mem.skills
    BY <1>1, <1>4 DEF Begin
  <2>3. job'.gen = g /\ job'.want = want
    BY <1>4 DEF Begin, NoJob
  <2>4. g >= mem.gen
    BY <1>1, <1>4, HostAssumption DEF Begin, Noop
  <2>5. want \in [Names -> VersOrNone]
    BY DEF Wants
  <2>6. g >= Gen /\ Aim' = [gen |-> g, want |-> want] /\ UNCHANGED <<Gen, Running, OnFile>>
    BY <2>1, <2>2, <2>3, <2>4 DEF Gen, Aim, Running, OnFile
  <2> QED BY <2>1, <2>5, <2>6, PromiseTerms
<1>5. ASSUME WriteState PROVE [Promised!Next]_Promised!setVars
  <2>1. pc = "next" /\ pc' = "switch" /\ UNCHANGED <<mem, job>>
    BY <1>5 DEF WriteState
  <2>2. UNCHANGED <<Gen, Running, Aim>>
    BY <2>1 DEF Gen, Running, Aim
  <2>3. CASE file' = [gen |-> job.gen, skills |-> job.active]
    <3>1. OnFile'.gen = job.gen /\ \A n \in Names : OnFile'.ver[n] = job.active[n].ver
      BY <2>3 DEF OnFile
    <3>2. \A n \in Names : Running[n] = mem.skills[n].ver
      BY <2>1 DEF Running
    <3>3. job.gen # 0 /\ \A n \in Names :
              job.active[n].ver \in IF job.want[n] = None THEN {None} ELSE {job.want[n], mem.skills[n].ver}
      BY <1>1, <2>1 DEF JobFits
    <3>4. OutcomeOf(OnFile'.ver)
      BY <3>1, <3>2, <3>3 DEF OutcomeOf
    <3> QED BY <1>3, <2>2, <3>1, <3>3, <3>4, PromiseTerms
  <2>4. CASE file' = file
    <3>1. OnFile' = OnFile
      BY <2>4 DEF OnFile
    <3> QED BY <2>2, <3>1, PromiseTerms
  <2> QED BY <1>5, <2>3, <2>4 DEF WriteState
<1>6. ASSUME Switch PROVE Promised!Next
  <2>1. pc = "switch" /\ pc' = "idle" /\ job' = NoJob /\ file' = file
        /\ mem'.gen = job.gen /\ mem'.skills = job.active
    BY <1>6 DEF Switch
  <2>2. Gen' = job.gen /\ Aim' = NoAim /\ UNCHANGED OnFile /\ \A n \in Names : Running'[n] = job.active[n].ver
    BY <1>2, <2>1 DEF Gen, Aim, NoAim, OnFile, Running
  <2>3. \A n \in Names : Running[n] = mem.skills[n].ver
    BY <2>1 DEF Running
  <2>4. job.gen # 0 /\ \A n \in Names :
            job.active[n].ver \in IF job.want[n] = None THEN {None} ELSE {job.want[n], mem.skills[n].ver}
    BY <1>1, <2>1 DEF JobFits
  <2>5. OutcomeOf(Running')
    BY <2>2, <2>3, <2>4 DEF OutcomeOf
  <2> QED BY <1>3, <2>2, <2>4, <2>5, PromiseTerms
<1>7. ASSUME Stop PROVE Promised!Next
  <2>1. pc' = "down" /\ job' = NoJob /\ file' = file
    BY <1>7 DEF Stop
  <2>2. OnFile' = OnFile /\ Gen' = OnFile'.gen /\ Running' = OnFile'.ver /\ Aim' = NoAim
    BY <1>2, <2>1 DEF Gen, Aim, NoAim, OnFile, Running
  <2>3. {} \in SUBSET Names
    OBVIOUS
  <2> QED BY <2>2, <2>3, PromiseTerms DEF Restarted
<1>8. ASSUME Start PROVE [Promised!Next]_Promised!setVars
  <2>1. pc = "down" /\ job = NoJob /\ job' = NoJob /\ Tampered \in SUBSET Names
    BY <1>1, <1>8 DEF Start, JobFits, Tampered
  <2>2. CASE UNCHANGED <<file, mem, pc>>
    <3>1. UNCHANGED <<Gen, Running, OnFile, Aim>>
      BY <2>1, <2>2 DEF Gen, Aim, OnFile, Running
    <3> QED BY <3>1, PromiseTerms
  <2>3. CASE /\ file' = IF Tampered = {} THEN file
                        ELSE [gen |-> 0, skills |-> [n \in Names |-> IF n \in Tampered THEN Off ELSE file.skills[n]]]
             /\ mem' = [gen |-> file'.gen, seen |-> file'.gen, skills |-> file'.skills, failed |-> Tampered]
             /\ pc' = "idle"
    <3>1. Gen' = OnFile'.gen /\ Running' = OnFile'.ver /\ Aim' = NoAim
      BY <1>2, <2>1, <2>3 DEF Gen, Aim, NoAim, OnFile, Running
    <3>2. CASE Tampered = {}
      <4>1. OnFile' = OnFile
        BY <2>3, <3>2 DEF OnFile
      <4> QED BY <2>1, <3>1, <3>2, <4>1, PromiseTerms DEF Restarted
    <3>3. CASE Tampered # {}
      <4>1. OnFile' = [gen |-> 0, ver |-> [n \in Names |-> IF n \in Tampered THEN None ELSE OnFile.ver[n]]]
        BY <2>3, <3>3, NothingYet DEF OnFile
      <4> QED BY <2>1, <3>1, <3>3, <4>1, PromiseTerms DEF Restarted
    <3> QED BY <3>2, <3>3
  <2> QED BY <1>8, <2>2, <2>3 DEF Start
<1>9. ASSUME NEW n \in Names, NEW v \in Offered[n], Damage(n, v) PROVE UNCHANGED Promised!setVars
  <2>1. UNCHANGED <<Gen, Running, OnFile, Aim>>
    BY <1>9 DEF Damage, Gen, Aim, OnFile, Running
  <2> QED BY <2>1, PromiseTerms
<1>10. CASE UNCHANGED hostVars
  <2>1. UNCHANGED <<Gen, Running, OnFile, Aim>>
    BY <1>10 DEF hostVars, Gen, Aim, OnFile, Running
  <2> QED BY <2>1, PromiseTerms
<1> QED BY <1>4, <1>5, <1>6, <1>7, <1>8, <1>9, <1>10, InstallStutters DEF Next, Reconcile

\* Of reconcile, write_state and SkillHost::open: whatever fails on the way, the host
\* goes from one set of versions to the next only as a whole, a skill that could not be
\* installed keeps its version, and a restart brings back what was saved.
THEOREM HostKeepsItsPromise == Spec => KeepsPromise
<1>1. Init => Promised!Init
  BY PromisedInit
<1>2. HInv /\ HInv' /\ [Next]_hostVars => [Promised!Next]_Promised!setVars
  BY PromisedStep
<1> QED BY <1>1, <1>2, HostInvariant, PTL DEF Spec, KeepsPromise, Promised!Spec

(***************************************************************************)
(* SkillRun                                                                *)
(***************************************************************************)
Listed == {CenterGrant(e) : e \in pkg.caps}

Results ==
    {"none", "answered", "capability_denied", "capability_unsupported", "invalid_params", "unlinked"}

TaskRecords ==
    [pc : {"idle", "load", "start", "guest", "host", "ending"}, ver : Nat, sem : Nat,
     left : 0..Ticks, age : Nat, shared : BOOLEAN, ticker : BOOLEAN, code : Nat, denials : Nat,
     result : Results]

RunTypeOK ==
    /\ stage # "installed" => pkg \in Package
    /\ pkg.caps \in SUBSET Capability
    /\ DOMAIN grants = {"center", "node"}
    /\ active.ver \in Nat /\ permits.id \in Nat /\ cache \in Nat
    /\ task \in [Tasks -> TaskRecords]

\* Nothing runs before the package is installed.
RunsLater == stage # "installed" => task = [t \in Tasks |-> Idle]

\* What the center accepted stays as it was until the node has taken it, and both
\* hold its grants.
AcceptedStays ==
    /\ stage \in {"registered", "held", "desired", "failed"} =>
          CenterAccepts(pkg) /\ grants.center = Listed
    /\ stage = "failed" => ~NodeInstalls(pkg)
    /\ stage = "installed" =>
          /\ \A e \in pkg.caps : ValidateCapability(e)
          /\ grants.center = Listed
          /\ grants.node = {GrantString(e) : e \in pkg.caps}

\* What is wrong with the package when a run is answered as every run of it is.
Faulty(result) ==
    CASE result = "capability_unsupported" -> \E g \in grants.node : ~ParseGrant(g)
      [] result = "invalid_params" -> pkg.schema = "odd"
      [] result = "unlinked" -> pkg.wasm = "unlinked"
      [] OTHER -> TRUE

FaultsFit == \A t \in Tasks : stage = "installed" => Faulty(task[t].result)

\* The time that a guest which was always alone has had and has left.
HadItsTime(r) == ~r.shared => r.left + r.age >= Ticks
TimeFits == \A t \in Guests : HadItsTime(task[t])

RunInv ==
    RunTypeOK /\ RunsLater /\ AcceptedStays /\ FaultsFit /\ TimeFits /\ RunsItsModule

-----------------------------------------------------------------------------
(* What the readers of a package agree on                                     *)

LEMMA NamedByAll ==
    ASSUME NEW g, Fits(CenterKinds, g)
    PROVE  g.name # "" /\ g.name \in NodeCatalog /\ Fits(RuntimeKinds, g)
<1>1. CenterKinds = RuntimeKinds
  BY DEF CenterKinds, RuntimeKinds
<1>2. g.name \in {"fs.read", "fs.stat", "env.read", "sys.info.read"}
  BY DEF Fits, CenterKinds
<1> QED BY <1>1, <1>2 DEF NodeCatalog

LEMMA SameGrant == ASSUME NEW e, e.grant = NoGrant PROVE GrantString(e) = CenterGrant(e)
BY DEF GrantString, CenterGrant

\* Where the entries have no key `grant`, the node reads what the center accepted.
LEMMA NodeLoadsAccepted ==
    ASSUME NEW p \in Package, CenterAccepts(p), \A e \in p.caps : e.grant = NoGrant,
           p.limits # "text"
    PROVE  NodeLoads(p)
<1>1. NodeUnpacks(p) /\ "module.wasm" \in p.files
  BY DEF CenterAccepts, Unpacks, IsWasm, Required, AllowedFiles, NodeUnpacks
<1>2. \A e \in p.caps : GrantString(e).name # "" /\ GrantString(e).name \in NodeCatalog
  BY SameGrant, NamedByAll DEF CenterAccepts, ValidateCapability
<1>3. p.name # "" /\ p.abi /\ VerifyFileHashes(p)
  BY DEF CenterAccepts, ValidSkillName, SumsMatch, VerifyFileHashes
<1> QED BY <1>1, <1>2, <1>3 DEF NodeLoads, ParseManifest

LEMMA NodeInstallsAccepted ==
    ASSUME NEW p \in Package, CenterAccepts(p), ~NodeInstalls(p)
    PROVE  \/ \E e \in p.caps : e.grant # NoGrant
           \/ p.limits = "text" \/ "slash" \notin p.platforms \/ p.wasm = "other"
<1>1. p.wasm \in {"component", "unlinked", "other"}
  BY DEF Package, CenterAccepts, IsWasm
<1> QED BY <1>1, NodeLoadsAccepted DEF NodeInstalls, CompileCwasm

LEMMA InRange == ASSUME NEW p \in Seq(STRING), NEW s \in Range(p) PROVE Contains(p, s)
<1>1. PICK i \in DOMAIN p : p[i] = s
  BY DEF Range
<1>2. DOMAIN p = 1..Len(p)
  OBVIOUS
<1> QED BY <1>1, <1>2 DEF Contains

\* Only the segments that the runtime alone refuses pass the center and fail there.
LEMMA OnlyStricterFail ==
    ASSUME NEW e \in Capability, e.grant = NoGrant, ValidateCapability(e),
           ~ParseGrant(GrantString(e))
    PROVE  StricterHere(GrantString(e))
<1> DEFINE g == GrantString(e)
<1>1. g = CenterGrant(e) /\ g.scope \in Scopes
  BY SameGrant DEF CenterGrant, Grant, Capability
<1>2. Fits(RuntimeKinds, g)
  BY <1>1, NamedByAll DEF ValidateCapability
<1>3. g.scope.kind = "path" /\ ~ValidPathGlob(g.scope.path)
  BY <1>2 DEF ParseGrant
<1>4. g.scope.path \in Seq(STRING)
  BY <1>1, <1>3 DEF Scopes
<1>5. ValidCenterPath(g.scope.path)
  BY <1>1, <1>3 DEF ValidateCapability
<1>6. PICK s \in RuntimeRefuses : s \in Range(g.scope.path)
  BY <1>3, <1>5 DEF ValidPathGlob, ValidCenterPath
<1>7. Contains(g.scope.path, s)
  BY <1>4, <1>6, InRange
<1> QED BY <1>3, <1>6, <1>7 DEF StricterHere

-----------------------------------------------------------------------------
(* Guests on one epoch                                                        *)

LEMMA TickersCount ==
    ASSUME NEW t \in Ticking
    PROVE  /\ Tickers \in Nat /\ Cardinality(Ticking) \in Nat /\ Cardinality(Ticking) >= 1
           /\ Tickers <= Cardinality(Ticking)
<1>1. IsFiniteSet(Tasks)
  <2>1. IsFiniteSet({} \cup {"session"})
    BY FS_EmptySet, FS_AddElement
  <2>2. IsFiniteSet(({} \cup {"session"}) \cup {"scheduler"})
    BY <2>1, FS_AddElement
  <2> QED BY <2>2 DEF Tasks
<1>2. IsFiniteSet(Ticking)
  BY <1>1, FS_Subset DEF Ticking
<1>3. Cardinality(Ticking) \in Nat /\ Cardinality(Ticking) # 0
  BY <1>2, FS_CardinalityType, FS_EmptySet
<1>4. IsFiniteSet(Clocks) /\ Cardinality(Clocks) <= Cardinality(Ticking)
  <2>1. Clocks \subseteq Ticking
    BY DEF Clocks
  <2> QED BY <1>2, <2>1, FS_Subset
<1>5. Cardinality(Clocks) \in Nat
  BY <1>4, FS_CardinalityType
<1> QED BY <1>3, <1>4, <1>5 DEF Tickers

LEMMA IdleType == Idle \in TaskRecords
<1>1. 0 \in 0..Ticks
  BY RunAssumption
<1> QED BY <1>1 DEF Idle, TaskRecords, Results, NoVer

LEMMA InitR == RunInit => RunInv
<1> SUFFICES ASSUME RunInit PROVE RunInv
  OBVIOUS
<1>1. RunTypeOK
  BY RunAssumption, IdleType DEF RunInit, RunTypeOK, NoVer, Package
<1>2. \A t \in Tasks : task[t] = Idle
  BY DEF RunInit
<1> QED BY <1>1, <1>2
        DEF RunInit, RunInv, RunsLater, AcceptedStays, FaultsFit, TimeFits, RunsItsModule,
            Guests, Idle

-----------------------------------------------------------------------------
(* The way to the node: no task runs on it                                    *)

\* What a step on the way has to keep.
LEMMA WayKeeps ==
    ASSUME RunInv, NEW from, NEW to, from # "installed", Moves(from, to),
           pkg'.caps \in SUBSET Capability, to # "installed" => pkg' \in Package,
           DOMAIN grants' = {"center", "node"}, AcceptedStays'
    PROVE  RunInv'
<1>1. stage' = to /\ UNCHANGED <<active, permits, cache, task>> /\ task' = [t \in Tasks |-> Idle]
  BY DEF RunInv, RunsLater, Moves
<1>2. RunTypeOK'
  BY <1>1 DEF RunInv, RunTypeOK
<1>3. \A t \in Tasks : task'[t] = Idle
  BY <1>1
<1> QED BY <1>1, <1>2, <1>3
        DEF RunInv, RunsLater, FaultsFit, Faulty, TimeFits, RunsItsModule, Guests, Idle

LEMMA PackedType == ASSUME NEW p \in Package PROVE Packed(p) \in Package
<1>1. ASSUME NEW e \in Capability PROVE Normalized(e) \in Capability
  <2>1. Preferred(e) \in [name : STRING, scope : Scopes]
    BY DEF Preferred, Grant, Capability
  <2> QED BY <2>1 DEF Normalized, Capability
<1>2. p.files \cap AllowedFiles \in SUBSET STRING /\ {Normalized(e) : e \in p.caps} \in SUBSET Capability
  BY <1>1 DEF Package
<1> QED BY <1>2 DEF Packed, Package

LEMMA PackR == ASSUME RunInv, Pack PROVE RunInv'
<1>1. pkg \in Package /\ pkg' \in Package
  BY PackedType DEF RunInv, RunTypeOK, Pack, Moves
<1>2. pkg'.caps \in SUBSET Capability
  BY <1>1 DEF Package
<1>3. AcceptedStays'
  BY DEF Pack, Moves, AcceptedStays
<1>4. DOMAIN grants' = {"center", "node"}
  BY DEF Pack, RunInv, RunTypeOK
<1> QED BY <1>1, <1>2, <1>3, <1>4, WayKeeps DEF Pack

LEMMA SendR == ASSUME RunInv, Publish \/ UploadByHand PROVE RunInv'
<1>1. AcceptedStays'
  BY DEF Publish, UploadByHand, Moves, AcceptedStays
<1>2. pkg \in Package /\ pkg' = pkg /\ grants' = grants
  BY DEF Publish, UploadByHand, Moves, RunInv, RunTypeOK
<1>3. pkg'.caps \in SUBSET Capability /\ DOMAIN grants' = {"center", "node"}
  BY <1>2 DEF RunInv, RunTypeOK
<1>4. CASE Publish
  BY <1>1, <1>2, <1>3, <1>4, WayKeeps DEF Publish
<1>5. CASE UploadByHand
  BY <1>1, <1>2, <1>3, <1>5, WayKeeps DEF UploadByHand
<1> QED BY <1>4, <1>5

LEMMA RegisterR == ASSUME RunInv, Register PROVE RunInv'
<1>1. pkg \in Package /\ pkg' = pkg /\ pkg'.caps \in SUBSET Capability
  BY DEF Register, Moves, RunInv, RunTypeOK
<1>2. DOMAIN grants' = {"center", "node"} /\ (CenterAccepts(pkg) => grants'.center = Listed)
  BY DEF Register, RunInv, RunTypeOK, Listed
<1>3. AcceptedStays'
  BY <1>1, <1>2 DEF Register, Moves, AcceptedStays, Listed
<1> QED BY <1>1, <1>2, <1>3, WayKeeps DEF Register

LEMMA PlanR == ASSUME RunInv, Plan PROVE RunInv'
<1>1. pkg \in Package /\ pkg' = pkg /\ grants' = grants
  BY DEF Plan, Moves, RunInv, RunTypeOK
<1>2. pkg'.caps \in SUBSET Capability /\ DOMAIN grants' = {"center", "node"}
  BY <1>1 DEF RunInv, RunTypeOK
<1>3. AcceptedStays'
  BY <1>1 DEF Plan, Moves, RunInv, AcceptedStays, Listed
<1> QED BY <1>1, <1>2, <1>3, WayKeeps DEF Plan

LEMMA InstallR == ASSUME RunInv, InstallSkill PROVE RunInv'
<1>1. /\ pkg \in Package /\ pkg.caps \in SUBSET Capability
      /\ CenterAccepts(pkg) /\ grants.center = Listed
  BY DEF InstallSkill, Moves, RunInv, RunTypeOK, AcceptedStays
<1>2. DOMAIN grants' = {"center", "node"} /\ grants'.center = grants.center
  BY DEF InstallSkill, RunInv, RunTypeOK
<1>3. pkg'.caps = pkg.caps
  BY DEF InstallSkill
<1>4. CASE NodeInstalls(pkg)
  <2>1. stage' = "installed" /\ grants'.node = {GrantString(e) : e \in pkg.caps}
    BY <1>4 DEF InstallSkill, Moves, RunInv, RunTypeOK
  <2>2. AcceptedStays'
    BY <1>1, <1>2, <1>3, <2>1 DEF AcceptedStays, Listed, CenterAccepts
  <2> QED BY <1>1, <1>2, <1>3, <1>4, <2>2, WayKeeps DEF InstallSkill
<1>5. CASE ~NodeInstalls(pkg)
  <2>1. stage' = "failed" /\ pkg' = pkg
    BY <1>5 DEF InstallSkill, Moves
  <2>2. AcceptedStays'
    BY <1>1, <1>2, <1>5, <2>1 DEF AcceptedStays, Listed
  <2> QED BY <1>1, <1>2, <1>3, <1>5, <2>1, <2>2, WayKeeps DEF InstallSkill
<1> QED BY <1>4, <1>5

-----------------------------------------------------------------------------
(* The runs on the node                                                       *)

\* What a task comes to has to fit for the invariant to hold.
TaskFits(r) ==
    /\ Faulty(r.result)
    /\ r.pc \in {"guest", "host"} => HadItsTime(r) /\ (r.code = r.ver \/ alike)

LEMMA TasksFit == ASSUME RunInv, Runs, NEW t \in Tasks PROVE task[t] \in TaskRecords /\ TaskFits(task[t])
BY DEF Runs, RunInv, RunTypeOK, FaultsFit, TimeFits, RunsItsModule, Guests, TaskFits

LEMMA TasksKeep ==
    ASSUME RunInv, Runs, active'.ver \in Nat, permits'.id \in Nat, cache' \in Nat,
           task' \in [Tasks -> TaskRecords], \A t \in Tasks : TaskFits(task'[t])
    PROVE  RunInv'
<1>1. stage = "installed" /\ UNCHANGED <<pkg, stage, grants, alike>>
  BY DEF Runs
<1>2. RunTypeOK'
  BY <1>1 DEF RunInv, RunTypeOK
<1>3. RunsLater' /\ AcceptedStays'
  BY <1>1 DEF RunInv, RunsLater, AcceptedStays, Listed
<1>4. FaultsFit' /\ TimeFits' /\ RunsItsModule'
  BY <1>1 DEF TaskFits, FaultsFit, Faulty, TimeFits, RunsItsModule, Guests
<1> QED BY <1>2, <1>3, <1>4 DEF RunInv

LEMMA OneTask ==
    ASSUME RunInv, Runs, NEW t \in Tasks, NEW r \in TaskRecords, TaskFits(r),
           task' = [task EXCEPT ![t] = r],
           active'.ver \in Nat, permits'.id \in Nat, cache' \in Nat
    PROVE  RunInv'
<1>1. task \in [Tasks -> TaskRecords]
  BY DEF RunInv, RunTypeOK
<1>2. task' \in [Tasks -> TaskRecords]
  BY <1>1
<1>3. \A u \in Tasks : TaskFits(task'[u])
  BY <1>1, TasksFit
<1> QED BY <1>2, <1>3, TasksKeep

LEMMA AnswerR ==
    ASSUME RunInv, Runs, UNCHANGED <<active, permits, cache>>, NEW t \in Tasks,
           NEW result \in Results, Answer(t, result), Faulty(result)
    PROVE  RunInv'
<1> DEFINE r == [Idle EXCEPT !.result = result]
<1>1. r \in TaskRecords /\ TaskFits(r)
  BY IdleType DEF TaskRecords, TaskFits, Idle
<1>2. active'.ver \in Nat /\ permits'.id \in Nat /\ cache' \in Nat
  BY DEF RunInv, RunTypeOK
<1> QED BY <1>1, <1>2, OneTask DEF Answer

LEMMA TakeR == ASSUME RunInv, NEW t \in Tasks, Take(t) PROVE RunInv'
<1> DEFINE r == [Idle EXCEPT !.pc = "load", !.ver = active.ver]
<1>1. active'.ver \in Nat /\ permits'.id \in Nat /\ cache' \in Nat
  BY DEF Take, RunInv, RunTypeOK
<1>2. r \in TaskRecords /\ TaskFits(r)
  BY <1>1, IdleType DEF TaskRecords, TaskFits, Faulty, Idle, Take
<1> QED BY <1>1, <1>2, OneTask DEF Take

LEMMA LoadR == ASSUME RunInv, NEW t \in Tasks, Load(t) PROVE RunInv'
<1> DEFINE r == [task[t] EXCEPT !.pc = "start", !.sem = permits.id]
<1>1. \/ \E result \in {"answered", "invalid_params"} : Answer(t, result) /\ Faulty(result)
      \/ task' = [task EXCEPT ![t].pc = "start", ![t].sem = permits.id]
  BY DEF Load, Faulty
<1>2. CASE \E result \in {"answered", "invalid_params"} : Answer(t, result) /\ Faulty(result)
  BY <1>2, AnswerR DEF Load, Results
<1>3. CASE task' = [task EXCEPT ![t].pc = "start", ![t].sem = permits.id]
  <2>1. task \in [Tasks -> TaskRecords]
    BY DEF RunInv, RunTypeOK
  <2>2. task' = [task EXCEPT ![t] = r]
    BY <1>3, <2>1 DEF TaskRecords
  <2>3. active'.ver \in Nat /\ permits'.id \in Nat /\ cache' \in Nat
    BY DEF Load, RunInv, RunTypeOK
  <2>4. r \in TaskRecords /\ TaskFits(r)
    BY <2>1, <2>3, TasksFit DEF Load, TaskRecords, TaskFits
  <2> QED BY <2>2, <2>3, <2>4, OneTask DEF Load
<1> QED BY <1>1, <1>2, <1>3

\* A run that enters is a guest with its whole time, or over at once.
LEMMA EnteredFits ==
    ASSUME RunInv, Runs, NEW t \in Tasks, NEW code \in Nat, NEW ticker \in BOOLEAN,
           code = task[t].ver \/ alike
    PROVE  Entered(t, code, ticker) \in TaskRecords /\ TaskFits(Entered(t, code, ticker))
<1>1. task[t] \in TaskRecords /\ TaskFits(task[t]) /\ Ticks \in 0..Ticks
  BY TasksFit, RunAssumption
<1>2. CASE pkg.wasm = "unlinked"
  <2> DEFINE r == [Idle EXCEPT !.pc = "ending", !.sem = task[t].sem, !.ticker = ticker,
                               !.result = "unlinked"]
  <2>1. r \in TaskRecords /\ r.pc = "ending" /\ r.result = "unlinked"
    BY <1>1, IdleType DEF TaskRecords, Idle, Results
  <2> QED BY <1>2, <2>1 DEF Entered, TaskFits, Faulty
<1>3. CASE pkg.wasm # "unlinked"
  <2> DEFINE r == [task[t] EXCEPT !.pc = "guest", !.code = code, !.left = Ticks, !.ticker = ticker]
  <2>1. r \in TaskRecords /\ r.left = Ticks
    BY <1>1 DEF TaskRecords
  <2>2. r.age \in Nat /\ r.code = code /\ r.ver = task[t].ver /\ r.result = task[t].result
    BY <1>1 DEF TaskRecords
  <2>3. HadItsTime(r)
    BY <2>1, <2>2, RunAssumption DEF HadItsTime
  <2>4. TaskFits(r)
    BY <1>1, <2>2, <2>3 DEF TaskFits
  <2> QED BY <1>3, <2>1, <2>4 DEF Entered
<1> QED BY <1>2, <1>3

LEMMA EnterR == ASSUME RunInv, NEW t \in Tasks, Enter(t) PROVE RunInv'
<1>1. task \in [Tasks -> TaskRecords] /\ active'.ver \in Nat /\ permits'.id \in Nat /\ cache \in Nat
  BY DEF Enter, RunInv, RunTypeOK
<1>2. CASE /\ cache' = Component(task[t].ver)
           /\ \E ticker \in BOOLEAN : task' = [task EXCEPT ![t] = Entered(t, cache', ticker)]
  <2>1. cache' \in Nat /\ (cache' = task[t].ver \/ alike)
    BY <1>1, <1>2 DEF Component, TaskRecords
  <2> QED BY <1>1, <1>2, <2>1, EnteredFits, OneTask DEF Enter
<1>3. CASE /\ Answer(t, IF \A g \in grants.node : ParseGrant(g)
                        THEN "answered" ELSE "capability_unsupported")
           /\ UNCHANGED cache
  <2> DEFINE result == IF \A g \in grants.node : ParseGrant(g)
                       THEN "answered" ELSE "capability_unsupported"
  <2>1. result \in Results /\ Faulty(result)
    BY DEF Results, Faulty
  <2> QED BY <1>3, <2>1, AnswerR DEF Enter
<1> QED BY <1>2, <1>3 DEF Enter

LEMMA FinishR ==
    ASSUME RunInv, Runs, UNCHANGED <<active, permits, cache>>, NEW t \in Tasks, Finish(t)
    PROVE  RunInv'
<1> DEFINE result == IF task[t].denials > 0 THEN "capability_denied" ELSE "answered"
           r == [Idle EXCEPT !.pc = "ending", !.sem = task[t].sem, !.ticker = task[t].ticker,
                             !.result = result]
<1>1. task[t].sem \in Nat /\ task[t].ticker \in BOOLEAN
  BY TasksFit DEF TaskRecords
<1>2. result \in Results /\ Faulty(result)
  BY DEF Results, Faulty
<1>3. r \in TaskRecords /\ TaskFits(r)
  BY <1>1, <1>2, IdleType DEF TaskRecords, TaskFits, Idle
<1>4. active'.ver \in Nat /\ permits'.id \in Nat /\ cache' \in Nat
  BY DEF RunInv, RunTypeOK
<1> QED BY <1>3, <1>4, OneTask DEF Finish

LEMMA OverFits == ASSUME RunInv, Runs, NEW t \in Tasks PROVE Over(t) \in TaskRecords /\ TaskFits(Over(t))
<1>1. task[t].result \in Results
  BY TasksFit DEF TaskRecords
<1> QED BY <1>1, TasksFit, IdleType DEF Over, TaskRecords, TaskFits, Idle

LEMMA JoinR == ASSUME RunInv, NEW t \in Tasks, Join(t) PROVE RunInv'
<1>1. active'.ver \in Nat /\ permits'.id \in Nat /\ cache' \in Nat
  BY DEF Join, RunInv, RunTypeOK
<1> QED BY <1>1, OverFits, OneTask DEF Join

LEMMA CallR == ASSUME RunInv, NEW t \in Tasks, Call(t) PROVE RunInv'
<1>1. CASE Finish(t)
  BY <1>1, FinishR DEF Call
<1>2. CASE task' = [task EXCEPT ![t].denials = @ + 1]
  <2> DEFINE r == [task[t] EXCEPT !.denials = @ + 1]
  <2>1. task \in [Tasks -> TaskRecords]
    BY DEF RunInv, RunTypeOK
  <2>2. task' = [task EXCEPT ![t] = r]
    BY <1>2, <2>1 DEF TaskRecords
  <2>3. active'.ver \in Nat /\ permits'.id \in Nat /\ cache' \in Nat
    BY DEF Call, RunInv, RunTypeOK
  <2>4. task[t] \in TaskRecords /\ TaskFits(task[t])
    BY TasksFit DEF Call
  <2>5. /\ r \in TaskRecords /\ r.pc = task[t].pc /\ r.result = task[t].result
        /\ r.left = task[t].left /\ r.age = task[t].age /\ r.shared = task[t].shared
        /\ r.code = task[t].code /\ r.ver = task[t].ver
    BY <2>4 DEF TaskRecords
  <2>6. TaskFits(r)
    BY <2>4, <2>5 DEF TaskFits, HadItsTime
  <2> QED BY <2>2, <2>3, <2>5, <2>6, OneTask DEF Call
<1> QED BY <1>1, <1>2 DEF Call

LEMMA ReturnR == ASSUME RunInv, NEW t \in Tasks, Return(t) \/ Interrupt(t) PROVE RunInv'
BY FinishR DEF Return, Interrupt

LEMMA WaitR == ASSUME RunInv, NEW t \in Tasks, WaitInHost(t) \/ ComeBack(t) PROVE RunInv'
<1>1. PICK at \in {"guest", "host"} : task' = [task EXCEPT ![t].pc = at]
  BY DEF WaitInHost, ComeBack
<1> DEFINE r == [task[t] EXCEPT !.pc = at]
<1>2. task \in [Tasks -> TaskRecords] /\ Runs /\ task[t].pc \in {"guest", "host"}
  BY DEF RunInv, RunTypeOK, WaitInHost, ComeBack
<1>3. task' = [task EXCEPT ![t] = r]
  BY <1>1, <1>2 DEF TaskRecords
<1>4. active'.ver \in Nat /\ permits'.id \in Nat /\ cache' \in Nat
  BY DEF WaitInHost, ComeBack, RunInv, RunTypeOK
<1>5. r \in TaskRecords /\ TaskFits(r)
  BY <1>2, TasksFit DEF TaskRecords, TaskFits, HadItsTime
<1> QED BY <1>2, <1>3, <1>4, <1>5, OneTask

\* What a tick makes of a guest.
Ticked(t) ==
    [task[t] EXCEPT !.left = IF @ > Tickers THEN @ - Tickers ELSE 0,
                    !.age = IF task[t].left > 0 THEN @ + 1 ELSE @,
                    !.shared = @ \/ Cardinality(Ticking) > 1]

\* A guest that is alone has one ticker, so what a tick takes is in its age.
LEMMA TickedFits ==
    ASSUME RunInv, Runs, NEW t \in Guests
    PROVE  Ticked(t) \in TaskRecords /\ TaskFits(Ticked(t))
<1>1. t \in Tasks /\ t \in Ticking /\ task[t].pc \in {"guest", "host"}
  BY DEF Guests, Ticking
<1>2. task[t] \in TaskRecords /\ TaskFits(task[t])
  BY <1>1, TasksFit
<1>3. task[t].left \in 0..Ticks /\ task[t].age \in Nat /\ task[t].shared \in BOOLEAN
  BY <1>2 DEF TaskRecords
<1>4. Tickers \in Nat /\ (Cardinality(Ticking) > 1 \/ Tickers <= 1)
  BY <1>1, TickersCount
<1> DEFINE left == IF task[t].left > Tickers THEN task[t].left - Tickers ELSE 0
           age == IF task[t].left > 0 THEN task[t].age + 1 ELSE task[t].age
           shared == task[t].shared \/ Cardinality(Ticking) > 1
           r == Ticked(t)
<1>5. left \in 0..Ticks /\ age \in Nat
  BY <1>3, <1>4, RunAssumption
<1>6. shared \in BOOLEAN
  BY <1>3
<1>7. r = [task[t] EXCEPT !.left = left, !.age = age, !.shared = shared]
  BY <1>2 DEF Ticked, TaskRecords
<1> HIDE DEF left, age, shared, r
<1>8. r \in TaskRecords
  BY <1>2, <1>5, <1>6, <1>7 DEF TaskRecords
<1>9. /\ r.left = left /\ r.age = age /\ r.shared = shared /\ r.pc = task[t].pc
      /\ r.code = task[t].code /\ r.ver = task[t].ver /\ r.result = task[t].result
  BY <1>2, <1>7 DEF TaskRecords
<1>10. HadItsTime(r)
  <2> SUFFICES ASSUME ~shared PROVE left + age >= Ticks
    BY <1>9 DEF HadItsTime
  <2>1. ~task[t].shared /\ Tickers <= 1
    BY <1>4 DEF shared
  <2>2. task[t].left + task[t].age >= Ticks
    BY <1>1, <1>2, <2>1 DEF TaskFits, HadItsTime
  <2> QED BY <1>3, <1>4, <2>1, <2>2, RunAssumption DEF left, age
<1>11. TaskFits(r)
  BY <1>1, <1>2, <1>9, <1>10 DEF TaskFits
<1> QED BY <1>8, <1>11 DEF r

LEMMA TickR == ASSUME RunInv, Tick PROVE RunInv'
<1>1. ASSUME NEW t \in Tasks
      PROVE  task'[t] \in TaskRecords /\ TaskFits(task'[t])
  <2>1. CASE t \in Guests
    <3>1. task'[t] = Ticked(t)
      BY <2>1 DEF Tick, Ticked
    <3> QED BY <2>1, <3>1, TickedFits DEF Tick
  <2>2. CASE t \in Clocks \ Guests
    <3>1. task'[t] = Over(t)
      BY <2>2 DEF Tick
    <3> QED BY <3>1, OverFits DEF Tick
  <2>3. CASE t \notin Guests /\ t \notin Clocks
    <3>1. task'[t] = task[t]
      BY <2>3 DEF Tick
    <3> QED BY <3>1, TasksFit DEF Tick
  <2> QED BY <2>1, <2>2, <2>3
<1>2. task' \in [Tasks -> TaskRecords]
  <2>1. task' = [t \in Tasks |-> task'[t]]
    BY DEF Tick
  <2> QED BY <1>1, <2>1
<1>3. active'.ver \in Nat /\ permits'.id \in Nat /\ cache' \in Nat
  BY DEF Tick, RunInv, RunTypeOK
<1> QED BY <1>1, <1>2, <1>3, TasksKeep DEF Tick

LEMMA ActivateR == ASSUME RunInv, NEW n, Activate(n) PROVE RunInv'
<1>1. active.ver \in Nat /\ permits.id \in Nat /\ cache \in Nat /\ task \in [Tasks -> TaskRecords]
  BY DEF RunInv, RunTypeOK
<1>2. active'.ver \in Nat /\ permits'.id \in Nat /\ cache' = cache /\ task' = task
  BY <1>1 DEF Activate
<1> QED BY <1>1, <1>2, TasksFit, TasksKeep DEF Activate

LEMMA NextR == ASSUME RunInv, [RunNext]_runVars PROVE RunInv'
<1>1. CASE Way
  BY <1>1, PackR, SendR, RegisterR, PlanR, InstallR DEF Way
<1>2. CASE Tick
  BY <1>2, TickR
<1>3. CASE \E t \in Tasks : Host(t)
  BY <1>3, TakeR, LoadR, EnterR, CallR, ReturnR, WaitR, JoinR DEF Host
<1>4. CASE \E n \in 1..2 : Activate(n)
  BY <1>4, ActivateR
<1>5. CASE UNCHANGED runVars
  BY <1>5
     DEF runVars, RunInv, RunTypeOK, RunsLater, AcceptedStays, Listed, FaultsFit, Faulty, TimeFits,
         HadItsTime, Guests, RunsItsModule
<1> QED BY <1>1, <1>2, <1>3, <1>4, <1>5 DEF RunNext

LEMMA InvR == RunSpec => []RunInv
<1>1. RunInv /\ [RunNext]_runVars => RunInv'
  BY NextR
<1> QED BY InitR, <1>1, PTL DEF RunSpec

LEMMA AcceptedFromInv == RunInv => AcceptedRuns
<1> SUFFICES ASSUME RunInv PROVE AcceptedRuns
  OBVIOUS
<1>1. ASSUME stage = "failed"
      PROVE  HasGrantKey \/ pkg.limits = "text" \/ "slash" \notin pkg.platforms \/ pkg.wasm = "other"
  BY <1>1, NodeInstallsAccepted DEF RunInv, RunTypeOK, AcceptedStays, HasGrantKey
<1>2. ASSUME stage = "installed", ~HasGrantKey
      PROVE  grants.node = grants.center
  BY <1>2, SameGrant DEF RunInv, AcceptedStays, Listed, HasGrantKey
<1>3. ASSUME NEW t \in Tasks, ~HasGrantKey, pkg.schema # "odd", pkg.wasm # "unlinked",
             task[t].result \in {"capability_unsupported", "invalid_params", "unlinked"}
      PROVE  \E g \in grants.node : StricterHere(g)
  <2>1. stage = "installed"
    BY <1>3 DEF RunInv, RunsLater, Idle
  <2>2. \E g \in grants.node : ~ParseGrant(g)
    BY <1>3, <2>1 DEF RunInv, FaultsFit, Faulty
  <2>3. PICK e \in pkg.caps : ~ParseGrant(GrantString(e))
    BY <2>1, <2>2 DEF RunInv, AcceptedStays
  <2>4. e \in Capability /\ ValidateCapability(e) /\ e.grant = NoGrant
        /\ GrantString(e) \in grants.node
    BY <1>3, <2>1 DEF RunInv, RunTypeOK, AcceptedStays, HasGrantKey
  <2> QED BY <2>3, <2>4, OnlyStricterFail
<1> QED BY <1>1, <1>2, <1>3 DEF AcceptedRuns

\* AcceptedRuns: what a node refuses of what the center accepted it refuses for what
\* only the node or the runtime reads, and without the key `grant` it holds the grants
\* the center recorded (parse_package, open_package and parse_grants), for any packages.
THEOREM AcceptedPackagesRun == RunSpec => []AcceptedRuns
<1> QED BY InvR, AcceptedFromInv, PTL

\* RunsItsModule: the one component the engine caches (SkillRuntime::component) is the
\* one of the version that runs, or else of one with the same fingerprint, for any
\* versions that the host makes active meanwhile.
THEOREM ModulesAreTheirOwn == RunSpec => []RunsItsModule
<1>1. RunInv => RunsItsModule
  BY DEF RunInv
<1> QED BY InvR, <1>1, PTL

\* EarlyHasCause: with_epoch_ticks cuts a guest's time short only while another guest's
\* thread advances the same epoch, for any timeout.
THEOREM EarlyEndsHaveCause == RunSpec => []EarlyHasCause
<1>1. RunInv => EarlyHasCause
  <2> SUFFICES ASSUME RunInv, NEW t \in Guests, task[t].left = 0, task[t].age < Ticks
               PROVE  task[t].shared
    BY DEF EarlyHasCause
  <2>1. task[t].age \in Nat
    BY DEF RunInv, RunTypeOK, Guests, TaskRecords
  <2> QED BY <2>1, RunAssumption DEF RunInv, TimeFits, HadItsTime
<1> QED BY InvR, <1>1, PTL
=============================================================================
