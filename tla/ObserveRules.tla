------------------------------ MODULE ObserveRules ------------------------------
(***************************************************************************)
(* What the runtime reads of a node for its guests: observe.rs, and the    *)
(* ports, the release and the clock of host.rs.  The files of /proc are    *)
(* sequences of lines, a line a record of the words that are looked at, a  *)
(* word that may not be read as a number the set of that number, or {}.    *)
(* Numbers are far from 2^64, so that only differences are cut, at zero.   *)
(***************************************************************************)
EXTENDS Integers, Sequences, FiniteSets

Less(a, b) == IF a > b THEN a - b ELSE 0
Quotient(a, b) == IF a < 0 THEN -((-a) \div b) ELSE a \div b
Known(number, default) == IF number = {} THEN default ELSE CHOOSE n \in number : TRUE

\* Of the lines that can be read, the one that comes first, or last.
FirstOf(at) == CHOOSE i \in at : \A j \in at : i <= j
LastOf(at) == CHOOSE i \in at : \A j \in at : j <= i

(* sys.metrics.read                                                          *)

\* A word that is no number is left out, and those behind it move up.
CpuTimes(stat) ==
    LET at == {i \in DOMAIN stat : stat[i].key = "cpu"}
        nums == SelectSeq(stat[FirstOf(at)].words, LAMBDA w : w # {})
    IN  IF at = {} THEN {}
        ELSE {[i \in 1..8 |-> IF i <= Len(nums) THEN Known(nums[i], 0) ELSE 0]}

\* user, nice, system, idle, iowait, irq, softirq, steal
CpuUsage(t) ==
    LET idle == t[4] + t[5]
        busy == t[1] + t[2] + t[3] + t[6] + t[7] + t[8]
    IN  IF busy + idle = 0 THEN 0 ELSE (busy * 100) \div (busy + idle)

\* The last line of a key counts.
MemValue(lines, key) ==
    LET at == {i \in DOMAIN lines : lines[i].key = key /\ lines[i].kb # {}} IN
    IF at = {} THEN {} ELSE lines[LastOf(at)].kb

MemInfo(lines) ==
    LET total == MemValue(lines, "MemTotal")
        free == IF MemValue(lines, "MemAvailable") # {} THEN MemValue(lines, "MemAvailable")
                ELSE MemValue(lines, "MemFree")
        swap(key) == Known(MemValue(lines, key), 0)
    IN  IF total = {} \/ free = {} THEN {}
        ELSE {[total |-> Known(total, 0), available |-> Known(free, 0),
               used |-> Less(Known(total, 0), Known(free, 0)),
               swap_used |-> Less(swap("SwapTotal"), swap("SwapFree"))]}

\* The disks of /sys/block, if there are any there, but none made of files or memory.
DiskNames(lines, blocks) ==
    LET shown == SelectSeq(lines, LAMBDA l : /\ l.fields >= 12 /\ l.of \notin {"loop", "ram"}
                                             /\ blocks = {} \/ l.name \in blocks)
    IN  [i \in DOMAIN shown |-> shown[i].name]

\* A mount point is shown once, with what is mounted there first, even if its file
\* system does not answer.  The bytes of a name are taken for characters, so that
\* only names in ASCII are found again.
SkipFstype == {"proc", "sysfs", "nfs"}
MountUsages(lines, vfs) ==
    LET kept == {i \in DOMAIN lines : lines[i].mount = "/" \/ lines[i].fstype \notin SkipFstype}
        first == {i \in kept : \A j \in kept : lines[j].mount = lines[i].mount => i <= j}
    IN  {[mount |-> lines[i].mount, fstype |-> lines[i].fstype] :
            i \in {j \in first : lines[j].ascii /\ lines[j].mount \in vfs}}

Metrics(os) ==
    IF ~os.metrics THEN {}
    ELSE {[usage |-> CpuUsage(t), memory |-> memory, disk_io |-> DiskNames(os.diskstats, os.blocks),
           disks |-> MountUsages(os.mounts, os.vfs)] : t \in CpuTimes(os.stat), memory \in MemInfo(os.meminfo)}

(* proc.list.read                                                            *)

\* stat: the number, the name in parentheses, and the words behind it, of which the
\* name may hold any.
Word(w) == [word |-> w, n |-> 0]
Numeral(n) == [word |-> "0", n |-> n]

ProcStat(text) ==
    LET opens == {i \in DOMAIN text : text[i].word = "("}
        closes == {i \in DOMAIN text : text[i].word = ")"}
        open == FirstOf(opens)
        close == LastOf(closes)
    IN  IF opens = {} \/ closes = {} \/ close <= open \/ Len(text) - close <= 19 THEN {}
        ELSE {[name |-> SubSeq(text, open + 1, close - 1), state |-> text[close + 1].word,
               cpu_ticks |-> text[close + 12].n + text[close + 13].n, start |-> text[close + 20].n]}

\* Of the time since the process started, which is never less than a second.
CpuPercent(ticks, start, btime, now, clk) ==
    IF btime = {} THEN 0
    ELSE LET elapsed == Less(now, Known(btime, 0) + (start \div clk)) IN
         (ticks * 100) \div (clk * (IF elapsed = 0 THEN 1 ELSE elapsed))

\* One whose stat cannot be read any more is left out, one whose status cannot is not.
Processes(os) ==
    IF ~os.proc THEN {}
    ELSE {UNION {{[pid |-> p.pid, name |-> s.name, state |-> s.state, uid |-> p.uid,
                   memory |-> Known(p.rss, 0),
                   cpu |-> CpuPercent(s.cpu_ticks, s.start, os.btime, os.now, os.clk)] :
                     s \in ProcStat(p.stat)} : p \in os.entries}}

(* net.interfaces.read and net.listening_ports.read                          *)

LinkUp(link) == link.operstate = "up" \/ (link.flags # {} /\ Known(link.flags, 0) % 2 = 1)

Interfaces(os) ==
    IF ~os.net THEN {}
    ELSE LET shown == SelectSeq(os.dev, LAMBDA l : l.fields >= 11) IN
         {[i \in DOMAIN shown |->
             LET name == shown[i].name IN
             [name |-> name, up |-> name \in DOMAIN os.links /\ LinkUp(os.links[name]),
              addresses |-> {a[2] : a \in {b \in os.addresses : b[1] = name}}]]}

\* The bytes of an address are those of one or four words, each the other way round.
Address(bytes) ==
    [i \in DOMAIN bytes |-> bytes[4 * ((i - 1) \div 4) + 4 - ((i - 1) % 4)]]

\* TCP listens in state 0A, UDP where nothing is connected.
Listens(proto, row) ==
    IF proto \in {"tcp", "tcp6"} THEN row.state = "0A" ELSE row.remote = 0

Protos == {"tcp", "tcp6", "udp", "udp6"}
ListenSockets(os) ==
    IF ~os.net \/ \E p \in DOMAIN os.tables : ~os.tables[p].readable THEN {}
    ELSE {UNION {{[proto |-> p, addr |-> Address(row.local), port |-> row.port] :
                     row \in {r \in os.tables[p].rows : Listens(p, r) /\ Len(r.local) \in {4, 16}}} :
                 p \in Protos \cap DOMAIN os.tables}}

(* sys.info.read and sys.time_sync.read                                      *)

\* Comments are no fields, and the last line of a key counts.
OsRelease(lines) ==
    LET at == {i \in DOMAIN lines : lines[i].equals /\ ~lines[i].comment} IN
    [k \in {lines[i].key : i \in at} |-> lines[LastOf({i \in at : lines[i].key = k})].value]

\* A clock that is said to be synchronized is so, whatever the kernel says.
KernelOffset(clock) ==
    IF clock.fails \/ clock.unsync THEN {}
    ELSE {Quotient(clock.offset, IF clock.nano THEN 1000000 ELSE 1000)}

TimeSync(os) ==
    LET offset == KernelOffset(os.clock) IN
    CASE os.timesyncd -> [synced |-> TRUE, source |-> "systemd-timesyncd", offset_ms |-> offset]
      [] ~os.timesyncd /\ offset # {} -> [synced |-> TRUE, source |-> "kernel", offset_ms |-> offset]
      [] OTHER -> [synced |-> FALSE, source |-> "", offset_ms |-> {}]

\* What a call without a path is told: {} if the node cannot tell.
Told(os, cap) ==
    CASE cap = "sys.info.read" -> {OsRelease(os.release)}
      [] cap = "sys.time_sync.read" -> {TimeSync(os)}
      [] cap = "sys.metrics.read" -> Metrics(os)
      [] cap = "proc.list.read" -> Processes(os)
      [] cap = "net.interfaces.read" -> Interfaces(os)
      [] cap = "net.listening_ports.read" -> ListenSockets(os)
=============================================================================
