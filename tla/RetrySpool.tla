------------------------------ MODULE RetrySpool ------------------------------
(***************************************************************************)
(* The node's report_retry.jsonl: three tasks of novbot-node share one     *)
(* file without a lock.  The session task drains it when it has connected  *)
(* and spools the reports of dispatches it cannot send; the scheduler task *)
(* spools the reports of scheduled runs; the retry tick drains.  Every     *)
(* await between two file operations is a place where another task runs,   *)
(* and every file operation may fail.  What is sent is in the channel of   *)
(* the session or in its stream until the center has it.                   *)
(***************************************************************************)
EXTENDS Subsequences, SequencesExt

CONSTANTS
    Reports,     \* results to be reported, one run each
    NL,          \* the newline that ends a line of the file
    Scrap,       \* the part of a line that a failed write leaves behind
    MaxFailures  \* bound on connections that die, crashes and failures of the file

ASSUME SpoolAssumption ==
    /\ NL \notin Reports /\ Scrap \notin Reports /\ Scrap # NL
    /\ MaxFailures \in Nat

VARIABLES
    file,     \* what is in the file: lines and newlines, in order
    exists,   \* path.exists()
    link,     \* session_out: None, or a sender that works, or one that is closed
    flight,   \* reports in the session's channel or its stream, in order
    pc,       \* where each task stands
    items,    \* what a task drained and has not sent
    made,     \* reports handed to send_report_or_spool
    got,      \* how often the center has received each report
    perilled, \* reports that met with something that can lose them
    reread,   \* reports that met with something that can repeat them
    failures

spoolVars == <<file, exists, link, flight, pc, items, made, got, perilled, reread,
             failures>>

Tasks     == {"session", "scheduler", "tick"}
Reporters == {"session", "scheduler"}

\* A line is readable if exactly one report stands between two newlines or an
\* end of the file; drain skips any other as corrupt.
Bare(q, i) == (i = 1 \/ q[i - 1] = NL) /\ (i = Len(q) \/ q[i + 1] = NL)

LinesAt(q) == {j \in 1..Len(q) : q[j] \notin {NL, Scrap} /\ Bare(q, j)}

Readable(q) == {q[j] : j \in LinesAt(q)}

\* The items drain returns, in the order of the file.
Lines(q) == Subsequence(q, LinesAt(q))

In(q) == {p \in Reports : Contains(q, p)}

SpoolInit ==
    /\ file = <<>> /\ exists = FALSE
    /\ link = "down" /\ flight = <<>>
    /\ pc = [t \in Tasks |-> IF t = "session" THEN "off" ELSE "idle"]
    /\ items = [t \in Tasks |-> <<>>]
    /\ made = {}
    /\ got = [p \in Reports |-> 0]
    /\ perilled = {} /\ reread = {}
    /\ failures = 0

Failure == failures < MaxFailures /\ failures' = failures + 1

(***************************************************************************)
(* enqueue: one append for the line, one for its newline                   *)
(***************************************************************************)
\* What is appended to a line without a newline spoils both.
Torn(p) == IF file # <<>> /\ Last(file) # NL THEN {p, Last(file)} \cap Reports ELSE {}

\* The first write: the line is in the file, or it fails and may leave a part of
\* the line; then enqueue returns and so does its caller.  cut is what becomes of
\* the reports behind this one.
WriteLine(t, p, cut) ==
    \/ /\ file' = Append(file, p) /\ exists' = TRUE
       /\ pc' = [pc EXCEPT ![t] = "newline"]
       /\ perilled' = perilled \cup cut \cup Torn(p)
       /\ UNCHANGED failures
    \/ /\ Failure
       /\ pc' = [pc EXCEPT ![t] = "idle"]
       /\ \/ /\ file' = file /\ exists' \in {exists, TRUE}
             /\ perilled' = perilled \cup cut \cup {p}
          \/ /\ file' = Append(file, Scrap) /\ exists' = TRUE
             /\ perilled' = perilled \cup cut \cup {p} \cup Torn(p)

\* The second, which may fail as well: then the line ends where the file does.
WriteNewline(t) ==
    /\ pc[t] = "newline"
    /\ \/ file' = Append(file, NL) /\ UNCHANGED failures
       \/ Failure /\ UNCHANGED file
    /\ pc' = [pc EXCEPT ![t] = "idle"]
    /\ UNCHANGED <<exists, link, flight, items, made, got, perilled, reread>>

(***************************************************************************)
(* send_report_or_spool                                                    *)
(***************************************************************************)
\* Mutant: a report is spooled although it was sent.
ReportBoth(t, p) ==
    /\ pc[t] = "idle" /\ p \notin made
    /\ made' = made \cup {p}
    /\ flight' = IF link = "up" THEN Append(flight, p) ELSE flight
    /\ WriteLine(t, p, {})
    /\ UNCHANGED <<link, items, got, reread>>

Report(t, p) ==
    /\ pc[t] = "idle" /\ p \notin made
    /\ made' = made \cup {p}
    /\ \/ /\ link = "up"
          /\ flight' = Append(flight, p)
          /\ UNCHANGED <<file, exists, pc, perilled, failures>>
       \/ /\ link # "up"
          /\ WriteLine(t, p, {})
          /\ UNCHANGED flight
    /\ UNCHANGED <<link, items, got, reread>>

(***************************************************************************)
(* flush_spool                                                             *)
(***************************************************************************)
Flushes(t) ==
    \/ t = "session" /\ pc[t] = "flush"
    \/ t = "tick" /\ pc[t] = "idle"

\* A report that one task has read and not truncated is read by another.
ReadTwice(t) ==
    {p \in In(Lines(file)) : \E o \in Tasks \ {t} : pc[o] = "truncate" /\ Contains(items[o], p)}

\* session_out is Some and the file exists: drain reads it to its end ...
DrainRead(t) ==
    /\ Flushes(t) /\ link # "down" /\ exists
    /\ items' = [items EXCEPT ![t] = Lines(file)]
    /\ pc' = [pc EXCEPT ![t] = "truncate"]
    /\ reread' = reread \cup ReadTwice(t)
    /\ UNCHANGED <<file, exists, link, flight, made, got, perilled, failures>>

\* ... or cannot read it: a part of a line need not be UTF-8, for which next_line
\* fails as well ...
DrainFails(t) ==
    /\ Flushes(t) /\ link # "down" /\ exists
    /\ \/ Contains(file, Scrap) /\ UNCHANGED failures
       \/ Failure
    /\ pc' = [pc EXCEPT ![t] = "idle"]
    /\ UNCHANGED <<file, exists, link, flight, items, made, got, perilled, reread>>

\* ... or there is nothing to drain.
DrainNothing ==
    /\ pc["session"] = "flush" /\ ~exists
    /\ pc' = [pc EXCEPT !["session"] = "idle"]
    /\ UNCHANGED <<file, exists, link, flight, items, made, got, perilled, reread, failures>>

\* ... then truncates it, with whatever was appended since, or fails to, which is
\* ignored: what was read is sent, and is in the file all the same.
Truncate(t) ==
    /\ pc[t] = "truncate"
    /\ \/ /\ file' = <<>>
          /\ perilled' = perilled \cup (In(file) \ In(items[t]))
          /\ UNCHANGED <<reread, failures>>
       \/ /\ Failure
          /\ reread' = reread \cup (In(file) \cap In(items[t]))
          /\ UNCHANGED <<file, perilled>>
    /\ pc' = [pc EXCEPT ![t] = IF items[t] = <<>> THEN "idle" ELSE "send"]
    /\ UNCHANGED <<exists, link, flight, items, made, got>>

\* try_send succeeds.
SendItem(t) ==
    /\ pc[t] = "send" /\ link = "up"
    /\ flight' = Append(flight, Head(items[t]))
    /\ items' = [items EXCEPT ![t] = Tail(@)]
    /\ pc' = [pc EXCEPT ![t] = IF Len(items[t]) = 1 THEN "idle" ELSE "send"]
    /\ UNCHANGED <<file, exists, link, made, got, perilled, reread, failures>>

\* Mutant: the item is not spooled again.
SendFailsDrops(t) ==
    /\ pc[t] = "send" /\ link # "up"
    /\ items' = [items EXCEPT ![t] = <<>>]
    /\ pc' = [pc EXCEPT ![t] = "idle"]
    /\ perilled' = perilled \cup In(Tail(items[t]))
    /\ UNCHANGED <<file, exists, link, flight, made, got, reread, failures>>

\* try_send fails: the item is spooled again and the loop breaks, dropping the
\* items behind it.
SendFails(t) ==
    /\ pc[t] = "send" /\ link # "up"
    /\ items' = [items EXCEPT ![t] = <<>>]
    /\ WriteLine(t, Head(items[t]), In(Tail(items[t])))
    /\ UNCHANGED <<link, flight, made, got, reread>>

(***************************************************************************)
(* The session, and the process                                            *)
(***************************************************************************)
Connect ==
    /\ pc["session"] = "off"
    /\ link' = "up"
    /\ pc' = [pc EXCEPT !["session"] = "flush"]
    /\ UNCHANGED <<file, exists, flight, items, made, got, perilled, reread, failures>>

\* The center receives a report.
Deliver ==
    /\ link = "up" /\ flight # <<>>
    /\ got' = [got EXCEPT ![Head(flight)] = @ + 1]
    /\ flight' = Tail(flight)
    /\ UNCHANGED <<file, exists, link, pc, items, made, perilled, reread, failures>>

\* The stream dies: the channel's receiver is gone, session_out is still Some, and
\* what is in the channel or on its way goes nowhere.
LinkDies ==
    /\ link = "up" /\ Failure
    /\ link' = "closed" /\ flight' = <<>>
    /\ perilled' = perilled \cup In(flight)
    /\ UNCHANGED <<file, exists, pc, items, made, got, reread>>

\* run_session returns, perhaps before it flushes because Register cannot be sent,
\* and session_out becomes None.
SessionEnds ==
    /\ link = "closed" /\ pc["session"] \in {"flush", "idle"}
    /\ link' = "down"
    /\ pc' = [pc EXCEPT !["session"] = "off"]
    /\ UNCHANGED <<file, exists, flight, items, made, got, perilled, reread, failures>>

\* The process dies and is started again; only the file is left.
Crash ==
    /\ Failure
    /\ link' = "down" /\ flight' = <<>>
    /\ pc' = [t \in Tasks |-> IF t = "session" THEN "off" ELSE "idle"]
    /\ items' = [t \in Tasks |-> <<>>]
    /\ perilled' = perilled \cup In(flight)
                          \cup UNION {In(items[t]) : t \in {u \in Tasks : pc[u] = "send"}}
    /\ UNCHANGED <<file, exists, made, got, reread>>

\* What a task does once it has begun.
TaskStep(t) ==
    \/ WriteNewline(t) \/ DrainRead(t) \/ DrainFails(t) \/ Truncate(t)
    \/ SendItem(t) \/ SendFails(t)

SpoolNext ==
    \/ \E t \in Reporters, p \in Reports : Report(t, p)
    \/ \E t \in Tasks : TaskStep(t)
    \/ DrainNothing \/ Connect \/ Deliver \/ LinkDies \/ SessionEnds \/ Crash

SpoolSpec == SpoolInit /\ [][SpoolNext]_spoolVars

\* The tasks run, the retry tick ticks, a stream that stays up delivers and
\* run_session is retried for ever.  No connection is obliged to die, no file
\* operation to fail and no result to be produced.
SpoolFairness ==
    /\ \A t \in Tasks : WF_spoolVars(TaskStep(t))
    /\ WF_spoolVars(DrainNothing) /\ WF_spoolVars(Connect) /\ WF_spoolVars(Deliver)
    /\ WF_spoolVars(SessionEnds)

FairSpoolSpec == SpoolSpec /\ SpoolFairness

(***************************************************************************)
(* Properties                                                              *)
(***************************************************************************)
\* The center has the report, it is on its way, or some task or the file has it.
Kept(p) ==
    \/ got[p] > 0 \/ Contains(flight, p)
    \/ p \in Readable(file)
    \/ \E t \in Tasks : Contains(items[t], p)

\* A report is lost in six ways only, each of which happens to that report: a drain
\* truncates it because it was appended after the read, it shares a line with
\* another append, a failed send in front of it drops it, the process dies with it
\* in hand, enqueue fails, or the stream dies under it.
LossHasCause == \A p \in made : Kept(p) \/ p \in perilled

\* The center gets a report twice only if both drains read it before either
\* truncated the file, or if the file could not be truncated after it was read; a
\* failed send, a reconnect or a crash repeats nothing.
RepeatHasCause == \A p \in Reports : got[p] <= 1 \/ p \in reread

\* The file is drained in the end: a spooled report reaches the center once a
\* connection stays up, unless something lost it or part of a line keeps the file
\* from being read.
SpoolDrains ==
    \A p \in Reports : p \in made ~> got[p] > 0 \/ p \in perilled \/ Contains(file, Scrap)
=============================================================================
