-------------------------- MODULE ProcessCollector --------------------------
(***************************************************************************)
(* The CPU counter of process_collector.rs.  Each collect reads the CPU     *)
(* time of the process from /proc and brings the counter up to it by adding *)
(* the difference to what the counter held.  A registry gathers under a     *)
(* read lock, so that several scrapes may be in collect at once.            *)
(*                                                                          *)
(* The counter is a u64: CountRange is 2^64, additions wrap, and so does    *)
(* the subtraction in a build without overflow checks (a build with them    *)
(* panics where Diff wraps).  The gauges of the collector are stores that   *)
(* nothing reads back and are left out.                                     *)
(***************************************************************************)
EXTENDS Naturals

CONSTANTS
    Scrapers,   \* threads that gather the registry
    CountRange,
    MaxTime     \* bound: the CPU time the process uses, in seconds

ASSUME ProcessAssumption == CountRange \in Nat /\ MaxTime \in Nat /\ MaxTime < CountRange

VARIABLES
    cpuTime,    \* external: the CPU time the process has used
    cpuTotal,   \* the counter process_cpu_seconds_total
    pc,         \* where each collect is
    total,      \* the CPU time it read from /proc
    past,       \* what it read from the counter
    exported,   \* the sample of the counter it returned
    alone       \* history: no other collect has overlapped it

processVars == <<cpuTime, cpuTotal, pc, total, past, exported, alone>>

WrapAdd(a, b) == IF a + b < CountRange THEN a + b ELSE a + b - CountRange

\* Mutant: saturating_sub in place of the subtraction.
DiffSaturates(a, b) == IF b <= a THEN a - b ELSE 0

\* total - past
Diff(a, b) == IF b <= a THEN a - b ELSE a + CountRange - b

\* ProcessCollector::new
ProcessInit ==
    /\ cpuTime = 0
    /\ cpuTotal = 0
    /\ pc = [s \in Scrapers |-> "idle"]
    /\ total = [s \in Scrapers |-> 0]
    /\ past = [s \in Scrapers |-> 0]
    /\ exported = [s \in Scrapers |-> 0]
    /\ alone = [s \in Scrapers |-> FALSE]

\* The process runs.
UseCpu ==
    /\ cpuTime < MaxTime
    /\ cpuTime' = cpuTime + 1
    /\ UNCHANGED <<cpuTotal, pc, total, past, exported, alone>>

\* procfs::process::Process::new reads the whole of the statistics at once.
\* When it fails, collect returns no family and changes nothing.
ReadStat(s) ==
    /\ pc[s] = "idle"
    /\ total' = [total EXCEPT ![s] = cpuTime]
    /\ pc' = [pc EXCEPT ![s] = "past"]
    /\ alone' = [u \in Scrapers |->
                    IF u = s THEN \A v \in Scrapers \ {s} : pc[v] = "idle"
                             ELSE alone[u] /\ pc[u] = "idle"]
    /\ UNCHANGED <<cpuTime, cpuTotal, past, exported>>

\* self.cpu_total.get()
ReadPast(s) ==
    /\ pc[s] = "past"
    /\ past' = [past EXCEPT ![s] = cpuTotal]
    /\ pc' = [pc EXCEPT ![s] = "inc"]
    /\ UNCHANGED <<cpuTime, cpuTotal, total, exported, alone>>

\* self.cpu_total.inc_by(total - past)
IncByDifference(s) ==
    /\ pc[s] = "inc"
    /\ cpuTotal' = WrapAdd(cpuTotal, Diff(total[s], past[s]))
    /\ pc' = [pc EXCEPT ![s] = "export"]
    /\ UNCHANGED <<cpuTime, total, past, exported, alone>>

\* self.cpu_total.collect(), and collect returns.
Export(s) ==
    /\ pc[s] = "export"
    /\ exported' = [exported EXCEPT ![s] = cpuTotal]
    /\ past' = [past EXCEPT ![s] = 0]
    /\ pc' = [pc EXCEPT ![s] = "idle"]
    /\ UNCHANGED <<cpuTime, cpuTotal, total, alone>>

ProcessNext ==
    \/ UseCpu
    \/ \E s \in Scrapers : ReadStat(s) \/ ReadPast(s) \/ IncByDifference(s) \/ Export(s)

ProcessSpec == ProcessInit /\ [][ProcessNext]_processVars

\* The shapes of the u64 counter and of the locals of collect.
ProcessTypeOK ==
    /\ cpuTime \in 0 .. MaxTime
    /\ cpuTotal \in 0 .. CountRange - 1
    /\ pc \in [Scrapers -> {"idle", "past", "inc", "export"}]
    /\ total \in [Scrapers -> 0 .. MaxTime]
    /\ past \in [Scrapers -> 0 .. CountRange - 1]
    /\ exported \in [Scrapers -> 0 .. CountRange - 1]
    /\ alone \in [Scrapers -> BOOLEAN]

\* A scrape that no other overlapped exports the CPU time it read, whatever
\* earlier scrapes that overlapped have made of the counter: when the counter
\* is above the CPU time, the difference wraps and brings it down again.
SoloScrapeIsExact ==
    \A s \in Scrapers : (pc[s] = "idle" /\ alone[s]) => exported[s] = total[s]

\* counter.rs: a counter "represents a single numerical value that only ever
\* goes up".
CpuOnlyGoesUp == [][cpuTotal' >= cpuTotal]_cpuTotal

\* The inductive invariant behind SoloScrapeIsExact: what a collect that is
\* alone has found so far still holds of the counter.
AloneInv ==
    \A s \in Scrapers : alone[s] =>
        /\ pc[s] # "idle" => \A u \in Scrapers \ {s} : pc[u] = "idle"
        /\ pc[s] = "inc" => past[s] = cpuTotal
        /\ pc[s] = "export" => cpuTotal = total[s]

=============================================================================
