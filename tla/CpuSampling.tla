----------------------------- MODULE CpuSampling -----------------------------
(***************************************************************************)
(* CpuStatMonitor and the kernel module cpu_stat_collector.  The module    *)
(* rewrites a page of counters once a second; the monitor maps the page    *)
(* and reads it field by field, without a lock, while it may be rewritten: *)
(* once for the time that passed, again for the shares of it, and again    *)
(* for the copy the next sample is compared with.  Without the module it   *)
(* reads /proc/stat, and keeps its samples in the same map.                *)
(*                                                                         *)
(* Of the fields "busy" stands for those in nanoseconds and "idle" for     *)
(* idle and iowait, which the module has in microseconds and truncates to  *)
(* 32 bits.  The model keeps every field whole, so that the properties can *)
(* speak of the time that really passed, and Stored is what the program    *)
(* has of it.  The counters run forward, as the kernel's do but for        *)
(* iowait.  That the page is read while it is written is undefined in the  *)
(* language: a value the source reads again may also be the one it read    *)
(* before.                                                                 *)
(***************************************************************************)
EXTENDS Integers

CONSTANTS
  LastCpu,     \* the CPUs are 0..LastCpu
  Ratio,       \* jiffies, the unit of the page, in a clock tick, that of /proc/stat
  Wrap,        \* after how many jiffies the page's idle time starts again (71.6 minutes)
  Precision,   \* up to where a float holds every integer: 2^24
  Float,       \* what a float holds of an integer
  MaxTime,     \* bound: how many jiffies a CPU lives
  MaxLoads,    \* bound: how often the module is loaded
  MaxRounds,   \* bound: how many samples are taken
  Nothing      \* no sample, no report, nothing being written

ASSUME CpuSamplingAssumption ==
  /\ LastCpu \in Nat /\ Ratio \in Nat \ {0}
  /\ Wrap \in Nat \ {0} /\ Precision \in Nat \ {0}
  /\ MaxTime \in Nat /\ MaxLoads \in Nat /\ MaxRounds \in Nat

\* A float is one of the two next to the integer: order is kept, and what is lost is the
\* part in Precision at most.
ASSUME FloatAssumption ==
  /\ Float \in [0..MaxTime -> Nat]
  /\ \A m, n \in 0..MaxTime : m <= n => Float[m] <= Float[n]
  /\ \A n \in 0..MaxTime : /\ n <= Float[n] + n \div Precision
                         /\ Float[n] <= n + n \div Precision

VARIABLES
  counter,     \* the kernel's counters, in jiffies
  module,      \* "absent", "loading" until its first update is complete, or "loaded"
  loads,       \* how often it has been loaded
  page,        \* cpu_stat_data
  writer,      \* what update_cpu_stats writes next
  updates,     \* updates completed since the last round, or the load: 2 stands for more
  sampler,     \* where UpdateOnce is, and what it has read of an entry
  cpu_stats,   \* cpu_stats_: the last sample of each CPU, and the load it came from
  rounds,      \* how often UpdateOnce has begun
  dirty,       \* history: the entry being read was written to meanwhile
  report,      \* history: the last report of each CPU
  shown        \* history: what its reports add up to since its source changed

collector == <<counter, module, loads, page, writer>>
history == <<report, shown>>
cpuVars == <<collector, updates, sampler, cpu_stats, rounds, dirty, history>>

Cpus == 0..LastCpu
Fields == {"busy", "idle"}
Zero == [f \in Fields |-> 0]
NotNamed == [named |-> FALSE, busy |-> 0, idle |-> 0]

Idle == [at |-> "idle"]

CpuInit ==
  /\ counter = [c \in Cpus |-> Zero]
  /\ module = "absent" /\ loads = 0
  /\ page = [c \in Cpus |-> NotNamed]
  /\ writer = Nothing /\ updates = 0
  /\ sampler = Idle
  /\ cpu_stats = [c \in Cpus |-> Nothing]
  /\ rounds = 0 /\ dirty = FALSE
  /\ report = [c \in Cpus |-> Nothing]
  /\ shown = [c \in Cpus |-> [first |-> Nothing, sum |-> Zero]]

-----------------------------------------------------------------------------
(* The kernel.                                                             *)

\* A jiffy passes on every CPU.
Tick ==
  /\ \A c \in Cpus : counter[c].busy + counter[c].idle < MaxTime
  /\ \E working \in SUBSET Cpus :
       counter' = [c \in Cpus |-> IF c \in working
                                  THEN [counter[c] EXCEPT !.busy = @ + 1]
                                  ELSE [counter[c] EXCEPT !.idle = @ + 1]]
  /\ UNCHANGED <<module, loads, page, writer, updates, sampler, cpu_stats, rounds,
                 dirty, history>>

FirstField == [cpu |-> 0, field |-> "named"]

\* cpu_stat_collector_init: a page of zeros, the device, and then the first update.
Load ==
  /\ module = "absent" /\ loads < MaxLoads
  /\ module' = "loading"
  /\ loads' = loads + 1
  /\ page' = [c \in Cpus |-> NotNamed]
  /\ writer' = FirstField
  /\ updates' = 1
  /\ UNCHANGED <<counter, sampler, cpu_stats, rounds, dirty, history>>

\* The work handler, once a second.
BeginUpdate ==
  /\ module = "loaded" /\ writer = Nothing
  /\ writer' = FirstField
  /\ UNCHANGED <<counter, module, loads, page, updates, sampler, cpu_stats, rounds,
                 dirty, history>>

\* Defect for NoneNegative: an entry is cleared before it is filled.
WriteField_Clears ==
  /\ writer # Nothing
  /\ LET c == writer.cpu
         next == [named |-> "busy", busy |-> "idle", idle |-> "named"][writer.field]
         last == c = LastCpu /\ writer.field = "idle"
     IN /\ page' = [page EXCEPT ![c] = IF writer.field = "named"
                                       THEN [named |-> TRUE, busy |-> 0, idle |-> 0]
                                       ELSE [@ EXCEPT ![writer.field] = counter[c][writer.field]]]
        /\ writer' = IF last THEN Nothing
                     ELSE [cpu |-> IF next = "named" THEN c + 1 ELSE c, field |-> next]
        /\ module' = IF last THEN "loaded" ELSE module
        /\ updates' = IF last /\ updates < 2 THEN updates + 1 ELSE updates
        /\ dirty' = (dirty \/ (sampler # Idle /\ sampler.cpu = c /\ writer.field # "named"))
  /\ UNCHANGED <<counter, loads, sampler, cpu_stats, rounds, history>>

\* update_cpu_stats writes one field after the other, of one CPU after the other.  What
\* usecs_to_jiffies truncates of the idle time is left to Stored.
WriteField ==
  /\ writer # Nothing
  /\ LET c == writer.cpu
         next == [named |-> "busy", busy |-> "idle", idle |-> "named"][writer.field]
         last == c = LastCpu /\ writer.field = "idle"
     IN /\ page' = [page EXCEPT ![c][writer.field] =
                      IF writer.field = "named" THEN TRUE ELSE counter[c][writer.field]]
        /\ writer' = IF last THEN Nothing
                     ELSE [cpu |-> IF next = "named" THEN c + 1 ELSE c, field |-> next]
        /\ module' = IF last THEN "loaded" ELSE module
        /\ updates' = IF last /\ updates < 2 THEN updates + 1 ELSE updates
        /\ dirty' = (dirty \/ (sampler # Idle /\ sampler.cpu = c /\ writer.field # "named"))
  /\ UNCHANGED <<counter, loads, sampler, cpu_stats, rounds, history>>

\* cpu_stat_collector_exit waits for an update to end; the kernel refuses to unload a
\* module whose device is open.
Unload ==
  /\ module = "loaded" /\ writer = Nothing /\ sampler = Idle
  /\ module' = "absent"
  /\ UNCHANGED <<counter, loads, page, writer, updates, sampler, cpu_stats, rounds,
                 dirty, history>>

-----------------------------------------------------------------------------
(* CpuStatMonitor::UpdateOnce.                                             *)

Total(values) == values.busy + values.idle
Parts(values, old) == [f \in Fields |-> values[f] - old[f]]

\* Where a sample comes from: which load of the module, 0 for /proc/stat.
Source == [load |-> sampler.load, ready |-> sampler.ready]
Proc == [load |-> 0, ready |-> TRUE]

\* What the program has of the values of a source: the page's idle time starts again when
\* 32 bits of microseconds are full.
Stored(source, values) ==
  [f \in Fields |-> IF f = "idle" /\ source # Proc THEN values[f] % Wrap ELSE values[f]]

\* What it has of the last sample of a CPU.
LastStored(c) == Stored(cpu_stats[c].source, cpu_stats[c])

\* Whether time has passed since the last sample: the totals are floats.
TimePassed(c, total) == Float[total] > Float[Total(LastStored(c))]

\* FillCpuStatMessage, when time has passed.  The difference of two floats so close is
\* exact.  The last four fields are history: whether the idle time started again, what time
\* really passed, what the floats may have lost, and whether the entry was rewritten.
Reported(c, source, total, values, torn) ==
  LET old == cpu_stats[c]
      last == LastStored(c)
  IN [total |-> Float[total] - Float[Total(last)],
      parts |-> Parts(Stored(source, values), last),
      like |-> source.ready /\ old.source = source,
      wrapped |-> source # Proc /\ values.idle \div Wrap # old.idle \div Wrap,
      elapsed |-> Total(values) - Total(old),
      lost |-> total \div Precision + Total(last) \div Precision,
      dirty |-> torn]

\* Two samples of one source, which was ready at the first, less than Wrap apart; and the
\* idle time did not start again while the entry was read.
Sound(r) == r.like /\ (r.wrapped => ~r.dirty /\ r.elapsed < Wrap)

\* What the sound reports of a CPU add up to, from the first sample of a source on.
ShownNow(c, source, values, r) ==
  IF cpu_stats[c] # Nothing /\ cpu_stats[c].source = source
  THEN IF r # Nothing /\ Sound(r)
       THEN [shown[c] EXCEPT !.sum = [f \in Fields |-> @[f] + r.parts[f]]]
       ELSE shown[c]
  ELSE [first |-> values, sum |-> Zero]

\* open and mmap succeed as soon as the device is there.  The worker samples every five
\* seconds: in between a loaded module has written the whole page anew.
OpenDevice ==
  /\ sampler = Idle /\ rounds < MaxRounds
  /\ \/ module = "loading" /\ updates >= 1
     \/ module = "loaded" /\ updates = 2
  /\ rounds' = rounds + 1
  /\ sampler' = [at |-> "name", cpu |-> 0, load |-> loads, ready |-> module = "loaded"]
  /\ report' = [c \in Cpus |-> Nothing]
  /\ UNCHANGED <<collector, updates, cpu_stats, dirty, shown>>

\* munmap and close.
Close ==
  /\ sampler' = Idle
  /\ updates' = 0

\* An entry without a name ends the round.  The first sample of a CPU is only kept.
ReadName ==
  /\ sampler.at = "name"
  /\ IF ~page[sampler.cpu].named
     THEN Close
     ELSE /\ sampler' = [at |-> IF cpu_stats[sampler.cpu] = Nothing THEN "copy" ELSE "total",
                         cpu |-> sampler.cpu, load |-> sampler.load, ready |-> sampler.ready,
                         field |-> "busy", values |-> [f \in Fields |-> Nothing], total |-> 0]
          /\ UNCHANGED updates
  /\ dirty' = FALSE
  /\ UNCHANGED <<collector, cpu_stats, rounds, history>>

\* What reading a field may give: what is there, or what was read last.
MayRead(field) ==
  {page[sampler.cpu][field]} \cup ({sampler.values[field]} \ {Nothing})

ReadBusy ==
  /\ sampler.at \in {"total", "parts", "copy"} /\ sampler.field = "busy"
  /\ \E v \in MayRead("busy") :
       sampler' = [sampler EXCEPT !.field = "idle", !.values.busy = v]
  /\ UNCHANGED <<collector, updates, cpu_stats, rounds, dirty, history>>

\* Defect for PartsAddUp: the idle time is left out of the total.
ReadTotal_BusyOnly ==
  /\ sampler.at = "total" /\ sampler.field = "idle"
  /\ \E v \in MayRead("idle") :
       LET total == sampler.values.busy
       IN sampler' = [sampler EXCEPT
            !.field = "busy", !.values.idle = v, !.total = total,
            !.at = IF TimePassed(sampler.cpu, total) THEN "parts" ELSE "copy"]
  /\ UNCHANGED <<collector, updates, cpu_stats, rounds, dirty, history>>

\* The time that passed; if none did there is nothing to report.
ReadTotal ==
  /\ sampler.at = "total" /\ sampler.field = "idle"
  /\ \E v \in MayRead("idle") :
       LET total == Total(Stored(Source, [sampler.values EXCEPT !.idle = v]))
       IN sampler' = [sampler EXCEPT
            !.field = "busy", !.values.idle = v, !.total = total,
            !.at = IF TimePassed(sampler.cpu, total) THEN "parts" ELSE "copy"]
  /\ UNCHANGED <<collector, updates, cpu_stats, rounds, dirty, history>>

\* The shares of it.
ReadParts ==
  /\ sampler.at = "parts" /\ sampler.field = "idle"
  /\ \E v \in MayRead("idle") :
       LET values == [sampler.values EXCEPT !.idle = v]
       IN /\ sampler' = [sampler EXCEPT !.field = "busy", !.values = values, !.at = "copy"]
          /\ report' = [report EXCEPT ![sampler.cpu] =
                          Reported(sampler.cpu, Source, sampler.total, values, dirty)]
  /\ UNCHANGED <<collector, updates, cpu_stats, rounds, dirty, shown>>

\* Defect for NothingTwice: only the first sample is kept.
ReadCopy_FirstOnly ==
  /\ sampler.at = "copy" /\ sampler.field = "idle"
  /\ \E v \in MayRead("idle") :
       LET c == sampler.cpu
           values == [sampler.values EXCEPT !.idle = v]
       IN /\ cpu_stats' = [cpu_stats EXCEPT ![c] = IF @ # Nothing THEN @ ELSE
                             [busy |-> values.busy, idle |-> values.idle, source |-> Source]]
          /\ shown' = [shown EXCEPT ![c] =
               ShownNow(c, Source, values, report[c])]
          /\ IF c = LastCpu THEN Close
             ELSE /\ sampler' = [at |-> "name", cpu |-> c + 1, load |-> sampler.load,
                                 ready |-> sampler.ready]
                  /\ UNCHANGED updates
  /\ UNCHANGED <<collector, rounds, dirty, report>>

\* The sample the next one is compared with; then the next entry.
ReadCopy ==
  /\ sampler.at = "copy" /\ sampler.field = "idle"
  /\ \E v \in MayRead("idle") :
       LET c == sampler.cpu
           values == [sampler.values EXCEPT !.idle = v]
       IN /\ cpu_stats' = [cpu_stats EXCEPT ![c] =
                             [busy |-> values.busy, idle |-> values.idle, source |-> Source]]
          /\ shown' = [shown EXCEPT ![c] =
               ShownNow(c, Source, values, report[c])]
          /\ IF c = LastCpu THEN Close
             ELSE /\ sampler' = [at |-> "name", cpu |-> c + 1, load |-> sampler.load,
                                 ready |-> sampler.ready]
                  /\ UNCHANGED updates
  /\ UNCHANGED <<collector, rounds, dirty, report>>

\* Without the device: the lines of /proc/stat, which the kernel makes at once.
ReadProc ==
  /\ sampler = Idle /\ rounds < MaxRounds
  /\ module = "absent"
  /\ rounds' = rounds + 1 /\ updates' = 0
  /\ LET curr == [c \in Cpus |-> [f \in Fields |-> counter[c][f] \div Ratio]]
     IN /\ report' = [c \in Cpus |->
             IF cpu_stats[c] # Nothing /\ TimePassed(c, Total(curr[c]))
             THEN Reported(c, Proc, Total(curr[c]), curr[c], FALSE) ELSE Nothing]
        /\ shown' = [c \in Cpus |-> ShownNow(c, Proc, curr[c], report'[c])]
        /\ cpu_stats' = [c \in Cpus |->
             [busy |-> curr[c].busy, idle |-> curr[c].idle, source |-> Proc]]
  /\ UNCHANGED <<collector, sampler, dirty>>

UpdateOnce ==
  OpenDevice \/ ReadName \/ ReadBusy \/ ReadTotal \/ ReadParts \/ ReadCopy \/ ReadProc

CpuNext ==
  \/ Tick
  \/ Load \/ BeginUpdate \/ WriteField \/ Unload
  \/ UpdateOnce

CpuSpec == CpuInit /\ [][CpuNext]_cpuVars

-----------------------------------------------------------------------------
(* Properties.                                                             *)

\* No field of a sound report is negative (the code's differences are unsigned, and would
\* be huge): however the page was rewritten during both samples, and whether the module was
\* loaded, unloaded and loaded again.  When the page's idle time starts again between two
\* readings the total falls, and there is no report.
NoneNegative ==
  \A c \in Cpus :
    report[c] # Nothing /\ Sound(report[c]) => \A f \in Fields : report[c].parts[f] >= 0

\* The shares of a sound report make up all of the time it covers, but for what the floats
\* lose, unless the entry was rewritten while it was read; then they make up more, never
\* less.
PartsAddUp ==
  \A c \in Cpus :
    report[c] # Nothing /\ Sound(report[c]) =>
      /\ Total(report[c].parts) + report[c].lost >= report[c].total
      /\ ~report[c].dirty => Total(report[c].parts) <= report[c].total + report[c].lost

\* No time of a CPU is reported twice: what the sound reports of a source add up to is
\* within the time that really passed between its first and last sample, although each
\* sample reads the page three times and keeps only the last.
NothingTwice ==
  \A c \in Cpus :
    cpu_stats[c] # Nothing /\ cpu_stats[c].source.ready =>
      \A f \in Fields : shown[c].sum[f] <= cpu_stats[c][f] - shown[c].first[f]
=============================================================================
