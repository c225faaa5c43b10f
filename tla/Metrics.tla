------------------------------ MODULE Metrics ------------------------------
(***************************************************************************)
(* The CPU gauge of the heartbeats: agent/internal/system/metrics.go and   *)
(* buildHeartbeat of agent/internal/rpc/agent.go.  The agent keeps its     *)
(* last sample of /proc/stat, through every session, and reports the share *)
(* of the counts since then that was not idle.  The other gauges are       *)
(* single readings: they relate to nothing, and are left out.              *)
(*                                                                         *)
(* The counters, their sum and the differences are unsigned numbers of a   *)
(* fixed width, so that each may wrap between two samples.                 *)
(***************************************************************************)
EXTENDS Integers

CONSTANTS
  Hosts,        \* the managed hosts, each with one agent and one server ID
  Modulus       \* 2^64 in the code

ASSUME ModulusOK == Modulus \in Nat \ {0}

VARIABLES
  stat,         \* the cpu line of each host's /proc/stat
  lastCPU,      \* Agent.lastCPU
  since,        \* history: what was counted after the sample in lastCPU
  unfit         \* history: hosts for which lastCPU is no sample of the line as
                \* it was then, or a counter of which has gone back since

gauge == <<stat, lastCPU, since, unfit>>

\* user, nice, system, irq, softirq and steal are one counter here.  The time
\* of guests is counted twice, as busy and as guest: guest is also in user, and
\* guest_nice in nice.
Fields == {"busy", "guest", "iowait", "idle"}

Line   == [Fields -> 0..Modulus - 1]
Sample == [total : 0..Modulus - 1, idle : 0..Modulus - 1]
Zeros  == [f \in Fields |-> 0]
Never  == [total |-> 0, idle |-> 0]     \* the zero CPUSample

GaugeTypeOK ==
  /\ stat \in [Hosts -> Line]
  /\ lastCPU \in [Hosts -> Sample]
  /\ since \in [Hosts -> Line]
  /\ unfit \subseteq Hosts

GaugeInit ==
  /\ stat = [h \in Hosts |-> Zeros]
  /\ lastCPU = [h \in Hosts |-> Never]
  /\ since = [h \in Hosts |-> Zeros]
  /\ unfit = Hosts

\* Variant of Plus: a sum is wider than what is summed.
PlusWide(x, y) == x + y

Plus(x, y) == (x + y) % Modulus

Minus(x, y) == (x - y) % Modulus

\* SampleCPU: what it makes of a line of which it cannot parse the fields in
\* bad.  It ignores the error of ParseUint, and goes on with a zero.
ReadLine(line, bad) ==
  LET v == [f \in Fields |-> IF f \in bad THEN 0 ELSE line[f]] IN
  [total |-> Plus(Plus(Plus(v["busy"], v["guest"]), v["iowait"]), v["idle"]),
   idle |-> v["idle"]]

\* Variant of CPUPercent: a counter that is lower than before counts as reset.
CPUPercentReset(a, b) ==
  IF b.total <= a.total
    THEN <<0, 1>>
    ELSE <<Minus(b.total, a.total) - Minus(b.idle, a.idle),
           Minus(b.total, a.total)>>

\* CPUPercent: the numbers whose quotient it turns into a percentage.
CPUPercent(a, b) ==
  LET totalDelta == Minus(b.total, a.total)
      idleDelta  == Minus(b.idle, a.idle)
  IN IF totalDelta = 0 THEN <<0, 1>>
                       ELSE <<Minus(totalDelta, idleDelta), totalDelta>>

-----------------------------------------------------------------------------
Advance(line, spent) ==
  [f \in Fields |-> IF f \in spent THEN line[f] + 1 ELSE line[f]]

Sum(line) == line["busy"] + line["guest"] + line["iowait"] + line["idle"]

\* Time passes on the host.  No interval between two samples is as long as the
\* total takes to go round.
Tick(h) ==
  \E spent \in {{"busy"}, {"busy", "guest"}, {"iowait"}, {"idle"}} :
    /\ Sum(Advance(since[h], spent)) < Modulus
    /\ stat' = [stat EXCEPT ![h] =
                  [f \in Fields |-> Advance(@, spent)[f] % Modulus]]
    /\ since' = [since EXCEPT ![h] = Advance(@, spent)]
    /\ UNCHANGED <<lastCPU, unfit>>

\* The kernel takes time back: iowait is no reliable counter, nor is idle when
\* a CPU goes offline.
GoesBack(h) ==
  \E f \in {"iowait", "idle"} :
    /\ stat' = [stat EXCEPT ![h][f] = Minus(@, 1)]
    /\ unfit' = unfit \cup {h}
    /\ UNCHANGED <<lastCPU, since>>

\* buildHeartbeat: the sample becomes the last one; or it fails, no percentage
\* is reported, and the next one spans a longer time.
SampleCPU(h) ==
  \/ \E bad \in SUBSET Fields :
       LET cur == ReadLine(stat[h], bad) IN
       /\ lastCPU' = [lastCPU EXCEPT ![h] = cur]
       /\ since' = [since EXCEPT ![h] = Zeros]
       /\ unfit' = IF cur = ReadLine(stat[h], {}) THEN unfit \ {h}
                                                  ELSE unfit \cup {h}
       /\ UNCHANGED stat
  \/ UNCHANGED gauge

\* A new agent process starts with the zero sample: its first heartbeat reports
\* on all the time since the host was started.
ForgetSample(h) ==
  /\ lastCPU' = [lastCPU EXCEPT ![h] = Never]
  /\ since' = [since EXCEPT ![h] = Zeros]
  /\ unfit' = unfit \cup {h}
  /\ UNCHANGED stat

-----------------------------------------------------------------------------
\* Guest time has passed once only.
Elapsed(line) == line["busy"] + line["iowait"] + line["idle"]

\* metrics.go: "CPUPercent computes the CPU usage percentage between two
\* samples".  What the next heartbeat of a host reports, from a line it can
\* read, is the share of what was counted since the sample before that was not
\* idle, although counters and their sum wrap, samples fail, and sessions come
\* and go; and it is never below the share of the time that the CPUs were busy,
\* though above it for the time of guests, counted twice, and of iowait.  A
\* restart, a line misread and a counter that goes back spoil one report, which
\* the next sample mends.
CPUShare ==
  \A h \in Hosts \ unfit :
    LET counted == since[h]
        percent == CPUPercent(lastCPU[h], ReadLine(stat[h], {}))
    IN Sum(counted) > 0 =>
         /\ percent = <<Sum(counted) - counted["idle"], Sum(counted)>>
         /\ counted["busy"] * percent[2] <= percent[1] * Elapsed(counted)
=============================================================================
