----------------------------- MODULE CronLease ------------------------------
(* One cron job and its lease rows (src/src/lib/cron-lease.ts, runCronOnce).  *)
(*                                                                            *)
(* The scheduler, an operator and a backfill all name a window; whoever       *)
(* inserts the window's row runs the body, everyone else is turned away.      *)
(* Windows are days (src/src/lib/cron-registry.ts).  A window is known by its *)
(* number modulo MaxWindows: the slot of the oldest one is reused, with no    *)
(* row in it, when a new day begins.                                          *)
EXTENDS Naturals

CONSTANTS
  Callers,     \* invocations of the cron route
  MaxWindows,  \* bound: windows told apart
  NoWindow     \* of a caller that runs nothing

ASSUME LeaseAssumption == MaxWindows \in Nat \ {0} /\ NoWindow \notin Nat

VARIABLES
  lease,   \* CronJobLease.status of each window, "free" without a row
  runner,  \* the window whose body each caller runs
  today,   \* the current window
  begun    \* history: windows whose body has been started, by how many

leaseVars == <<lease, runner, today, begun>>

Windows == 0..(MaxWindows - 1)

NextWindow(w) == (w + 1) % MaxWindows

LeaseTypeOK ==
  /\ lease \in [Windows -> {"free", "running", "done", "failed"}]
  /\ runner \in [Callers -> Windows \union {NoWindow}]
  /\ today \in Windows
  /\ begun \in [Windows -> Nat]

LeaseInit ==
  /\ lease = [w \in Windows |-> "free"]
  /\ runner = [c \in Callers |-> NoWindow]
  /\ today = 0
  /\ begun = [w \in Windows |-> 0]

Running(c) == runner[c] # NoWindow

(* Mutant: a window that failed is tried again. *)
AcquireAgain(c, w) ==
  /\ ~Running(c)
  /\ lease[w] \in {"free", "failed"}
  /\ lease' = [lease EXCEPT ![w] = "running"]
  /\ runner' = [runner EXCEPT ![c] = w]
  /\ begun' = [begun EXCEPT ![w] = @ + 1]
  /\ UNCHANGED today

(* INSERT ... ON CONFLICT DO NOTHING returned the row. *)
Acquire(c, w) ==
  /\ ~Running(c)
  /\ lease[w] = "free"
  /\ lease' = [lease EXCEPT ![w] = "running"]
  /\ runner' = [runner EXCEPT ![c] = w]
  /\ begun' = [begun EXCEPT ![w] = @ + 1]
  /\ UNCHANGED today

Record(c, status) ==
  /\ Running(c)
  /\ lease' = [lease EXCEPT ![runner[c]] = status]
  /\ runner' = [runner EXCEPT ![c] = NoWindow]
  /\ UNCHANGED <<today, begun>>

(* The body returned. *)
RecordDone(c) == Record(c, "done")

(* The body threw, or the update to "done" did. *)
RecordFailed(c) == Record(c, "failed")

(* The Worker dies, or neither update succeeds: the row stays "running". *)
Die(c) ==
  /\ Running(c)
  /\ runner' = [runner EXCEPT ![c] = NoWindow]
  /\ UNCHANGED <<lease, today, begun>>

(* Mutant: the window of a day is the window of the day before. *)
SameWindow ==
  /\ \A c \in Callers : runner[c] # NextWindow(today)
  /\ today' = NextWindow(today)
  /\ begun' = [begun EXCEPT ![NextWindow(today)] = 0]
  /\ UNCHANGED <<lease, runner>>

NewWindow ==
  /\ \A c \in Callers : runner[c] # NextWindow(today)                   \* bound
  /\ today' = NextWindow(today)
  /\ lease' = [lease EXCEPT ![NextWindow(today)] = "free"]
  /\ begun' = [begun EXCEPT ![NextWindow(today)] = 0]
  /\ UNCHANGED runner

(* The body runs at most once per window, whoever asks for it and however its *)
(* runs end: not concurrently, and not again after a failure or a crash       *)
(* (cron-lease.ts:5-12, docs/saas/cron.md:8).                                 *)
AtMostOncePerWindow ==
  /\ \A w \in Windows : begun[w] <= 1
  /\ \A c, d \in Callers : Running(c) /\ runner[c] = runner[d] => c = d
=============================================================================
