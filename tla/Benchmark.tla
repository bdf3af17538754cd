------------------------------ MODULE Benchmark ------------------------------
(***************************************************************************)
(* src/tools/benchmark_polyval.py: cycle counts measured with the timers   *)
(* of CIA #1, one measurement after another.                               *)
(*                                                                         *)
(* Two wrappers run on the C64: a short one on timer A in one-shot mode,   *)
(* and a long one that chains timer B to the underflows of timer A.  The   *)
(* host installs them, calibrates both, checks the long one against a stub *)
(* of known length, and tables medians of samples.  A disturbance is a     *)
(* connection lost inside a wrapper, after which robust_jsr enters the     *)
(* wrapper again, or a measurement from which the video chip takes cycles. *)
(* What a routine costs beyond an RTS is a number; printing, VICE and the  *)
(* build are left out.                                                     *)
(***************************************************************************)
EXTENDS Integers, Sequences, SequencesExt

CONSTANTS
  Sessions,     \* what a session measures: [bench, long, block, sizes]
  Samples,      \* --samples
  Stolen,       \* cycles the video chip may take from one measurement
  MaxDisturbed  \* bound on disturbances

ASSUME SamplesAssumption == Samples \in Nat \ {0}

VARIABLES
  a, mode,      \* timer A: count; "free", "once" or "stopped"
  b,            \* timer B's count; it counts underflows of timer A
  bRuns,
  irq,          \* interrupts enabled
  saved,        \* save_cra, save_crb
  result,       \* the wrapper's result bytes
  fresh,        \* the operands are those the setup function wrote
  piece,        \* piece of a wrapper; in the host "idle", "back", "printed", "dead"
  session, stage,
  samples,
  overhead,     \* of the two wrappers
  table,        \* rows so far, one for each finished stage
  hurt,         \* history: samples of this stage that were disturbed
  disturbed     \* history: disturbances so far

timers == <<a, mode, b, bRuns, irq>>
host == <<session, stage, samples, overhead, table>>
benchmarkVars == <<timers, saved, result, fresh, piece, host, hurt, disturbed>>

Word == 65536
Top == Word - 1

\* Cycles a long call may take: 2^30, eighteen minutes of the C64.  A call
\* gets a minute of the host's, in which the emulator may run ahead.
LongRange == Word * (Word \div 4)

ASSUME SessionAssumption ==
  /\ Stolen \subseteq 0 .. LongRange
  /\ Sessions \subseteq [bench : Nat, long : 0 .. LongRange, block : 0 .. LongRange \div 256,
                         sizes : Seq(Nat)]

-----------------------------------------------------------------------------
(* A timer reloads from its latch, which both wrappers set to $FFFF, and   *)
(* goes on from there, or stops if it was started for one shot.            *)
Free(c, n) == IF n <= c THEN c - n ELSE Top - ((n - c - 1) % Word)
Once(c, n) == IF n <= c THEN c - n ELSE Top
Underflows(c, n) == IF n <= c THEN 0 ELSE (n - c - 1) \div Word + 1

\* The timers n cycles later.
AAfter(n) == IF mode = "free" THEN Free(a, n) ELSE IF mode = "once" THEN Once(a, n) ELSE a
BAfter(n) == IF bRuns /\ mode = "free" THEN Free(b, Underflows(a, n)) ELSE b
StillOn(n) == IF mode = "once" /\ n > a THEN "stopped" ELSE mode

\* From the start of the timer to its first read, with an RTS as the target.
ShortLead == 13
LongLead == 12
Gap == 8        \* between the reads of the high and the low byte

-----------------------------------------------------------------------------
(* The session's stages *)

Stages(s) == 5 + Len(s.sizes)
Kind == <<"calibrate", "calibrate_long", "verify", "bench", "long">>
KindOf(i) == IF i <= 5 THEN Kind[i] ELSE "multi"
Wrapper == IF KindOf(stage) \in {"calibrate", "bench"} THEN "short" ELSE "long"
Size == session.sizes[stage - 5]

VerifyCycles == 501     \* the stub of verify_long_wrapper
StubHead == 20          \* the multi-block stub outside its loop

\* Variant: the loop tests the count before the first block.
BlocksTestedFirst(n) == n % 256

\* ldx count; dex / bne at the foot of the loop.
Blocks(n) == IF n % 256 = 0 THEN 256 ELSE n % 256

\* What the target of a stage costs; other operands cost a routine more.
Cost ==
  IF KindOf(stage) \in {"calibrate", "calibrate_long"} THEN 0
  ELSE IF KindOf(stage) = "verify" THEN VerifyCycles
  ELSE IF KindOf(stage) = "bench" THEN (IF fresh THEN session.bench ELSE session.bench + 11)
  ELSE IF KindOf(stage) = "long" THEN session.long
  ELSE StubHead + Blocks(Size) * session.block

BenchmarkInit ==
  /\ a = 0 /\ mode = "free" /\ b = 0 /\ bRuns = FALSE /\ irq = TRUE
  /\ saved = [mode |-> "free", bRuns |-> FALSE] /\ result = <<0, 0>>
  /\ fresh = FALSE /\ piece = "idle"
  /\ session \in Sessions /\ stage = 1 /\ samples = <<>>
  /\ overhead = [short |-> 0, long |-> 0] /\ table = <<>>
  /\ hurt = 0 /\ disturbed = 0

-----------------------------------------------------------------------------
(* The short wrapper: TIMING_WRAPPER *)

\* The target runs for its cost and c more cycles.
Passes(c) ==
  \E s \in {0} \cup (IF disturbed < MaxDisturbed THEN Stolen ELSE {}) :
    /\ disturbed' = IF s = 0 THEN disturbed ELSE disturbed + 1
    /\ hurt' = IF s = 0 THEN hurt ELSE hurt + 1
    /\ a' = AAfter(c + Cost + s)
    /\ b' = BAfter(c + Cost + s)
    /\ mode' = StillOn(c + Cost + s)
    /\ fresh' = FALSE

ShortStart ==
  /\ piece = "short" /\ piece' = "short_call"
  /\ irq' = FALSE /\ a' = Top /\ mode' = "once"
  /\ UNCHANGED <<b, bRuns, saved, result, fresh, host, hurt, disturbed>>

ShortCall ==
  /\ piece = "short_call" /\ piece' = "short_low"
  /\ Passes(ShortLead)
  /\ result' = <<a' \div 256, result[2]>>
  /\ UNCHANGED <<bRuns, irq, saved, host>>

ShortLow ==
  /\ piece = "short_low" /\ piece' = "short_restore"
  /\ a' = AAfter(Gap) /\ mode' = StillOn(Gap)
  /\ result' = <<result[1], a' % 256>>
  /\ UNCHANGED <<b, bRuns, irq, saved, fresh, host, hurt, disturbed>>

\* Variant: timer A is left in one-shot mode.
ShortRestoreNot ==
  /\ piece = "short_restore" /\ piece' = "back"
  /\ irq' = TRUE
  /\ UNCHANGED <<a, mode, b, bRuns, saved, result, fresh, host, hurt, disturbed>>

ShortRestore ==
  /\ piece = "short_restore" /\ piece' = "back"
  /\ irq' = TRUE /\ a' = Top /\ mode' = "free"
  /\ UNCHANGED <<b, bRuns, saved, result, fresh, host, hurt, disturbed>>

-----------------------------------------------------------------------------
(* The long wrapper: LONG_TIMING_WRAPPER *)

LongSave ==
  /\ piece = "long" /\ piece' = "long_start"
  /\ irq' = FALSE /\ saved' = [mode |-> mode, bRuns |-> bRuns]
  /\ UNCHANGED <<a, mode, b, bRuns, result, fresh, host, hurt, disturbed>>

LongStart ==
  /\ piece = "long_start" /\ piece' = "long_call"
  /\ a' = Top /\ b' = Top /\ bRuns' = TRUE /\ mode' = "free"
  /\ UNCHANGED <<irq, saved, result, fresh, host, hurt, disturbed>>

LongCall ==
  /\ piece = "long_call" /\ piece' = "long_stop_a"
  /\ Passes(LongLead)
  /\ UNCHANGED <<bRuns, irq, saved, result, host>>

\* Variant: timer B stops first.
LongStopBFirst ==
  /\ piece = "long_stop_a" /\ piece' = "long_stop_b"
  /\ a' = AAfter(12) /\ b' = BAfter(6) /\ bRuns' = FALSE /\ mode' = "stopped"
  /\ UNCHANGED <<irq, saved, result, fresh, host, hurt, disturbed>>

LongStopA ==
  /\ piece = "long_stop_a" /\ piece' = "long_stop_b"
  /\ a' = AAfter(6) /\ b' = BAfter(6) /\ mode' = "stopped"
  /\ UNCHANGED <<bRuns, irq, saved, result, fresh, host, hurt, disturbed>>

LongStopB ==
  /\ piece = "long_stop_b" /\ piece' = "long_read"
  /\ bRuns' = FALSE
  /\ UNCHANGED <<a, mode, b, irq, saved, result, fresh, host, hurt, disturbed>>

LongRead ==
  /\ piece = "long_read" /\ piece' = "long_restore"
  /\ result' = <<a, b>>
  /\ UNCHANGED <<timers, saved, fresh, host, hurt, disturbed>>

\* The saved control bytes have no force-load bit: the counts go on.
LongRestore ==
  /\ piece = "long_restore" /\ piece' = "back"
  /\ irq' = TRUE /\ mode' = saved.mode /\ bRuns' = saved.bRuns
  /\ UNCHANGED <<a, b, saved, result, fresh, host, hurt, disturbed>>

-----------------------------------------------------------------------------
(* The host *)

\* The setup function, the operand of the wrapper's jsr, and the call.
Enter ==
  /\ piece = "idle" /\ piece' = Wrapper
  /\ fresh' = TRUE
  /\ UNCHANGED <<timers, saved, result, host, hurt, disturbed>>

\* robust_jsr: the wrapper is entered again, or the last attempt fails too.
Lost ==
  /\ piece \notin {"idle", "back", "printed", "dead"} /\ disturbed < MaxDisturbed
  /\ disturbed' = disturbed + 1 /\ hurt' = hurt + 1
  /\ piece' \in {Wrapper, "dead"}
  /\ UNCHANGED <<timers, saved, result, fresh, host>>

ShortReading == Top - (256 * result[1] + result[2])
LongReading == (Top - result[1]) + (Top - result[2]) * Word
Reading == IF Wrapper = "short" THEN ShortReading ELSE LongReading

Calibrates == KindOf(stage) \in {"calibrate", "calibrate_long"}
\* Two samples stand for the ten and the five of the calibrations (bound).
Wanted == IF Calibrates THEN 2 ELSE IF KindOf(stage) = "verify" THEN 1 ELSE Samples

\* A multi-block sample that is not positive ends the session.
TakeSample ==
  /\ piece = "back" /\ Len(samples) < Wanted
  /\ LET cycles == Reading - overhead[Wrapper]
     IN  /\ samples' = Append(samples, cycles)
         /\ piece' = IF KindOf(stage) = "multi" /\ cycles <= 0 THEN "dead"
                     ELSE IF Len(samples') = Wanted THEN "back" ELSE "idle"
  /\ UNCHANGED <<timers, saved, result, fresh, session, stage, overhead, table, hurt, disturbed>>

\* The samples, in an order in which they do not fall.
Sorted ==
  LET places == DOMAIN samples
      order == CHOOSE p \in Bijection(places, places) :
                 \A i, j \in places : i < j => samples[p[i]] <= samples[p[j]]
  IN  [i \in places |-> samples[order[i]]]
Median == Sorted[Len(samples) \div 2 + 1]
Spread == Sorted[Len(samples)] - Sorted[1]

\* The next stage; the tables are printed when the last one has passed.
EndStage(ok) ==
  /\ piece' = IF ~ok THEN "dead" ELSE IF stage = Stages(session) THEN "printed" ELSE "idle"
  /\ stage' = stage + 1 /\ samples' = <<>> /\ hurt' = 0
  /\ UNCHANGED <<timers, saved, result, fresh, session, disturbed>>

Limit == [short |-> 25, long |-> 120]

Calibrated ==
  /\ piece = "back" /\ Calibrates /\ Len(samples) = Wanted
  /\ overhead' = [overhead EXCEPT ![Wrapper] = samples[1]]
  /\ table' = Append(table, [median |-> samples[1], warned |-> Spread # 0, hurt |-> hurt])
  /\ EndStage(samples[1] \in 10 .. Limit[Wrapper])

Verified ==
  /\ piece = "back" /\ KindOf(stage) = "verify" /\ Len(samples) = Wanted
  /\ table' = Append(table, [median |-> samples[1], warned |-> FALSE, hurt |-> hurt])
  /\ UNCHANGED overhead
  /\ EndStage(samples[1] - VerifyCycles \in -2 .. 2)

\* Variant: no check of the range.
WideNever == FALSE

Wide == Sorted[1] < 0 \/ Sorted[Len(samples)] > 65000

Row(warned) == [median |-> Median, warned |-> warned, hurt |-> hurt]

\* run_benchmarks, at the end of a routine's samples.
Tabled ==
  /\ piece = "back" /\ KindOf(stage) = "bench" /\ Len(samples) = Wanted
  /\ table' = Append(table, Row(Spread > 0 \/ Wide))
  /\ UNCHANGED overhead
  /\ EndStage(TRUE)

\* run_long_benchmarks, which has no range to check.
LongTabled ==
  /\ piece = "back" /\ KindOf(stage) = "long" /\ Len(samples) = Wanted
  /\ table' = Append(table, Row(Spread > 0))
  /\ UNCHANGED overhead
  /\ EndStage(TRUE)

Ascending == \A i \in 1 .. Len(session.sizes) - 1 : session.sizes[i] < session.sizes[i + 1]
Rising(rows) == \A i \in 6 .. Len(rows) - 1 : rows[i].median < rows[i + 1].median

\* A size of zero is measured, and divided by; the rows of a sweep that
\* ascends are compared when it is complete.
SweepRow ==
  /\ piece = "back" /\ KindOf(stage) = "multi" /\ Len(samples) = Wanted
  /\ LET rows == Append(table, Row(Spread > 0))
         refused == \/ Size = 0
                    \/ stage = Stages(session) /\ Ascending /\ ~Rising(rows)
     IN  table' = rows /\ EndStage(~refused)
  /\ UNCHANGED overhead

BenchmarkNext ==
  \/ ShortStart \/ ShortCall \/ ShortLow \/ ShortRestore
  \/ LongSave \/ LongStart \/ LongCall \/ LongStopA \/ LongStopB \/ LongRead \/ LongRestore
  \/ Enter \/ Lost \/ TakeSample \/ Calibrated \/ Verified \/ Tabled \/ LongTabled \/ SweepRow

BenchmarkSpec == BenchmarkInit /\ [][BenchmarkNext]_benchmarkVars

-----------------------------------------------------------------------------
MostlyClean(row) == 2 * row.hurt < Samples

\* The low byte borrows between the reads of the high and the low byte.
Torn(cycles) == (Top - (ShortLead + cycles)) % 256 < Gap

\* How far the accepted overhead is from the wrapper's own.
ShortError == overhead.short - (ShortLead + Gap)
LongError == overhead.long - (LongLead + 6)

(* The claim of the source's comments: the read of the high byte latches   *)
(* the low one, so the counts are exact.  A printed row of a session in    *)
(* which nothing disturbed the calibration or the row, and which is not    *)
(* warned about, is what the routine costs.  The timers of the CIA latch   *)
(* nothing while they run, and TLC finds the row a page short              *)
(* (benchmark_polyval.py:5-7, 115, 117).                                   *)
ShortRowHonest ==
  piece = "printed" =>
    LET row == table[4]
    IN  (table[1].hurt = 0 /\ row.hurt = 0 /\ ~row.warned) => row.median = session.bench

(* By how much a printed row of a single routine is wrong, to the cycle.   *)
(* Most of its samples undisturbed, it is warned about or falls short by   *)
(* the error of the accepted calibration, at most four cycles and none if  *)
(* nothing disturbed that, and by one page of 256 cycles exactly when the  *)
(* low byte borrows between the two reads; and it is warned about only if  *)
(* a sample was disturbed or the routine is near an end of the timer's     *)
(* range: a short one can be torn below zero                               *)
(* (benchmark_polyval.py:110, 115-118, 184, 206-219, 691-714).             *)
ShortRowAccounted ==
  piece = "printed" =>
    LET row == table[4]
        short == session.bench - row.median - ShortError
    IN  /\ ShortError \in 0 .. 4 /\ (table[1].hurt = 0 => ShortError = 0)
        /\ MostlyClean(row) =>
             row.warned \/ short = (IF Torn(session.bench) THEN 256 ELSE 0)
        /\ row.warned => row.hurt > 0 \/ session.bench < 260 \/ session.bench > 64990

(* A printed row of a long routine, most of whose samples nothing          *)
(* disturbed, is right for any number of timer periods, up to the two      *)
(* cycles that the known stub lets a bad calibration be off                *)
(* (benchmark_polyval.py:327, 379, 440).                                   *)
LongRowExact ==
  piece = "printed" =>
    /\ table[3].hurt = 0 => LongError \in 0 .. 2
    /\ table[2].hurt = 0 => LongError = 0
    /\ MostlyClean(table[5]) => table[5].median = session.long - LongError

(* A printed row of the sweep is the cost of as many blocks as it says, if *)
(* a byte can say it, 256 included; a size of zero is never printed; and a *)
(* sweep that ascends past 256 is not printed with the smaller rows that   *)
(* a wrapped count gives (benchmark_polyval.py:542, 782-784, 812, 834).    *)
SweepHonest ==
  piece = "printed" =>
    LET sizes == session.sizes
    IN  \A i \in 1 .. Len(sizes) :
          /\ sizes[i] > 0
          /\ MostlyClean(table[5 + i]) /\ sizes[i] <= 256 =>
               table[5 + i].median = StubHead + sizes[i] * session.block - LongError
          /\ \A j \in 1 .. i - 1 :
               (Ascending /\ sizes[j] = 256) => table[5 + i].hurt + table[5 + j].hurt > 0

(* Between measurements interrupts are enabled and timer A, which drives   *)
(* the system's interrupt, runs on; only a connection lost after the long  *)
(* wrapper stopped it can leave it stopped, since the second attempt saves *)
(* the stopped state (benchmark_polyval.py:93, 236-238, 137-138).          *)
TimerBack ==
  piece \in {"idle", "printed"} =>
    irq /\ (mode = "free" \/ (mode = "stopped" /\ saved.mode = "stopped" /\ disturbed > 0))
=============================================================================
