---------------------------- MODULE BenchmarkMC ----------------------------
(* Routines at the edges of the timers: the first and the last at which    *)
(* the low byte borrows between the two reads and those beside them, one   *)
(* that the borrow takes below zero, the last cycle of the range and the   *)
(* first past it, long routines that end at an underflow; sweeps at the    *)
(* edges of a byte.                                                        *)
EXTENDS Benchmark

At(bench, long, block, sizes) ==
  [bench |-> bench, long |-> long, block |-> block, sizes |-> sizes]

MCSessions ==
  {At(240, 90000, 4241, <<1, 4>>),
   At(498, 65517, 4241, <<256, 257>>),
   At(490, 65521, 49950, <<255, 256>>),
   At(499, 65523, 4241, <<0>>),
   At(65000, 131053, 4241, <<1, 258>>),
   At(65514, 131058, 4241, <<4, 1>>),
   At(65515, 131059, 4241, <<4, 258>>),
   At(65523, 12, 4241, <<64>>),
   At(491, 200000, 4241, <<16>>)}
=============================================================================
