--------------------------- MODULE PolyvalCompact ---------------------------
(***************************************************************************)
(* src/src/polyval_compact.s: 4-bit windows, everything in rolled loops.   *)
(* One action per routine, or per loop pass where the routine loops over   *)
(* more than the bytes of one value.                                       *)
(***************************************************************************)
EXTENDS PolyvalHost

polyval_init == OneStep({})
polyval_double == OneStep(Double(acc))
polyval_right_shift_1 == OneStep(RightShift(acc))
polyval_shift_left_4 == OneStep(Double4(acc))

\* acc with one table entry added; entry 0 is skipped, not read.
WithEntry(a, n) == IF n = 0 THEN a ELSE Xor(a, htable[n])

polyval_xor_table_entry ==
  /\ key # Nil
  /\ OneStep(WithEntry(acc, nibble))

-----------------------------------------------------------------------------
(* polyval_precompute_table *)

\* Both buffers start as H; H is shifted right seven times in polyval_temp.
CopyH ==
  /\ Enter("fold", 7)
  /\ acc' = h /\ temp' = h
  /\ UNCHANGED <<h, nibble, key, input, htable>>

\* One shift; the 1st, 2nd and 7th power are folded into the accumulator.
FoldPower ==
  /\ pc = "fold"
  /\ temp' = RightShift(temp)
  /\ acc' = IF step \in {7, 6, 1} THEN Xor(acc, temp') ELSE acc
  /\ CountDown("entries")
  /\ UNCHANGED <<h, nibble, key, input, htable>>

\* The first byte of polyval_temp becomes the offset 16 * k of entry k.
OffsetBits(k) == {p \in 4 .. 7 : (k \div 2 ^ (p - 4)) % 2 = 1}
WithOffset(t, k) == (t \ (0 .. 7)) \cup (IF k = 8 THEN {7} ELSE OffsetBits(k))

\* Entries 0 and 1, and k = 1.
FirstEntries ==
  /\ pc = "entries"
  /\ htable' = [i \in Entry |->
                  IF i = 0 THEN {} ELSE IF i = 1 THEN acc ELSE htable[i]]
  /\ temp' = WithOffset(temp, 1)
  /\ Goto("build")
  /\ UNCHANGED <<h, nibble, acc, key, input, step>>

\* Variant: entry 2k + 1 is made from entry k.
BuildPairFromK ==
  /\ pc = "build"
  /\ LET k == NibbleAt(temp, 4)
         even == Double(htable[k])
     IN  /\ acc' = even
         /\ htable' = [i \in Entry |->
              IF i = 2 * k THEN even
              ELSE IF i = 2 * k + 1 THEN Xor(even, htable[k]) ELSE htable[i]]
         /\ temp' = WithOffset(temp, k + 1)
         /\ Goto(IF k + 1 = 8 THEN "idle" ELSE "build")
         /\ key' = IF k + 1 = 8 THEN h ELSE key
  /\ UNCHANGED <<h, nibble, input, step>>

\* One pass of @build: entry 2k is the double of entry k, entry 2k + 1 is
\* one more.  The counter is read back from polyval_temp.
BuildPair ==
  /\ pc = "build"
  /\ LET k == NibbleAt(temp, 4)
         even == Double(htable[k])
     IN  /\ acc' = even
         /\ htable' = [i \in Entry |->
              IF i = 2 * k THEN even
              ELSE IF i = 2 * k + 1 THEN Xor(even, htable[1]) ELSE htable[i]]
         /\ temp' = WithOffset(temp, k + 1)
         /\ Goto(IF k + 1 = 8 THEN "idle" ELSE "build")
         /\ key' = IF k + 1 = 8 THEN h ELSE key
  /\ UNCHANGED <<h, nibble, input, step>>

-----------------------------------------------------------------------------
(* polyval_multiply, polyval_update *)

\* The operand moves to pv_mul_input; the loop runs over its nibbles.
polyval_multiply ==
  /\ key # Nil
  /\ Enter("multiply", N \div 4)
  /\ input' = acc /\ acc' = {}
  /\ UNCHANGED <<h, temp, nibble, key, htable>>

polyval_update ==
  /\ key # Nil
  /\ Enter("multiply", N \div 4)
  /\ input' = Xor(acc, temp) /\ acc' = {}
  /\ UNCHANGED <<h, temp, nibble, key, htable>>

\* Variant: low nibble first.
pv_mul_step_low_first ==
  /\ pc = "multiply"
  /\ LET n == NibbleAt(input, IF step % 2 = 0 THEN 4 * (step - 2) ELSE 4 * step)
     IN  /\ nibble' = n
         /\ acc' = WithEntry(Double4(acc), n)
  /\ CountDown("idle")
  /\ UNCHANGED <<h, temp, key, input, htable>>

\* The top nibble first.
pv_mul_step ==
  /\ pc = "multiply"
  /\ LET n == NibbleAt(input, 4 * (step - 1))
     IN  /\ nibble' = n
         /\ acc' = WithEntry(Double4(acc), n)
  /\ CountDown("idle")
  /\ UNCHANGED <<h, temp, key, input, htable>>

-----------------------------------------------------------------------------
Library == FoldPower \/ FirstEntries \/ BuildPair \/ pv_mul_step

Next ==
  \/ Host
  \/ polyval_init \/ polyval_double \/ polyval_right_shift_1
  \/ polyval_shift_left_4 \/ polyval_xor_table_entry
  \/ CopyH \/ polyval_multiply \/ polyval_update
  \/ Library

Spec == HostInit /\ [][Next]_hostVars

-----------------------------------------------------------------------------
\* Once a build is over entry i is i times H': no entry was made from one
\* that the build had not written yet.
BuildStep ==
  pc = "build" /\ pc' = "idle" => \A i \in Entry : htable'[i] = Multiple(i, Prime(h))

(* What each place of the code finds in the tables, in the accumulator and *)
(* in the buffers of its caller.  The counter of the build, which is kept  *)
(* in polyval_temp, is a table index all along.                            *)
IInv == Window /\ Built(NibbleAt(temp, 4))
=============================================================================
