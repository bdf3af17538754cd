---------------------------- MODULE PolyvalShort ----------------------------
(***************************************************************************)
(* src/src/polyval_short.s: 4-bit windows like PolyvalCompact, every loop  *)
(* over nibbles and table entries written out.  The unrolled code has no   *)
(* counters in memory: here step is the place in it.  The multiplication   *)
(* keeps its nibble in a register and leaves pv_mul_nibble alone.          *)
(***************************************************************************)
EXTENDS PolyvalHost

polyval_init == OneStep({})
polyval_double == OneStep(Double(acc))
polyval_right_shift_1 == OneStep(RightShift(acc))
polyval_shift_left_4 == OneStep(Double4(acc))

pv_unroll_xor_htable_16(a, n) == Xor(a, htable[n])

polyval_xor_table_entry ==
  /\ key # Nil
  /\ OneStep(IF nibble = 0 THEN acc ELSE pv_unroll_xor_htable_16(acc, nibble))

-----------------------------------------------------------------------------
(* polyval_precompute_table *)

CopyH ==
  /\ Enter("fold", 7)
  /\ acc' = h /\ temp' = h
  /\ UNCHANGED <<h, nibble, key, input, htable>>

\* Variant: four shifts instead of five before the last fold.
FoldShiftShort ==
  /\ pc = "fold"
  /\ temp' = IF step = 2 THEN temp ELSE RightShift(temp)
  /\ acc' = IF step \in {7, 6, 1} THEN Xor(acc, temp') ELSE acc
  /\ CountDown("entries")
  /\ UNCHANGED <<h, nibble, key, input, htable>>

\* pv_rshift1_temp, seven times; pv_xor_temp_into_acc_16 after three of them.
FoldShift ==
  /\ pc = "fold"
  /\ temp' = RightShift(temp)
  /\ acc' = IF step \in {7, 6, 1} THEN Xor(acc, temp') ELSE acc
  /\ CountDown("entries")
  /\ UNCHANGED <<h, nibble, key, input, htable>>

FirstEntries ==
  /\ pc = "entries"
  /\ htable' = [i \in Entry |->
                  IF i = 0 THEN {} ELSE IF i = 1 THEN acc ELSE htable[i]]
  /\ step' = 7 /\ Goto("build")
  /\ UNCHANGED <<h, temp, nibble, acc, key, input>>

\* Variant: entry 12 is made from entry 5.
BuildPairFixed ==
  /\ pc = "build"
  /\ LET k == 8 - step
         even == Double(htable[IF k = 6 THEN 5 ELSE k])
     IN  htable' = [i \in Entry |->
           IF i = 2 * k THEN even
           ELSE IF i = 2 * k + 1 THEN Xor(even, htable[1]) ELSE htable[i]]
  /\ key' = IF step = 1 THEN h ELSE key
  /\ CountDown("idle")
  /\ UNCHANGED <<h, temp, nibble, acc, input>>

\* pv_double_htable_copy into entry 2k, pv_xor_htable_entries into 2k + 1.
BuildPair ==
  /\ pc = "build"
  /\ LET k == 8 - step
         even == Double(htable[k])
     IN  htable' = [i \in Entry |->
           IF i = 2 * k THEN even
           ELSE IF i = 2 * k + 1 THEN Xor(even, htable[1]) ELSE htable[i]]
  /\ key' = IF step = 1 THEN h ELSE key
  /\ CountDown("idle")
  /\ UNCHANGED <<h, temp, nibble, acc, input>>

-----------------------------------------------------------------------------
(* polyval_multiply, polyval_update *)

\* pv_unroll_save_acc_16 and pv_unroll_clear_acc_16, then the nibbles.
Multiply(a) ==
  /\ key # Nil
  /\ Enter("multiply", N \div 4)
  /\ input' = a /\ acc' = {}
  /\ UNCHANGED <<h, temp, nibble, key, htable>>

pv_unroll_xor_temp_16 == Xor(acc, temp)

polyval_multiply == Multiply(acc)
polyval_update == Multiply(pv_unroll_xor_temp_16)

\* Variant: a zero nibble skips the shift too.
pv_process_nibble_skip ==
  /\ pc = "multiply"
  /\ LET n == NibbleAt(input, 4 * (step - 1))
     IN  acc' = IF n = 0 THEN acc ELSE pv_unroll_xor_htable_16(Double4(acc), n)
  /\ CountDown("idle")
  /\ UNCHANGED <<h, temp, nibble, key, input, htable>>

pv_process_nibble ==
  /\ pc = "multiply"
  /\ LET n == NibbleAt(input, 4 * (step - 1))
         shifted == Double4(acc)
     IN  acc' = IF n = 0 THEN shifted ELSE pv_unroll_xor_htable_16(shifted, n)
  /\ CountDown("idle")
  /\ UNCHANGED <<h, temp, nibble, key, input, htable>>

-----------------------------------------------------------------------------
Next ==
  \/ Host
  \/ polyval_init \/ polyval_double \/ polyval_right_shift_1
  \/ polyval_shift_left_4 \/ polyval_xor_table_entry
  \/ CopyH \/ FoldShift \/ FirstEntries \/ BuildPair
  \/ polyval_multiply \/ polyval_update \/ pv_process_nibble

Spec == HostInit /\ [][Next]_hostVars

-----------------------------------------------------------------------------
(* Each of the nibble steps written out, with its skip of entry 0, does    *)
(* what four bits of schoolbook multiplication by H' do                    *)
(* (polyval_short.s:265-280).                                              *)
NibbleStep ==
  pc = "multiply" =>
    LET p == 4 * (step - 1)
        hp == Prime(key)
    IN  acc' = BitStep(BitStep(BitStep(BitStep(
                 acc, p + 3 \in input, hp), p + 2 \in input, hp),
                 p + 1 \in input, hp), p \in input, hp)

NibbleSteps == [][NibbleStep]_hostVars

(* What each place of the unrolled code finds in the tables, in the        *)
(* accumulator and in the buffers of its caller: no table entry is made    *)
(* from an old one, and after n nibbles of a product the accumulator is    *)
(* the product of the top n (polyval_short.s:881-995, 1047-1199).          *)
IInv == Window /\ Built(8 - step)
=============================================================================
