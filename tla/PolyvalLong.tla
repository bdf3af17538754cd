----------------------------- MODULE PolyvalLong -----------------------------
(***************************************************************************)
(* src/src/polyval_long.s: 8-bit windows.  A multiplication takes a byte   *)
(* at a time from two tables of 256 entries, one with the multiples of H', *)
(* one with the reductions of the byte that is shifted out.                *)
(***************************************************************************)
EXTENDS PolyvalHost

VARIABLES
  htable8,   \* polyval_htable8, 256 entries
  reduce8    \* polyval_reduce8, 256 entries

tables8 == <<htable8, reduce8>>
vars == <<hostVars, tables8>>

Byte == 0 .. 255
Set(t, i, a) == [j \in DOMAIN t |-> IF j = i THEN a ELSE t[j]]
Set01(t, a) == Set(Set(t, 0, {}), 1, a)

polyval_init == OneStep({}) /\ UNCHANGED tables8
polyval_double == OneStep(Double(acc)) /\ UNCHANGED tables8
polyval_right_shift_1 == OneStep(RightShift(acc)) /\ UNCHANGED tables8
polyval_shift_left_4 == OneStep(Double4(acc)) /\ UNCHANGED tables8

pv_unroll_xor_htable_16(a, n) == Xor(a, htable[n])

polyval_xor_table_entry ==
  /\ key # Nil
  /\ OneStep(IF nibble = 0 THEN acc ELSE pv_unroll_xor_htable_16(acc, nibble))
  /\ UNCHANGED tables8

-----------------------------------------------------------------------------
(* polyval_precompute_table *)

CopyH ==
  /\ Enter("shift", N)
  /\ acc' = h
  /\ UNCHANGED <<h, temp, nibble, key, input, htable, tables8>>

\* One of the 128 right shifts that turn H into H'.
Shift ==
  /\ pc = "shift"
  /\ acc' = RightShift(acc)
  /\ CountDown("entries")
  /\ UNCHANGED <<h, temp, nibble, key, input, htable, tables8>>

\* Entries 0, 1 and 2 of the 4-bit table.
FirstEntries ==
  /\ pc = "entries"
  /\ acc' = Double(acc)
  /\ htable' = Set(Set01(htable, acc), 2, acc')
  /\ step' = 3
  /\ Goto("build")
  /\ UNCHANGED <<h, temp, nibble, key, input, tables8>>

\* Entry i: twice entry i / 2, or entry i - 1 and one more.
BuildEntry ==
  /\ pc = "build"
  /\ acc' = IF step % 2 = 0 THEN Double(htable[step \div 2])
            ELSE Xor(htable[step - 1], htable[1])
  /\ htable' = Set(htable, step, acc')
  /\ step' = step + 1
  /\ Goto(IF step + 1 = 16 THEN "entries8" ELSE pc)
  /\ UNCHANGED <<h, temp, nibble, key, input, tables8>>

FirstEntries8 ==
  /\ pc = "entries8"
  /\ acc' = htable[1]
  /\ htable8' = Set01(htable8, acc')
  /\ step' = 2
  /\ Goto("build8")
  /\ UNCHANGED <<h, temp, nibble, key, input, htable, reduce8>>

\* An even entry is read from the table; for an odd one the entry before
\* it is still in the accumulator.
Entry8(t, base) == IF step % 2 = 0 THEN Double(t[step \div 2]) ELSE Xor(acc, base)
Wrapped == (step + 1) % 256

\* Variant: the loop stops at 255.
BuildEntry8Short ==
  /\ pc = "build8"
  /\ acc' = Entry8(htable8, htable[1])
  /\ htable8' = Set(htable8, step, acc')
  /\ step' = Wrapped
  /\ Goto(IF Wrapped = 255 THEN "reduce" ELSE pc)
  /\ UNCHANGED <<h, temp, nibble, key, input, htable, reduce8>>

\* The 8-bit index wraps to 0 after entry 255.
BuildEntry8 ==
  /\ pc = "build8"
  /\ acc' = Entry8(htable8, htable[1])
  /\ htable8' = Set(htable8, step, acc')
  /\ step' = Wrapped
  /\ Goto(IF Wrapped = 0 THEN "reduce" ELSE pc)
  /\ UNCHANGED <<h, temp, nibble, key, input, htable, reduce8>>

FirstReduce8 ==
  /\ pc = "reduce"
  /\ acc' = LeftReduction
  /\ reduce8' = Set01(reduce8, acc')
  /\ step' = 2
  /\ Goto("build_reduce")
  /\ UNCHANGED <<h, temp, nibble, key, input, htable, htable8>>

BuildReduce8 ==
  /\ pc = "build_reduce"
  /\ acc' = Entry8(reduce8, LeftReduction)
  /\ reduce8' = Set(reduce8, step, acc')
  /\ step' = Wrapped
  /\ Goto(IF Wrapped = 0 THEN "idle" ELSE pc)
  /\ key' = IF Wrapped = 0 THEN h ELSE key
  /\ UNCHANGED <<h, temp, nibble, input, htable, htable8>>

-----------------------------------------------------------------------------
(* polyval_multiply, polyval_update *)

\* polyval_multiply_core: the top byte seeds the accumulator.
MultiplyCore(a) ==
  /\ key # Nil
  /\ Enter("multiply", N \div 8 - 1)
  /\ input' = a
  /\ acc' = htable8[ByteAt(a, N - 8)]
  /\ UNCHANGED <<h, temp, nibble, key, htable, tables8>>

polyval_multiply == MultiplyCore(acc)

\* The block is added on the way to pv_mul_input.
pv_unroll_fused_xor_temp_to_input_16 == Xor(acc, temp)

polyval_update == MultiplyCore(pv_unroll_fused_xor_temp_to_input_16)

\* Variant: the reduction is looked up by the byte that is shifted in.
MultiplyByteSwapped ==
  /\ pc = "multiply"
  /\ acc' = Xor(Xor(Rol8(acc), reduce8[ByteAt(acc, N - 16)]),
                htable8[ByteAt(input, 8 * (step - 1))])
  /\ CountDown("idle")
  /\ UNCHANGED <<h, temp, nibble, key, input, htable, tables8>>

\* The fused pass: shift by a byte, reduce the byte that leaves, add the
\* multiple of H' for the next byte of the operand.
MultiplyByte ==
  /\ pc = "multiply"
  /\ acc' = Xor(Xor(Rol8(acc), reduce8[ByteAt(acc, N - 8)]),
                htable8[ByteAt(input, 8 * (step - 1))])
  /\ CountDown("idle")
  /\ UNCHANGED <<h, temp, nibble, key, input, htable, tables8>>

-----------------------------------------------------------------------------
Init ==
  /\ HostInit
  /\ htable8 = [i \in Byte |-> Junk]
  /\ reduce8 = [i \in Byte |-> Junk]

Library ==
  \/ Shift \/ FirstEntries \/ BuildEntry \/ FirstEntries8 \/ BuildEntry8
  \/ FirstReduce8 \/ BuildReduce8 \/ MultiplyByte

Next ==
  \/ Host /\ UNCHANGED tables8
  \/ polyval_init \/ polyval_double \/ polyval_right_shift_1
  \/ polyval_shift_left_4 \/ polyval_xor_table_entry
  \/ CopyH \/ polyval_multiply \/ polyval_update
  \/ Library

Spec == Init /\ [][Next]_vars

-----------------------------------------------------------------------------
ByteBits(i) == {b \in 0 .. 7 : (i \div 2 ^ b) % 2 = 1}

\* When a build ends every entry of the three tables is the product it
\* stands for, computed without tables: i * H', and i * x^128 reduced.  The
\* odd entries rely on what the pass before left in the accumulator, the
\* loops on an index that wraps.
BuildStep ==
  pc = "build_reduce" /\ pc' = "idle" =>
    /\ \A i \in Entry : htable'[i] = Abs!Dot(ByteBits(i), h)
    /\ \A i \in Byte : htable8'[i] = Abs!Dot(ByteBits(i), h)
    /\ \A i \in Byte : Abs!OverN(reduce8'[i]) = ByteBits(i)

(* The inductive invariant: how much of each table is right at each place  *)
(* of the build, and that the accumulator holds the entry before.          *)
TypeOK ==
  /\ HostTypeOK
  /\ htable8 \in [Byte -> Element] /\ reduce8 \in [Byte -> Element]
  /\ pc \in {"idle", "shift", "entries", "build", "entries8", "build8",
             "reduce", "build_reduce", "multiply"}

\* i * x^N reduced, by eight doublings.
Reduced(i) == Double4(Double4({b + (N - 8) : b \in ByteBits(i)}))

Entries(n, k) == \A i \in Entry : i < n => htable[i] = Multiple(i, Prime(k))
Entries8(n, k) == \A i \in Byte : i < n => htable8[i] = Abs!Dot(ByteBits(i), k)
Reductions(n) == \A i \in Byte : i < n => reduce8[i] = Reduced(i)

BuildFlow ==
  /\ pc = "shift" => step \in 1 .. N /\ acc = Abs!OverN(Abs!Shifted(h, step))
  /\ pc = "entries" => acc = Prime(h)
  /\ pc = "build" => step \in 3 .. 15 /\ Entries(step, h)
  /\ pc \in {"entries8", "build8", "reduce", "build_reduce"} => Entries(16, h)
  /\ pc = "build8" =>
       step \in 2 .. 255 /\ acc = htable8[step - 1] /\ Entries8(step, h)
  /\ pc \in {"reduce", "build_reduce"} => Entries8(256, h)
  /\ pc = "build_reduce" =>
       step \in 2 .. 255 /\ acc = reduce8[step - 1] /\ Reductions(step)

Tables8Right ==
  key # Nil /\ pc \in {"idle", "multiply"} => Entries8(256, key) /\ Reductions(256)

IInv ==
  TypeOK /\ BuildFlow /\ TableRight /\ Tables8Right /\ CallKept /\ Multiplied(8)
=============================================================================
