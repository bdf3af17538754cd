------------------------- MODULE PolyvalWindowProofs -------------------------
(***************************************************************************)
(* The two profiles with 4-bit windows, for every width, every key and     *)
(* block and any sequence of calls: their tables, their multiplication     *)
(* loop, and that each of them implements PolyvalSpec.  COMPACT is SHORT   *)
(* with its counters in memory: most of its actions are actions of SHORT.  *)
(***************************************************************************)
EXTENDS PolyvalShort, PolyvalFieldProofs

LEMMA InitInvariant == HostInit => Window /\ pc = "idle"
BY InitTypes DEF Window, Folding, TableRight, CallKept, Multiplied

-----------------------------------------------------------------------------
(* Between two calls. *)

\* A step between calls that leaves the tables alone.
LEMMA OutsideStep ==
  ASSUME Window, pc = "idle", pc' = "idle", HostTypeOK',
         UNCHANGED <<htable, key>>
  PROVE  Window'
BY DEF Window, Folding, TableRight, CallKept, Multiplied

LEMMA HostStep ==
  ASSUME Window, Host
  PROVE  Window' /\ pc = "idle" /\ pc' = "idle"
<1>1. HostTypeOK
  BY DEF Window
<1> QED
  BY <1>1, HostKeeps, OutsideStep

LEMMA CallStep ==
  ASSUME Window, OneStepCall
  PROVE  Window' /\ pc = "idle" /\ pc' = "idle"
<1>1. HostTypeOK /\ TableRight
  BY DEF Window
<1> QED
  BY <1>1, CallKeeps, OutsideStep

-----------------------------------------------------------------------------
(* The table build. *)

LEMMA CopyHStep ==
  ASSUME Window, CopyH
  PROVE  Window' /\ pc = "idle" /\ pc' = "fold"
<1>1. HostTypeOK'
  BY HostAssumption DEF Window, HostTypeOK, CopyH, Enter
<1>2. /\ pc = "idle" /\ pc' = "fold" /\ step' = 7
      /\ temp' = h' /\ acc' = h'
  BY DEF CopyH, Enter
<1>3. temp' = Halved(h', 7 - step') /\ acc' = Folded(h', 7 - step')
  BY <1>2 DEF Halved, Folded
<1>4. CallKept'
  BY <1>2 DEF Window, HostTypeOK, CopyH, Enter, CallKept
<1> QED
  BY <1>1, <1>2, <1>3, <1>4 DEF Window, Folding, TableRight, Multiplied

LEMMA FoldShiftStep ==
  ASSUME Window, FoldShift
  PROVE  Window' /\ pc = "fold" /\ pc' \in {"fold", "entries"}
<1> DEFINE n == 7 - step
<1>1. /\ HostTypeOK
      /\ pc = "fold" /\ step \in 1 .. 7 /\ n \in 0 .. 6
      /\ temp = Halved(h, n) /\ acc = Folded(h, n)
  BY DEF Window, Folding, FoldShift
<1>2. /\ temp' = RightShift(temp)
      /\ acc' = IF step \in {7, 6, 1} THEN Xor(acc, temp') ELSE acc
      /\ step' = step - 1 /\ pc' = (IF step = 1 THEN "entries" ELSE "fold")
      /\ call' = call
      /\ UNCHANGED <<h, nibble, key, input, htable, calls>>
  BY <1>1 DEF FoldShift, CountDown, Goto
<1>3. temp' = Halved(h, n + 1)
  BY <1>1, <1>2, HalvedNext DEF HostTypeOK
<1>4. temp' \in Element /\ acc' \in Element
  BY <1>1, <1>2, RightShiftType, XorType DEF HostTypeOK
<1>5. acc' = Folded(h, n + 1)
  <2>1. CASE step = 7
    <3>1. acc = h
      BY <1>1, <2>1 DEF Folded
    <3>2. acc' = Xor(h, Halved(h, 1))
      BY <1>2, <1>3, <2>1, <3>1
    <3> QED
      BY <2>1, <3>2 DEF Folded
  <2>2. CASE step = 6
    <3>1. acc = Xor(h, Halved(h, 1))
      BY <1>1, <2>2 DEF Folded
    <3>2. acc' = Xor(Xor(h, Halved(h, 1)), Halved(h, 2))
      BY <1>2, <1>3, <2>2, <3>1
    <3> QED
      BY <2>2, <3>2 DEF Folded
  <2>3. CASE step \in 2 .. 5
    <3>1. acc = Xor(Xor(h, Halved(h, 1)), Halved(h, 2)) /\ acc' = acc
      BY <1>1, <1>2, <2>3 DEF Folded
    <3> QED
      BY <2>3, <3>1 DEF Folded
  <2>4. CASE step = 1
    <3>1. acc = Xor(Xor(h, Halved(h, 1)), Halved(h, 2))
      BY <1>1, <2>4 DEF Folded
    <3>2. acc' = Prime(h)
      BY <1>2, <1>3, <2>4, <3>1 DEF Prime
    <3> QED
      BY <2>4, <3>2 DEF Folded
  <2> QED
    BY <1>1, <2>1, <2>2, <2>3, <2>4
<1>6. HostTypeOK'
  BY <1>1, <1>2, <1>4 DEF HostTypeOK
<1>7. Folding'
  <2>1. CASE step = 1
    BY <1>2, <1>5, <2>1 DEF Folding, Folded
  <2>2. CASE step # 1
    <3>1. step' \in 1 .. 7 /\ 7 - step' = n + 1
      BY <1>1, <1>2, <2>2
    <3> QED
      BY <1>2, <1>3, <1>5, <2>2, <3>1 DEF Folding
  <2> QED
    BY <2>1, <2>2
<1>8. CallKept'
  BY <1>1, <1>2 DEF Window, CallKept
<1> QED
  BY <1>1, <1>2, <1>6, <1>7, <1>8 DEF Window, TableRight, Multiplied

\* Entries 0 and 1, wherever the profile keeps its counter.
LEMMA FirstEntriesEffect ==
  ASSUME Window, pc = "entries", pc' = "build", step' \in Nat, temp' \in Element,
         htable' = [i \in Entry |->
                      IF i = 0 THEN {} ELSE IF i = 1 THEN acc ELSE htable[i]],
         UNCHANGED <<h, nibble, acc, key, input, calls, call>>
  PROVE  /\ Window'
         /\ \A i \in Entry : i < 2 => htable'[i] = Multiple(i, Prime(h'))
<1>1. HostTypeOK /\ acc = Prime(h)
  BY DEF Window, Folding
<1>2. HostTypeOK'
  <2>1. htable' \in [Entry -> Element]
    BY <1>1, DoubleZero DEF HostTypeOK
  <2> QED
    BY <1>1, <2>1 DEF HostTypeOK
<1>3. Multiple(0, Prime(h)) = {} /\ Multiple(1, Prime(h)) = Prime(h)
  BY <1>1, PrimeType, MultipleZero DEF HostTypeOK
<1>4. \A i \in Entry : i < 2 => htable'[i] = Multiple(i, Prime(h'))
  BY <1>1, <1>3 DEF Entry
<1> QED
  BY <1>2, <1>4 DEF Window, Folding, TableRight, CallKept, Multiplied

LEMMA FirstEntriesStep ==
  ASSUME IInv, FirstEntries
  PROVE  IInv' /\ pc = "entries" /\ pc' = "build"
<1>1. /\ Window /\ pc = "entries" /\ step' = 7 /\ pc' = "build" /\ step' \in Nat
      /\ temp' \in Element
      /\ htable' = [i \in Entry |->
                      IF i = 0 THEN {} ELSE IF i = 1 THEN acc ELSE htable[i]]
      /\ UNCHANGED <<h, nibble, acc, key, input, calls, call>>
  BY DEF IInv, Window, HostTypeOK, FirstEntries, Goto
<1>2. Window' /\ \A i \in Entry : i < 2 => htable'[i] = Multiple(i, Prime(h'))
  BY <1>1, FirstEntriesEffect
<1> QED
  BY <1>1, <1>2 DEF IInv, Built

\* Entries 2k and 2k + 1, wherever the profile keeps k.
LEMMA PairEffect ==
  ASSUME Window, pc = "build", NEW k \in 1 .. 7,
         \A i \in Entry : i < 2 * k => htable[i] = Multiple(i, Prime(h)),
         htable' = [i \in Entry |->
           IF i = 2 * k THEN Double(htable[k])
           ELSE IF i = 2 * k + 1 THEN Xor(Double(htable[k]), htable[1])
           ELSE htable[i]],
         h' = h
  PROVE  /\ htable' \in [Entry -> Element] /\ Double(htable[k]) \in Element
         /\ \A i \in Entry : i < 2 * (k + 1) => htable'[i] = Multiple(i, Prime(h))
<1> DEFINE hp == Prime(h)
           even == Double(htable[k])
<1>1. HostTypeOK /\ hp \in Element /\ h \in Element
  BY PrimeType DEF Window, HostTypeOK
<1>2. htable[k] = Multiple(k, hp) /\ htable[1] = hp
  <2>1. k \in Entry /\ 1 \in Entry /\ k < 2 * k /\ 1 < 2 * k
    BY DEF Entry
  <2> QED
    BY <1>1, <2>1, MultipleZero
<1>3. even = Multiple(2 * k, hp) /\ Xor(even, htable[1]) = Multiple(2 * k + 1, hp)
  BY <1>1, <1>2, MultipleStep
<1>4. even \in Element /\ Xor(even, htable[1]) \in Element
  <2>1. 2 * k \in Nat /\ 2 * k + 1 \in Nat
    OBVIOUS
  <2> QED
    BY <1>1, <1>3, <2>1, MultipleType
<1> HIDE DEF even
<1>5. htable' \in [Entry -> Element]
  BY <1>1, <1>4 DEF HostTypeOK, even
<1>6. \A i \in Entry : i < 2 * (k + 1) => htable'[i] = Multiple(i, hp)
  <2> SUFFICES ASSUME NEW i \in Entry, i < 2 * (k + 1)
               PROVE  htable'[i] = Multiple(i, hp)
    OBVIOUS
  <2>1. i < 2 * k \/ i = 2 * k \/ i = 2 * k + 1
    BY DEF Entry
  <2>2. CASE i < 2 * k
    <3>1. htable'[i] = htable[i]
      BY <2>2 DEF Entry
    <3> QED
      BY <2>2, <3>1
  <2>3. CASE i = 2 * k
    BY <1>3, <2>3 DEF even
  <2>4. CASE i = 2 * k + 1
    BY <1>3, <2>4 DEF even
  <2> QED
    BY <2>1, <2>2, <2>3, <2>4
<1> QED
  BY <1>4, <1>5, <1>6 DEF even

\* The rest of a pass of the build, once the entries are known.
LEMMA BuildEffect ==
  ASSUME Window, pc = "build", pc' = "build", HostTypeOK',
         UNCHANGED <<h, nibble, key, call>>
  PROVE  Window'
BY DEF Window, Folding, TableRight, CallKept, Multiplied

LEMMA BuildPairStep ==
  ASSUME IInv, BuildPair
  PROVE  /\ IInv' /\ pc = "build" /\ pc' \in {"build", "idle"}
         /\ UNCHANGED <<h, nibble>>
         /\ pc' = "build" => UNCHANGED <<key, call>>
         /\ pc' = "idle" => key' = h
<1> DEFINE k == 8 - step
<1>1. /\ Window /\ HostTypeOK
      /\ pc = "build" /\ step \in 1 .. 7 /\ k \in 1 .. 7
      /\ \A i \in Entry : i < 2 * k => htable[i] = Multiple(i, Prime(h))
  BY DEF IInv, Built, Window, HostTypeOK, BuildPair
<1>2. /\ htable' = [i \in Entry |->
           IF i = 2 * k THEN Double(htable[k])
           ELSE IF i = 2 * k + 1 THEN Xor(Double(htable[k]), htable[1])
           ELSE htable[i]]
      /\ key' = IF step = 1 THEN h ELSE key
      /\ step' = step - 1 /\ pc' = (IF step = 1 THEN "idle" ELSE "build")
      /\ call' = (IF step = 1 THEN Nil ELSE call)
      /\ UNCHANGED <<h, temp, nibble, acc, input, calls>>
  BY <1>1 DEF BuildPair, CountDown, Goto
<1> HIDE DEF k
<1>3. /\ htable' \in [Entry -> Element]
      /\ \A i \in Entry : i < 2 * (k + 1) => htable'[i] = Multiple(i, Prime(h))
  BY <1>1, <1>2, PairEffect
<1>4. HostTypeOK'
  BY <1>1, <1>2, <1>3 DEF HostTypeOK
<1>5. CASE step = 1
  <2>1. \A i \in Entry : htable'[i] = Multiple(i, Prime(key'))
    BY <1>2, <1>3, <1>5 DEF Entry, k
  <2> QED
    BY <1>1, <1>2, <1>4, <1>5, <2>1 DEF IInv, Built, Window, Folding, TableRight, CallKept, Multiplied
<1>6. CASE step # 1
  <2>1. 8 - step' = k + 1 /\ k + 1 \in 1 .. 7
    BY <1>1, <1>2, <1>6 DEF k
  <2>2. Built(8 - step)'
    BY <1>2, <1>3, <2>1 DEF Built
  <2>3. Window'
    BY <1>1, <1>2, <1>4, <1>6, BuildEffect
  <2> QED
    BY <1>1, <1>2, <1>6, <2>2, <2>3 DEF IInv
<1> QED
  BY <1>5, <1>6

-----------------------------------------------------------------------------
(* The multiplication. *)

LEMMA MultiplyCallStep ==
  ASSUME Window, polyval_multiply \/ polyval_update
  PROVE  Window' /\ pc = "idle" /\ pc' = "multiply"
<1>1. HostTypeOK /\ TableRight
  BY DEF Window
<1>2. /\ key # Nil /\ pc = "idle"
      /\ pc' = "multiply" /\ step' = N \div 4 /\ calls' = calls + 1 /\ calls < MaxCalls
      /\ acc' = {}
      /\ call' = [h |-> h, temp |-> temp, nibble |-> nibble, acc |-> acc, key |-> key]
      /\ UNCHANGED <<h, temp, nibble, key, htable>>
  BY DEF polyval_multiply, polyval_update, Multiply, pv_unroll_xor_temp_16, Enter
<1>3. input' \in Element /\ input' \in {acc, Xor(acc, temp)}
  BY <1>1, XorType DEF polyval_multiply, polyval_update, Multiply, pv_unroll_xor_temp_16,
     HostTypeOK
<1>4. step' \in Nat /\ step' >= 1 /\ 4 * step' = N
  BY <1>2, NAssumption
<1>5. HostTypeOK'
  BY <1>1, <1>2, <1>3, <1>4, DoubleZero, HostAssumption DEF HostTypeOK
<1>6. call'.temp = temp /\ call'.acc = acc /\ call'.h = h /\ call'.key = key
  BY <1>2
<1>7. Multiplied(4)'
  <2>1. Shr(input', 4 * step') = {}
    BY <1>3, <1>4, ShrEnds
  <2>2. acc' = Abs!Dot(Shr(input', 4 * step'), key')
    BY <1>2, <2>1, DotZero
  <2>3. 4 * step' <= N
    <3>1. N <= N
      BY NAssumption
    <3> QED
      BY <1>4, <3>1
  <2> QED
    BY <1>2, <1>3, <1>4, <1>6, <2>2, <2>3 DEF Multiplied, Shr
<1>8. CallKept'
  BY <1>1, <1>2, <1>6 DEF CallKept, HostTypeOK
<1> QED
  BY <1>1, <1>2, <1>5, <1>7, <1>8 DEF Window, Folding, TableRight

(* What one nibble step does to the accumulator. *)
LEMMA NibbleEffect ==
  ASSUME Window, pv_process_nibble
  PROVE  /\ acc' = Xor(Double4(acc), Multiple(NibbleAt(input, 4 * (step - 1)), Prime(key)))
         /\ acc' \in Element
<1> DEFINE n == NibbleAt(input, 4 * (step - 1))
           hp == Prime(key)
<1>1. /\ HostTypeOK /\ TableRight
      /\ pc = "multiply" /\ step \in Nat /\ step >= 1 /\ key # Nil /\ key \in Element
  BY DEF Window, HostTypeOK, Multiplied, pv_process_nibble
<1>2. hp \in Element /\ acc \in Element /\ input \in Element
  BY <1>1, PrimeType DEF HostTypeOK
<1>3. n \in 0 .. 15
  <2>1. 4 * (step - 1) \in Nat
    BY <1>1
  <2> QED
    BY <1>2, <2>1, NibbleDigits
<1>4. htable[n] = Multiple(n, hp)
  BY <1>1, <1>3 DEF TableRight, Entry
<1>5. Double4(acc) \in Element /\ Multiple(n, hp) \in Element
  BY <1>2, <1>3, Double4Type, MultipleType
<1>6. acc' = IF n = 0 THEN Double4(acc) ELSE Xor(Double4(acc), htable[n])
  BY DEF pv_process_nibble, pv_unroll_xor_htable_16
<1>7. CASE n = 0
  BY <1>2, <1>5, <1>6, <1>7, MultipleZero, XorZero
<1>8. CASE n # 0
  BY <1>4, <1>5, <1>6, <1>8, XorType
<1> QED
  BY <1>7, <1>8

\* The accumulator is the product of one nibble more of the operand.
LEMMA NibbleProduct ==
  ASSUME Window, pc = "multiply",
         acc' = Xor(Double4(acc), Multiple(NibbleAt(input, 4 * (step - 1)), Prime(key)))
  PROVE  acc' = Abs!Dot(Shr(input, 4 * (step - 1)), key)
<1> DEFINE p == 4 * (step - 1)
<1>1. /\ key \in Element /\ input \in Element /\ step \in Nat /\ step >= 1 /\ 4 * step <= N
      /\ acc = Abs!Dot(Shr(input, 4 * step), key)
  BY DEF Window, HostTypeOK, Multiplied
<1>2. p \in Nat /\ p + 4 = 4 * step /\ p + 4 <= N
  BY <1>1, NAssumption
<1> HIDE DEF p
<1>3. Abs!Dot(Shr(input, p), key)
        = Xor(Double4(Abs!Dot(Shr(input, p + 4), key)), Multiple(NibbleAt(input, p), Prime(key)))
  BY <1>1, <1>2, DotNibble
<1> QED
  BY <1>1, <1>2, <1>3 DEF p

\* A pass of the loop, whatever it leaves in pv_mul_nibble.
LEMMA NibblePass ==
  ASSUME Window, pc = "multiply", nibble' \in Entry, acc' \in Element,
         acc' = Xor(Double4(acc), Multiple(NibbleAt(input, 4 * (step - 1)), Prime(key))),
         CountDown("idle"),
         UNCHANGED <<h, temp, key, input, htable>>
  PROVE  /\ Window' /\ pc' \in {"multiply", "idle"}
         /\ UNCHANGED <<h, temp, key>>
         /\ pc' = "multiply" => UNCHANGED call
         /\ pc' = "idle" => acc' = Abs!Dot(input, key)
<1>1. /\ HostTypeOK /\ TableRight /\ CallKept /\ Multiplied(4)
      /\ step \in Nat /\ step >= 1 /\ 4 * step <= N /\ key # Nil /\ input \in Element
  BY DEF Window, HostTypeOK, Multiplied
<1>2. /\ step' = step - 1 /\ pc' = (IF step = 1 THEN "idle" ELSE "multiply")
      /\ call' = (IF step = 1 THEN Nil ELSE call)
      /\ calls' = calls
  BY DEF CountDown, Goto
<1>3. acc' = Abs!Dot(Shr(input, 4 * (step - 1)), key)
  BY NibbleProduct
<1>4. step' \in Nat
  BY <1>1, <1>2
<1>5. HostTypeOK'
  BY <1>1, <1>2, <1>4 DEF HostTypeOK
<1>6. CASE step = 1
  <2>1. 4 * (step - 1) = 0
    BY <1>6
  <2>2. acc' = Abs!Dot(input, key)
    BY <1>1, <1>3, <2>1, ShrEnds
  <2> QED
    BY <1>1, <1>2, <1>5, <1>6, <2>2 DEF Window, Folding, TableRight, CallKept, Multiplied
<1>7. CASE step # 1
  <2>1. step' >= 1 /\ 4 * step' <= N
    BY <1>1, <1>2, <1>7, NAssumption
  <2>2. Multiplied(4)'
    BY <1>1, <1>2, <1>3, <1>7, <2>1 DEF Multiplied, Shr
  <2>3. CallKept'
    BY <1>1, <1>2, <1>7 DEF CallKept
  <2> QED
    BY <1>1, <1>2, <1>5, <1>7, <2>2, <2>3 DEF Window, Folding, TableRight
<1> QED
  BY <1>6, <1>7

LEMMA NibbleKeeps ==
  ASSUME Window, pv_process_nibble
  PROVE  /\ Window' /\ pc = "multiply" /\ pc' \in {"multiply", "idle"}
         /\ UNCHANGED <<h, temp, key>> /\ nibble' \in Entry
         /\ pc' = "multiply" => UNCHANGED call
         /\ pc' = "idle" => acc' = Abs!Dot(input, key)
<1>1. /\ pc = "multiply" /\ nibble' = nibble /\ CountDown("idle")
      /\ UNCHANGED <<h, temp, key, input, htable>>
  BY DEF pv_process_nibble
<1>2. nibble' \in Entry
  BY <1>1 DEF Window, HostTypeOK
<1> QED
  BY <1>1, <1>2, NibbleEffect, NibblePass

-----------------------------------------------------------------------------
(* SHORT. *)

SimpleRoutine ==
  \/ polyval_init \/ polyval_double \/ polyval_right_shift_1
  \/ polyval_shift_left_4 \/ polyval_xor_table_entry

LEMMA SimpleRoutines == SimpleRoutine => OneStepCall
BY DEF SimpleRoutine, polyval_init, polyval_double, polyval_right_shift_1,
   polyval_shift_left_4, polyval_xor_table_entry, pv_unroll_xor_htable_16, OneStepCall

LEMMA NextKeeps ==
  ASSUME IInv, [Next]_hostVars
  PROVE  IInv'
<1>1. Window
  BY DEF IInv
<1>2. CASE Window' /\ pc' # "build"
  BY <1>2 DEF IInv, Built
<1>3. CASE Host
  BY <1>1, <1>2, <1>3, HostStep
<1>4. CASE SimpleRoutine
  BY <1>1, <1>2, <1>4, SimpleRoutines, CallStep
<1>5. CASE CopyH
  BY <1>1, <1>2, <1>5, CopyHStep
<1>6. CASE FoldShift
  BY <1>1, <1>2, <1>6, FoldShiftStep
<1>7. CASE FirstEntries
  BY <1>7, FirstEntriesStep
<1>8. CASE BuildPair
  BY <1>8, BuildPairStep
<1>9. CASE polyval_multiply \/ polyval_update
  BY <1>1, <1>2, <1>9, MultiplyCallStep
<1>10. CASE pv_process_nibble
  BY <1>1, <1>2, <1>10, NibbleKeeps
<1>11. CASE UNCHANGED hostVars
  BY <1>11 DEF hostVars, interface, IInv, Built, Window, HostTypeOK, Folding, TableRight,
     CallKept, Multiplied, Shr
<1> QED
  BY <1>3, <1>4, <1>5, <1>6, <1>7, <1>8, <1>9, <1>10, <1>11 DEF Next, SimpleRoutine

(* The unrolled code finds in the tables and the accumulator what it needs *)
(* at each place, whatever was called before.                              *)
THEOREM ShortInvariance == Spec => []IInv
<1>1. HostInit => IInv
  BY InitInvariant DEF IInv, Built
<1>2. IInv /\ [Next]_hostVars => IInv'
  BY NextKeeps
<1> QED
  BY <1>1, <1>2, PTL DEF Spec

(* After any build, and through any calls, entry i of the table is i * H'  *)
(* for the key of that build.                                              *)
THEOREM ShortTableSafety == Spec => []TableRight
<1>1. IInv => TableRight
  BY DEF IInv, Window
<1> QED
  BY <1>1, ShortInvariance, PTL

LEMMA NibbleStepRight ==
  ASSUME IInv, [Next]_hostVars
  PROVE  [NibbleStep]_hostVars
<1> SUFFICES ASSUME Next, pc = "multiply"
             PROVE  NibbleStep
  BY DEF NibbleStep
<1>0. Window
  BY DEF IInv
<1>1. pv_process_nibble
  BY DEF Next, Host, SetH, SetBlock, SetNibble, polyval_init, polyval_double,
     polyval_right_shift_1, polyval_shift_left_4, polyval_xor_table_entry, OneStep,
     CopyH, Enter, FoldShift, FirstEntries, BuildPair,
     polyval_multiply, polyval_update, Multiply, pv_unroll_xor_temp_16
<1> DEFINE p == 4 * (step - 1)
           hp == Prime(key)
<1>2. /\ p \in Nat /\ hp \in Element /\ acc \in Element /\ input \in Element
  <2>1. key \in Element /\ step \in Nat /\ step >= 1
    BY <1>0 DEF Window, HostTypeOK, Multiplied
  <2> QED
    BY <1>0, <2>1, PrimeType DEF Window, HostTypeOK
<1>3. acc' = Xor(Double4(acc), Multiple(NibbleAt(input, p), hp))
  BY <1>0, <1>1, NibbleEffect
<1> HIDE DEF p, hp
<1>4. acc' = BitStep(BitStep(BitStep(BitStep(
               acc, p + 3 \in input, hp), p + 2 \in input, hp),
               p + 1 \in input, hp), p \in input, hp)
  BY <1>2, <1>3, NibbleIsFourBits
<1> QED
  BY <1>4 DEF NibbleStep, p, hp

(* Every pass of the multiplication of the SHORT profile multiplies the    *)
(* accumulator by x^4 and adds the next four bits of the operand times H'. *)
THEOREM ShortNibbleSafety == Spec => NibbleSteps
<1>1. IInv /\ [Next]_hostVars => [NibbleStep]_hostVars
  BY NibbleStepRight
<1> QED
  BY <1>1, ShortInvariance, PTL DEF Spec, NibbleSteps

LEMMA ShortStepRefines ==
  ASSUME IInv, [Next]_hostVars
  PROVE  Abs!Next \/ UNCHANGED Abs!vars
<1>0. Window /\ HostTypeOK /\ TableRight /\ CallKept
  BY DEF IInv, Window
<1>1. CASE Host
  BY <1>0, <1>1, HostRefines
<1>2. CASE SimpleRoutine
  BY <1>0, <1>2, SimpleRoutines, CallRefines
<1>3. CASE CopyH \/ polyval_multiply \/ polyval_update
  <2>1. pc = "idle" /\ pc' \in {"fold", "multiply"}
    BY <1>3 DEF CopyH, polyval_multiply, polyval_update, Multiply, Enter,
       pv_unroll_xor_temp_16
  <2>2. call' = [h |-> h, temp |-> temp, nibble |-> nibble, acc |-> acc, key |-> key]
    BY <1>3 DEF CopyH, polyval_multiply, polyval_update, Multiply, Enter,
       pv_unroll_xor_temp_16
  <2> QED
    BY <2>1, <2>2, EnterHidden
<1>4. CASE FoldShift \/ FirstEntries
  <2>1. pc # "idle" /\ pc' # "idle" /\ UNCHANGED call
    BY <1>4 DEF FoldShift, FirstEntries, CountDown, Goto
  <2> QED
    BY <2>1, RunningHidden
<1>5. CASE BuildPair
  <2>1. /\ IInv' /\ pc = "build" /\ pc' \in {"build", "idle"}
        /\ UNCHANGED <<h, nibble>>
        /\ pc' = "build" => UNCHANGED <<key, call>>
        /\ pc' = "idle" => key' = h
    BY <1>5, BuildPairStep
  <2>2. CASE pc' = "build"
    BY <2>1, <2>2, RunningHidden
  <2>3. CASE pc' = "idle"
    <3>1. HostTypeOK'
      BY <2>1 DEF IInv, Window
    <3> QED
      BY <1>0, <2>1, <2>3, <3>1, BuildRefines
  <2> QED
    BY <2>1, <2>2, <2>3
<1>6. CASE pv_process_nibble
  <2>1. /\ pc = "multiply" /\ pc' \in {"multiply", "idle"}
        /\ UNCHANGED <<h, temp, key>> /\ nibble' \in Entry
        /\ pc' = "multiply" => UNCHANGED call
        /\ pc' = "idle" => acc' = Abs!Dot(input, key)
    BY <1>0, <1>6, NibbleKeeps
  <2>2. CASE pc' = "multiply"
    BY <2>1, <2>2, RunningHidden
  <2>3. CASE pc' = "idle"
    <3>1. key # Nil /\ input \in {call.acc, Xor(call.acc, call.temp)}
      BY <1>0, <2>1 DEF Window, Multiplied
    <3> QED
      BY <1>0, <2>1, <2>3, <3>1, ProductRefines
  <2> QED
    BY <2>1, <2>2, <2>3
<1>7. CASE UNCHANGED hostVars
  BY <1>7 DEF hostVars, interface, Abs!vars
<1> QED
  BY <1>1, <1>2, <1>3, <1>4, <1>5, <1>6, <1>7 DEF Next, SimpleRoutine

(* For its caller the SHORT profile computes the polynomials of RFC 8452:  *)
(* every call is one step of PolyvalSpec, with the carry-less product and  *)
(* the division by x^N where the code has tables and running reductions,   *)
(* and polyval_h and polyval_temp survive as polyval_api.inc:12-22 has it. *)
THEOREM ShortRefinement == Spec => ImplementsPolyval
<1>1. Spec => Abs!Init /\ [][Abs!Next]_(Abs!vars)
  BY InitRefines, ShortStepRefines, ShortInvariance, PTL DEF Spec
<1> QED
  BY <1>1 DEF ImplementsPolyval, Abs!Spec

-----------------------------------------------------------------------------
(* COMPACT.  Its operators and the actions it has in common with SHORT. *)

C == INSTANCE PolyvalCompact

LEMMA SameField ==
  /\ C!Element = Element /\ C!Entry = Entry
  /\ \A a, b : C!Xor(a, b) = Xor(a, b)
  /\ \A a : C!Double(a) = Double(a) /\ C!RightShift(a) = RightShift(a)
  /\ \A a : C!Double4(a) = Double4(a)
  /\ \A a, p : C!NibbleAt(a, p) = NibbleAt(a, p)
<1>1. C!Element = Element /\ C!Entry = Entry /\ \A a, b : C!Xor(a, b) = Xor(a, b)
  BY DEF C!Element, Element, C!Entry, Entry, C!Xor, Xor
<1>2. \A a : C!Double(a) = Double(a) /\ C!RightShift(a) = RightShift(a)
  BY DEF C!Xor, Xor, C!Double, Double, C!Rol, Rol, C!LeftReduction, LeftReduction,
     C!RightShift, RightShift, C!Ror, Ror, C!RightReduction, RightReduction
<1>3. \A a : C!Double4(a) = Double4(a)
  BY <1>2 DEF C!Double4, Double4
<1>4. \A a, p : C!NibbleAt(a, p) = NibbleAt(a, p)
  BY DEF C!NibbleAt, NibbleAt, C!Bit, Bit
<1> QED
  BY <1>1, <1>2, <1>3, <1>4

LEMMA SameTables ==
  /\ \A a, n : C!Halved(a, n) = Halved(a, n) /\ C!Folded(a, n) = Folded(a, n)
  /\ \A a : C!Prime(a) = Prime(a)
  /\ \A a, n : C!Multiple(n, a) = Multiple(n, a)
  /\ \A a, b : C!Abs!Dot(a, b) = Abs!Dot(a, b)
<1>1. \A a, n : C!Halved(a, n) = Halved(a, n)
  BY SameField DEF C!Halved, Halved
<1>2. \A a : C!Prime(a) = Prime(a)
  BY <1>1, SameField DEF C!Prime, Prime
<1>3. \A a, n : C!Folded(a, n) = Folded(a, n)
  BY <1>1, <1>2, SameField DEF C!Folded, Folded
<1>4. \A a, n : C!Multiple(n, a) = Multiple(n, a)
  BY SameField DEF C!Multiple, Multiple, C!Term, Term
<1>5. \A a, b : C!Abs!Dot(a, b) = Abs!Dot(a, b)
  BY DEF C!Abs!Dot, Abs!Dot, C!Abs!OverN, Abs!OverN, C!Abs!Over, Abs!Over,
     C!Abs!Product, Abs!Product, C!Abs!Plus, Abs!Plus, C!Abs!Modulus, Abs!Modulus,
     C!Abs!Cardinality, Abs!Cardinality
<1> QED
  BY <1>1, <1>2, <1>3, <1>4, <1>5

LEMMA SameInvariant == C!IInv <=> Window /\ Built(NibbleAt(temp, 4))
<1>1. C!HostTypeOK <=> HostTypeOK
  BY SameField DEF C!HostTypeOK, HostTypeOK
<1>2. C!Folding <=> Folding
  BY SameTables DEF C!Folding, Folding
<1>3. C!TableRight <=> TableRight
  BY SameTables, SameField DEF C!TableRight, TableRight
<1>4. C!CallKept <=> CallKept
  BY SameField DEF C!CallKept, CallKept
<1>5. C!Multiplied(4) <=> Multiplied(4)
  BY SameTables, SameField DEF C!Multiplied, Multiplied, C!Shr, Shr
<1>6. C!Built(C!NibbleAt(temp, 4)) <=> Built(NibbleAt(temp, 4))
  BY SameTables, SameField DEF C!Built, Built
<1> QED
  BY <1>1, <1>2, <1>3, <1>4, <1>5, <1>6 DEF C!IInv, C!Window, Window

LEMMA SameActions ==
  /\ C!HostInit <=> HostInit
  /\ C!Host <=> Host
  /\ C!polyval_init \/ C!polyval_double \/ C!polyval_right_shift_1
     \/ C!polyval_shift_left_4 \/ C!polyval_xor_table_entry => OneStepCall
  /\ C!CopyH <=> CopyH
  /\ C!FoldPower <=> FoldShift
  /\ C!polyval_multiply <=> polyval_multiply
  /\ C!polyval_update <=> polyval_update
  /\ \A l : C!CountDown(l) <=> CountDown(l)
<1>1. (C!HostInit <=> HostInit) /\ (C!Host <=> Host)
  BY DEF C!HostInit, HostInit, C!Entry, Entry, C!Host, Host, C!SetH, SetH,
     C!SetBlock, SetBlock, C!SetNibble, SetNibble
<1>2. ASSUME \/ C!polyval_init \/ C!polyval_double \/ C!polyval_right_shift_1
             \/ C!polyval_shift_left_4 \/ C!polyval_xor_table_entry
      PROVE  OneStepCall
  BY <1>2, SameField DEF OneStepCall, C!polyval_init, C!polyval_double,
     C!polyval_right_shift_1, C!polyval_shift_left_4, C!polyval_xor_table_entry,
     C!WithEntry, C!OneStep, OneStep
<1>3. C!CopyH <=> CopyH
  BY DEF C!CopyH, CopyH, C!Enter, Enter
<1>4. \A l : C!CountDown(l) <=> CountDown(l)
  BY DEF C!CountDown, CountDown, C!Goto, Goto
<1>5. C!FoldPower <=> FoldShift
  BY <1>4, SameField DEF C!FoldPower, FoldShift
<1>6. (C!polyval_multiply <=> polyval_multiply) /\ (C!polyval_update <=> polyval_update)
  BY SameField DEF C!polyval_multiply, polyval_multiply, C!polyval_update, polyval_update,
     Multiply, pv_unroll_xor_temp_16, C!Enter, Enter
<1> QED
  BY <1>1, <1>2, <1>3, <1>4, <1>5, <1>6


-----------------------------------------------------------------------------
(* The counter in polyval_temp. *)
CompactInv == Window /\ Built(NibbleAt(temp, 4))

LEMMA OffsetIsCounter ==
  ASSUME NEW t \in Element, NEW k \in 1 .. 8
  PROVE  /\ C!WithOffset(t, k) \in Element
         /\ NibbleAt(C!WithOffset(t, k), 4) = k
<1> DEFINE w == C!WithOffset(t, k)
           Bits(p) == (k \div 2 ^ (p - 4)) % 2 = 1
<1>0. N \in Nat /\ N >= 16
  BY NAssumption
<1>1. w = (t \ (0 .. 7)) \cup (IF k = 8 THEN {7} ELSE {p \in 4 .. 7 : Bits(p)})
  BY DEF C!WithOffset, C!OffsetBits
<1>2. w \in Element
  <2>1. t \subseteq 0 .. N - 1
    BY DEF Element
  <2>2. \A i \in 4 .. 7 : i \in 0 .. N - 1
    BY <1>0
  <2> HIDE DEF w, Bits
  <2>3. w \subseteq 0 .. N - 1
    BY <1>1, <2>1, <2>2
  <2> QED
    BY <2>3 DEF Element
<1>3. /\ 2 ^ (4 - 4) = 1 /\ 2 ^ (5 - 4) = 2 /\ 2 ^ (6 - 4) = 4 /\ 2 ^ (7 - 4) = 8
  OBVIOUS
<1>4. /\ Bits(4) <=> k % 2 = 1
      /\ Bits(5) <=> (k \div 2) % 2 = 1
      /\ Bits(6) <=> (k \div 4) % 2 = 1
      /\ Bits(7) <=> (k \div 8) % 2 = 1
  BY <1>3
<1> HIDE DEF Bits, w
<1>5. CASE k = 8
  <2>1. 4 \notin w /\ 5 \notin w /\ 6 \notin w /\ 7 \in w
    BY <1>1, <1>5
  <2> QED
    BY <1>2, <1>5, <2>1 DEF NibbleAt, Bit, w
<1>6. CASE k # 8
  <2>1. /\ 4 \in w <=> k % 2 = 1
        /\ 5 \in w <=> (k \div 2) % 2 = 1
        /\ 6 \in w <=> (k \div 4) % 2 = 1
        /\ 7 \in w <=> (k \div 8) % 2 = 1
    BY <1>1, <1>4, <1>6
  <2>2. NibbleAt(w, 4) = (k % 2) + 2 * ((k \div 2) % 2) + 4 * ((k \div 4) % 2) + 8 * ((k \div 8) % 2)
    BY <2>1 DEF NibbleAt, Bit
  <2>3. NibbleAt(w, 4) = k
    BY <1>6, <2>2
  <2> QED
    BY <1>2, <2>3 DEF w
<1> QED
  BY <1>5, <1>6

LEMMA CompactFirstEntries ==
  ASSUME CompactInv, C!FirstEntries
  PROVE  CompactInv' /\ pc = "entries" /\ pc' = "build" /\ UNCHANGED call
<1>1. /\ Window /\ pc = "entries" /\ pc' = "build"
      /\ temp' = C!WithOffset(temp, 1)
      /\ htable' = [i \in Entry |->
                      IF i = 0 THEN {} ELSE IF i = 1 THEN acc ELSE htable[i]]
      /\ UNCHANGED <<h, nibble, acc, key, input, step, calls, call>>
  BY SameField DEF CompactInv, C!FirstEntries, C!Goto
<1>2. temp' \in Element /\ NibbleAt(temp', 4) = 1 /\ step' \in Nat
  BY <1>1, OffsetIsCounter DEF Window, HostTypeOK
<1>3. Window' /\ \A i \in Entry : i < 2 => htable'[i] = Multiple(i, Prime(h'))
  BY <1>1, <1>2, FirstEntriesEffect
<1> QED
  BY <1>1, <1>2, <1>3 DEF CompactInv, Built

LEMMA CompactBuildPair ==
  ASSUME CompactInv, C!BuildPair
  PROVE  /\ CompactInv' /\ pc = "build" /\ pc' \in {"build", "idle"}
         /\ UNCHANGED <<h, nibble>>
         /\ pc' = "build" => UNCHANGED call
         /\ pc' = "idle" => /\ key' = h
                            /\ \A i \in Entry : htable'[i] = Multiple(i, Prime(h))
<1> DEFINE k == NibbleAt(temp, 4)
<1>1. /\ Window /\ HostTypeOK
      /\ pc = "build" /\ k \in 1 .. 7
      /\ \A i \in Entry : i < 2 * k => htable[i] = Multiple(i, Prime(h))
  BY DEF CompactInv, Built, Window, C!BuildPair
<1>2. /\ acc' = Double(htable[k])
      /\ htable' = [i \in Entry |->
           IF i = 2 * k THEN Double(htable[k])
           ELSE IF i = 2 * k + 1 THEN Xor(Double(htable[k]), htable[1])
           ELSE htable[i]]
      /\ temp' = C!WithOffset(temp, k + 1)
      /\ pc' = (IF k + 1 = 8 THEN "idle" ELSE "build")
      /\ call' = (IF k + 1 = 8 THEN Nil ELSE call)
      /\ key' = (IF k + 1 = 8 THEN h ELSE key)
      /\ UNCHANGED <<h, nibble, input, step, calls>>
  BY <1>1, SameField DEF C!BuildPair, C!Goto
<1> HIDE DEF k
<1>3. /\ htable' \in [Entry -> Element] /\ acc' \in Element
      /\ \A i \in Entry : i < 2 * (k + 1) => htable'[i] = Multiple(i, Prime(h))
  BY <1>1, <1>2, PairEffect
<1>4. k + 1 \in 1 .. 8 /\ temp \in Element
  BY <1>1 DEF HostTypeOK
<1>5. temp' \in Element /\ NibbleAt(temp', 4) = k + 1
  BY <1>2, <1>4, OffsetIsCounter
<1>6. HostTypeOK'
  BY <1>1, <1>2, <1>3, <1>5 DEF HostTypeOK
<1>7. CASE k + 1 = 8
  <2>1. \A i \in Entry : htable'[i] = Multiple(i, Prime(h)) /\ i < 16
    BY <1>3, <1>7 DEF Entry
  <2>2. pc' = "idle" /\ key' = h
    BY <1>2, <1>7
  <2>3. \A i \in Entry : htable'[i] = Multiple(i, Prime(key'))
    BY <2>1, <2>2
  <2>4. Window'
    BY <1>1, <1>6, <2>2, <2>3 DEF Window, Folding, TableRight, CallKept, Multiplied
  <2> QED
    BY <1>1, <1>2, <2>1, <2>2, <2>4 DEF CompactInv, Built
<1>8. CASE k + 1 # 8
  <2>1. k + 1 \in 1 .. 7
    BY <1>4, <1>8
  <2>2. Built(NibbleAt(temp, 4))'
    BY <1>2, <1>3, <1>5, <2>1 DEF Built
  <2>3. Window'
    BY <1>1, <1>2, <1>6, <1>8, BuildEffect
  <2> QED
    BY <1>1, <1>2, <1>8, <2>2, <2>3 DEF CompactInv
<1> QED
  BY <1>7, <1>8

LEMMA CompactNibble ==
  ASSUME Window, C!pv_mul_step
  PROVE  /\ Window' /\ pc = "multiply" /\ pc' \in {"multiply", "idle"}
         /\ UNCHANGED <<h, temp, key>> /\ nibble' \in Entry
         /\ pc' = "multiply" => UNCHANGED call
         /\ pc' = "idle" => acc' = Abs!Dot(input, key)
<1> DEFINE n == NibbleAt(input, 4 * (step - 1))
           hp == Prime(key)
<1>1. /\ HostTypeOK /\ TableRight
      /\ pc = "multiply" /\ step \in Nat /\ step >= 1 /\ key # Nil /\ key \in Element
  BY DEF Window, HostTypeOK, Multiplied, C!pv_mul_step
<1>2. hp \in Element /\ acc \in Element /\ input \in Element
  BY <1>1, PrimeType DEF HostTypeOK
<1>3. n \in 0 .. 15
  <2>1. 4 * (step - 1) \in Nat
    BY <1>1
  <2> QED
    BY <1>2, <2>1, NibbleDigits
<1>4. htable[n] = Multiple(n, hp)
  BY <1>1, <1>3 DEF TableRight, Entry
<1>5. Double4(acc) \in Element /\ Multiple(n, hp) \in Element
  BY <1>2, <1>3, Double4Type, MultipleType
<1>6. /\ acc' = IF n = 0 THEN Double4(acc) ELSE Xor(Double4(acc), htable[n])
      /\ nibble' = n /\ CountDown("idle")
      /\ UNCHANGED <<h, temp, key, input, htable>>
  BY SameField, SameActions DEF C!pv_mul_step, C!WithEntry
<1>7. acc' = Xor(Double4(acc), Multiple(n, hp)) /\ acc' \in Element
  <2>1. CASE n = 0
    BY <1>2, <1>5, <1>6, <2>1, MultipleZero, XorZero
  <2>2. CASE n # 0
    BY <1>4, <1>5, <1>6, <2>2, XorType
  <2> QED
    BY <2>1, <2>2
<1>8. nibble' \in Entry
  BY <1>3, <1>6 DEF Entry
<1> HIDE DEF hp
<1> QED
  BY <1>1, <1>6, <1>7, <1>8, NibblePass DEF hp

LEMMA CompactNextKeeps ==
  ASSUME CompactInv, [C!Next]_(C!hostVars)
  PROVE  CompactInv'
<1>1. Window
  BY DEF CompactInv
<1>2. CASE Window' /\ pc' # "build"
  BY <1>2 DEF CompactInv, Built
<1>3. CASE C!Host
  BY <1>1, <1>2, <1>3, HostStep, SameActions
<1>4. CASE \/ C!polyval_init \/ C!polyval_double \/ C!polyval_right_shift_1
           \/ C!polyval_shift_left_4 \/ C!polyval_xor_table_entry
  BY <1>1, <1>2, <1>4, CallStep, SameActions
<1>5. CASE C!CopyH
  BY <1>1, <1>2, <1>5, CopyHStep, SameActions
<1>6. CASE C!FoldPower
  BY <1>1, <1>2, <1>6, FoldShiftStep, SameActions
<1>7. CASE C!FirstEntries
  BY <1>7, CompactFirstEntries
<1>8. CASE C!BuildPair
  BY <1>8, CompactBuildPair
<1>9. CASE C!polyval_multiply \/ C!polyval_update
  BY <1>1, <1>2, <1>9, MultiplyCallStep, SameActions
<1>10. CASE C!pv_mul_step
  BY <1>1, <1>2, <1>10, CompactNibble
<1>11. CASE UNCHANGED C!hostVars
  BY <1>11 DEF C!hostVars, C!interface, CompactInv, Built, Window, HostTypeOK, Folding,
     TableRight, CallKept, Multiplied, Shr
<1> QED
  BY <1>3, <1>4, <1>5, <1>6, <1>7, <1>8, <1>9, <1>10, <1>11 DEF C!Next, C!Library

(* The same for COMPACT, whose counters are in memory: the build counter   *)
(* kept in polyval_temp is a table index all along, and the tables and the *)
(* accumulator are right at every pass.                                    *)
THEOREM CompactInvariance == C!Spec => []C!IInv
<1>1. C!HostInit => CompactInv
  BY InitInvariant, SameActions DEF CompactInv, Built
<1>2. CompactInv /\ [C!Next]_(C!hostVars) => CompactInv'
  BY CompactNextKeeps
<1>3. CompactInv => C!IInv
  BY SameInvariant DEF CompactInv
<1> QED
  BY <1>1, <1>2, <1>3, PTL DEF C!Spec

LEMMA CompactBuildRight ==
  ASSUME CompactInv, [C!Next]_(C!hostVars)
  PROVE  [C!BuildStep]_(C!hostVars)
<1> SUFFICES ASSUME C!Next, pc = "build", pc' = "idle"
             PROVE  C!BuildStep
  BY DEF C!BuildStep
<1>1. C!BuildPair
  BY DEF C!Next, C!Library, C!Host, C!SetH, C!SetBlock, C!SetNibble, C!polyval_init,
     C!polyval_double, C!polyval_right_shift_1, C!polyval_shift_left_4,
     C!polyval_xor_table_entry, C!OneStep, C!CopyH, C!Enter, C!FoldPower, C!FirstEntries,
     C!polyval_multiply, C!polyval_update, C!pv_mul_step
<1>2. \A i \in Entry : htable'[i] = Multiple(i, Prime(h))
  BY <1>1, CompactBuildPair
<1> QED
  BY <1>2, SameField, SameTables DEF C!BuildStep

(* When the rolled build loop ends, every entry of the table is the        *)
(* multiple of H' it stands for.                                           *)
THEOREM CompactTableSafety == C!Spec => [][C!BuildStep]_(C!hostVars)
<1>1. C!IInv /\ [C!Next]_(C!hostVars) => [C!BuildStep]_(C!hostVars)
  BY SameInvariant, CompactBuildRight DEF CompactInv
<1> QED
  BY <1>1, CompactInvariance, PTL DEF C!Spec

LEMMA CompactStepRefines ==
  ASSUME CompactInv, [C!Next]_(C!hostVars)
  PROVE  Abs!Next \/ UNCHANGED Abs!vars
<1>0. Window /\ HostTypeOK /\ TableRight /\ CallKept
  BY DEF CompactInv, Window
<1>1. CASE C!Host
  BY <1>0, <1>1, HostRefines, SameActions
<1>2. CASE \/ C!polyval_init \/ C!polyval_double \/ C!polyval_right_shift_1
           \/ C!polyval_shift_left_4 \/ C!polyval_xor_table_entry
  BY <1>0, <1>2, CallRefines, SameActions
<1>3. CASE C!CopyH \/ C!polyval_multiply \/ C!polyval_update
  <2>1. pc = "idle" /\ pc' \in {"fold", "multiply"}
    BY <1>3 DEF C!CopyH, C!polyval_multiply, C!polyval_update, C!Enter
  <2>2. call' = [h |-> h, temp |-> temp, nibble |-> nibble, acc |-> acc, key |-> key]
    BY <1>3 DEF C!CopyH, C!polyval_multiply, C!polyval_update, C!Enter
  <2> QED
    BY <2>1, <2>2, EnterHidden
<1>4. CASE C!FoldPower \/ C!FirstEntries
  <2>1. pc # "idle" /\ pc' # "idle" /\ UNCHANGED call
    BY <1>4 DEF C!FoldPower, C!FirstEntries, C!CountDown, C!Goto
  <2> QED
    BY <2>1, RunningHidden
<1>5. CASE C!BuildPair
  <2>1. /\ CompactInv' /\ pc = "build" /\ pc' \in {"build", "idle"}
        /\ UNCHANGED <<h, nibble>>
        /\ pc' = "build" => UNCHANGED call
        /\ pc' = "idle" => key' = h
    BY <1>5, CompactBuildPair
  <2>2. CASE pc' = "build"
    BY <2>1, <2>2, RunningHidden
  <2>3. CASE pc' = "idle"
    <3>1. HostTypeOK'
      BY <2>1 DEF CompactInv, Window
    <3> QED
      BY <1>0, <2>1, <2>3, <3>1, BuildRefines
  <2> QED
    BY <2>1, <2>2, <2>3
<1>6. CASE C!pv_mul_step
  <2>1. /\ pc = "multiply" /\ pc' \in {"multiply", "idle"}
        /\ UNCHANGED <<h, temp, key>> /\ nibble' \in Entry
        /\ pc' = "multiply" => UNCHANGED call
        /\ pc' = "idle" => acc' = Abs!Dot(input, key)
    BY <1>0, <1>6, CompactNibble
  <2>2. CASE pc' = "multiply"
    BY <2>1, <2>2, RunningHidden
  <2>3. CASE pc' = "idle"
    <3>1. key # Nil /\ input \in {call.acc, Xor(call.acc, call.temp)}
      BY <1>0, <2>1 DEF Window, Multiplied
    <3> QED
      BY <1>0, <2>1, <2>3, <3>1, ProductRefines
  <2> QED
    BY <2>1, <2>2, <2>3
<1>7. CASE UNCHANGED C!hostVars
  BY <1>7 DEF C!hostVars, C!interface, Abs!vars
<1> QED
  BY <1>1, <1>2, <1>3, <1>4, <1>5, <1>6, <1>7 DEF C!Next, C!Library

(* For its caller the COMPACT profile is PolyvalSpec too: the same         *)
(* polynomials, though it leaves a nibble of the operand in pv_mul_nibble. *)
THEOREM CompactRefinement == C!Spec => ImplementsPolyval
<1>1. C!HostInit => Abs!Init
  BY InitRefines, SameActions
<1>2. C!IInv /\ [C!Next]_(C!hostVars) => [Abs!Next]_(Abs!vars)
  <2> SUFFICES ASSUME C!IInv, [C!Next]_(C!hostVars)
               PROVE  Abs!Next \/ UNCHANGED Abs!vars
    OBVIOUS
  <2>1. CompactInv
    BY SameInvariant DEF CompactInv
  <2> QED
    BY <2>1, CompactStepRefines
<1>3. C!Spec => Abs!Init /\ [][Abs!Next]_(Abs!vars)
  BY <1>1, <1>2, CompactInvariance, PTL DEF C!Spec
<1> QED
  BY <1>3 DEF ImplementsPolyval, Abs!Spec
=============================================================================
