------------------------------ MODULE ZpConfig ------------------------------
(***************************************************************************)
(* zp_config.s: the zero-page slots of the library, which a build may move *)
(* (make lib CONTRACT_ZP_DEFINES=...), and the assemble-time checks that   *)
(* refuse a layout.  A layout is a function from slots to addresses.       *)
(***************************************************************************)
EXTENDS Integers

Slot == 0 .. 12

\* The rows of PV_ZP_SLOT_LIST by index.
zp_ptr2   == 0
aes_round == 1
aes_col   == 2
aes_tmp1  == 3
aes_tmp2  == 4
aes_tmp3  == 5
aes_tmp4  == 6
acc       == 7
mul_input == 8
nibble    == 9
zp_ptr    == 10
zp_temp   == 11
zp_count  == 12

Size == [s \in Slot |-> IF s \in {acc, mul_input} THEN 16
                        ELSE IF s \in {zp_ptr, zp_ptr2} THEN 2 ELSE 1]

Default ==
  [s \in Slot |->
    IF s = zp_ptr2 THEN 2
    ELSE IF s \in aes_round .. aes_tmp4 THEN s + 3
    ELSE IF s = acc THEN 16
    ELSE IF s = mul_input THEN 32
    ELSE IF s = nibble THEN 48
    ELSE IF s = zp_ptr THEN 251 ELSE s + 242]

\* PV_ZP_CHECK_RANGE: $00 and $01 are the processor port.
InRange(layout, s) == layout[s] >= 2 /\ layout[s] + Size[s] <= 256

\* Variant: two slots clash only at equal addresses.
ApartEqual(layout, s, t) == layout[s] # layout[t]

\* PV_ZP_CHECK_PAIR, asked of the pairs with t after s.
Apart(layout, s, t) ==
  layout[t] >= layout[s] + Size[s] \/ layout[s] >= layout[t] + Size[t]

Accepted(layout) ==
  /\ \A s \in Slot : InRange(layout, s)
  /\ \A s \in Slot : \A t \in Slot : t > s => Apart(layout, s, t)

\* The addresses of a slot.
Bytes(layout, s) == layout[s] .. layout[s] + Size[s] - 1

\* What a layout must be for the routines to keep their scratch data.
Sound(layout) ==
  /\ \A s \in Slot : Bytes(layout, s) \subseteq 2 .. 255
  /\ \A s \in Slot, t \in Slot : s # t => Bytes(layout, s) \cap Bytes(layout, t) = {}
=============================================================================
