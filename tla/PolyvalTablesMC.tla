--------------------------- MODULE PolyvalTablesMC ---------------------------
(* The COMPACT and the LONG profile on the values of PolyvalValues, with   *)
(* the two references of the test suite beside them.                       *)
EXTENDS PolyvalHost, PolyvalValues, PolyvalOracle

VARIABLES profile, htable8, reduce8

tablesVars == <<hostVars, profile, htable8, reduce8>>

OneBlock == {RfcX2}
OneNibble == {11}

C == INSTANCE PolyvalCompact
L == INSTANCE PolyvalLong WITH Block <- OneBlock, Nibble <- OneNibble

\* The definition and both references give the result the RFC prints.
ASSUME RfcExample ==
  /\ Abs!Dot(Xor(Abs!Dot(RfcX1, RfcH), RfcX2), RfcH) = RfcResult
  /\ polyval(RfcH, <<RfcX1, RfcX2>>) = RfcResult
  /\ HazmatPolyval(RfcH, <<RfcX1, RfcX2>>) = RfcResult
  /\ ByGhash(RfcH, <<RfcX1, RfcX2>>) = RfcResult
  /\ InverseChecked

TablesInit ==
  \/ profile = "COMPACT" /\ HostInit /\ htable8 = <<>> /\ reduce8 = <<>>
  \/ profile = "LONG" /\ L!Init

TablesNext ==
  \/ profile = "COMPACT" /\ C!Next /\ UNCHANGED <<profile, htable8, reduce8>>
  \/ profile = "LONG" /\ L!Next /\ UNCHANGED profile

TablesSpec == TablesInit /\ [][TablesNext]_tablesVars

(* When a table build ends, every entry of the 4-bit table, and of the two *)
(* 8-bit tables of LONG, is the product it stands for, whatever was in the *)
(* tables and the accumulator before, and the inductive invariants of the  *)
(* two profiles hold on the way, but for the 8-bit tables of LONG, which   *)
(* are compared only here (polyval_compact.s:439-511,                      *)
(* polyval_long.s:1109-1322).                                              *)
TablesRight ==
  [][/\ profile = "COMPACT" => C!IInv /\ C!BuildStep
     /\ profile = "LONG" =>
          /\ L!TypeOK /\ L!TableRight /\ L!CallKept /\ L!Multiplied(8)
          /\ L!BuildStep]_tablesVars

(* The operations give what both references of the test suite give: the    *)
(* doubling and the shifts by either of their forms, the 4-bit table, and  *)
(* a product by the bit-serial loop, by the table and by the polynomial    *)
(* (polyval_reference.py:54-228, hazmat_oracle.py:76-131).                 *)
AgreeStep ==
  /\ C!polyval_double => acc' = polyval_double(acc) /\ acc' = mulX_POLYVAL(acc)
  /\ C!polyval_right_shift_1 => acc' = polyval_right_shift_1(acc)
  /\ C!polyval_shift_left_4 =>
       acc' = polyval_shift_left_4(acc) /\ acc' = polyval_shift_left_4_single_pass(acc)
  /\ (pc \in {"build", "build_reduce"} /\ pc' = "idle") => htable' = polyval_precompute_table(h)
  /\ (pc = "multiply" /\ pc' = "idle") =>
       /\ acc' = polyval_dot(input, key)
       /\ acc' = dot(input, key)
       /\ acc' = polyval_multiply_table(input, polyval_precompute_table(key))

OraclesAgree == [][AgreeStep]_tablesVars
=============================================================================
