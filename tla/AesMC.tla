------------------------------- MODULE AesMC -------------------------------
(* The default layout and layouts with slots moved: some a build may have, *)
(* some on the processor port, past the page or over another slot.  Key    *)
(* and block are those of the AES-256 example of FIPS-197.                 *)
EXTENDS Aes, AesSbox

Move(s, a) == [Default EXCEPT ![s] = a]

Layouts ==
  {Default,
   Move(zp_temp, 255), Move(aes_tmp2, 64),
   Move(zp_temp, 1), Move(zp_ptr, 255), Move(zp_count, 4), Move(aes_round, 253),
   Move(acc, 40), Move(mul_input, 17), Move(nibble, 251)}

ExampleKey == [b \in 0 .. 31 |-> b]
ExampleBlock == [p \in Position |-> 17 * p]

Keys == {ExampleKey}
Blocks == {ExampleBlock}
=============================================================================
