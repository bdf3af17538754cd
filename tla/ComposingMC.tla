---------------------------- MODULE ComposingMC ----------------------------
(* Two profiles, with and without AES: four of the six archives, a table   *)
(* in all of them, one that goes with AES, one of a single profile.        *)
EXTENDS ComposingGate

MCManifest == {[table |-> "htable", when |-> "always", facts |-> 1],
               [table |-> "aes_sbox", when |-> "aes", facts |-> 1],
               [table |-> "reduce8", when |-> "LONG", facts |-> 2]}
ArmOf(p, x) == [profile |-> p, aead |-> x]
MCArms == <<ArmOf("LONG", TRUE), ArmOf("SHORT", TRUE), ArmOf("LONG", FALSE), ArmOf("SHORT", FALSE)>>
MCDocuments ==
  [rows |-> {[table |-> "htable", facts |-> 1, spec |-> [archives |-> {}, profiles |-> {"LONG", "SHORT"}]],
             [table |-> "aes_sbox", facts |-> 1,
              spec |-> [archives |-> {MCArms[1], MCArms[2], Alias}, profiles |-> {}]],
             [table |-> "reduce8", facts |-> 2, spec |-> [archives |-> {}, profiles |-> {"LONG"}]]},
   prose |-> [aead |-> {MCArms[1], MCArms[2], Alias}, noaes |-> {MCArms[3], MCArms[4]},
              count |-> 3, stray |-> {}],
   braces |-> <<[file |-> "API.md", names |-> {MCArms[3], MCArms[4]}, near |-> TRUE],
                [file |-> "README.md", names |-> {MCArms[1], MCArms[2]}, near |-> FALSE]>>,
   mention |-> {"API.md"}]
=============================================================================
