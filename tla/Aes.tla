-------------------------------- MODULE Aes --------------------------------
(***************************************************************************)
(* aes_encrypt.s and aes_decrypt.s, one action per routine, pass of the    *)
(* column loop or word of the key schedule.  Round, column and word        *)
(* counters and the temporaries are in the zero page, at the addresses of  *)
(* the layout the library was assembled with: a layout zp_config.s lets    *)
(* through must not make two of them meet.                                 *)
(***************************************************************************)
EXTENDS ZpConfig, AesSpec, AesTables

CONSTANTS
  Layout,       \* layouts a build may ask for
  Key, Block,   \* keys and blocks of the caller
  MaxCalls      \* bound

VARIABLES
  layout,       \* the equates of zp_config.s
  zp,           \* the zero page
  key,          \* aes_current_key
  w,            \* aes_expanded_key
  state,        \* aes_state
  pc,           \* next routine, "idle" between calls
  call,         \* history: the routine the host called
  entry,        \* history: aes_state when the call began
  calls

data == <<key, w, state>>
vars == <<layout, zp, data, pc, call, entry, calls>>

Position == 0 .. 15

ASSUME AesAssumption ==
  /\ Layout \subseteq [Slot -> Nat]
  /\ Key \subseteq [0 .. 31 -> Byte] /\ Block \subseteq [Position -> Byte]
  /\ MaxCalls \in Nat

-----------------------------------------------------------------------------
Put(m, s, v) == [m EXCEPT ![layout[s]] = v]
Get(m, s) == m[layout[s]]

Tmp(k) == aes_tmp1 + (k % 4)
PutWord(m, v) == Put(Put(Put(Put(m, Tmp(0), v[0]), Tmp(1), v[1]), Tmp(2), v[2]), Tmp(3), v[3])
GetWord(m) == [k \in 0 .. 3 |-> Get(m, Tmp(k))]

gf_mul2(a) == IF a < 128 THEN 2 * a ELSE Xor((2 * a) % 256, 27)
gf_mul3(a) == Xor(gf_mul2(a), a)
gf_mul_09(a) == Xor(gf_mul2(gf_mul2(gf_mul2(a))), a)
gf_mul_0b(a) == Xor(gf_mul_09(a), gf_mul2(a))
gf_mul_0d(a) == Xor(gf_mul_09(a), gf_mul2(gf_mul2(a)))
gf_mul_0c(a) == Xor(gf_mul2(gf_mul2(gf_mul2(a))), gf_mul2(gf_mul2(a)))
gf_mul_0e(a) == Xor(gf_mul_0c(a), gf_mul2(a))

sbox(b) == aes_sbox[b + 1]
inv_sbox(b) == aes_inv_sbox[b + 1]

\* The tables, entry by entry: the first is the S-box of the oracle, the
\* second undoes it, the third holds the powers of two in the field.
ASSUME TablesAssumption ==
  /\ \A b \in Byte : sbox(b) = SubByte(b) /\ sbox(b) \in Byte /\ inv_sbox(sbox(b)) = b
  /\ \A b \in Byte : inv_sbox(b) \in Byte /\ sbox(inv_sbox(b)) = b
  /\ aes_rcon[1] = 1
  /\ \A j \in 1 .. 7 : aes_rcon[j] \in Byte /\ aes_rcon[j + 1] = Xtime(aes_rcon[j])

aes_add_round_key(m) ==
  LET y == (16 * Get(m, aes_round)) % 256
  IN  [x \in Position |-> Xor(state[x], w[y + x])]

Goto(label) == pc' = label

-----------------------------------------------------------------------------
Init ==
  /\ layout \in Layout /\ pc = "assemble" /\ call = "none"
  /\ zp = [a \in Byte |-> 0]
  /\ key = [b \in 0 .. 31 |-> 0]
  /\ w = [b \in 0 .. 239 |-> 0]
  /\ state = [p \in Position |-> 0] /\ entry = state
  /\ calls = 0

\* The assertions of zp_config.s end the build of a layout they refuse.
Assemble ==
  /\ pc = "assemble"
  /\ Goto(IF Accepted(layout) THEN "idle" ELSE "refused")
  /\ UNCHANGED <<layout, zp, data, entry, call, calls>>

LoadKey(k) == pc = "idle" /\ key' = k /\ UNCHANGED <<layout, zp, w, state, pc, entry, call, calls>>

LoadBlock(b) == pc = "idle" /\ state' = b /\ UNCHANGED <<layout, zp, key, w, pc, entry, call, calls>>

Call(routine) ==
  /\ pc = "idle" /\ calls < MaxCalls
  /\ calls' = calls + 1 /\ call' = routine /\ entry' = state
  /\ Goto(routine)
  /\ UNCHANGED <<layout, zp, data>>

-----------------------------------------------------------------------------
(* aes_key_expansion *)

CopyKey ==
  /\ pc = "aes_key_expansion"
  /\ w' = [b \in 0 .. 239 |-> IF b < 32 THEN key[b] ELSE w[b]]
  /\ zp' = Put(zp, zp_count, 8)
  /\ Goto("expand_word")
  /\ UNCHANGED <<layout, key, state, entry, call, calls>>

\* Variant: a word in the middle of a key is not substituted.
FedPlain(i, t) ==
  IF i % 8 = 0
  THEN [k \in 0 .. 3 |-> Xor(sbox(t[(k + 1) % 4]), IF k = 0 THEN aes_rcon[i \div 8] ELSE 0)]
  ELSE t

\* What is combined with the word eight back, for word i after word t.
Fed(i, t) ==
  IF i % 8 = 0
  THEN [k \in 0 .. 3 |-> Xor(sbox(t[(k + 1) % 4]), IF k = 0 THEN aes_rcon[i \div 8] ELSE 0)]
  ELSE IF i % 8 = 4 THEN [k \in 0 .. 3 |-> sbox(t[k])] ELSE t

ExpandWord ==
  LET x == 4 * Get(zp, zp_count)
      read == PutWord(zp, [k \in 0 .. 3 |-> w[x - 4 + k]])
      fed == PutWord(read, Fed(Get(read, zp_count), GetWord(read)))
      i == Get(fed, zp_count)
      word(k) == Xor(w[4 * i + k - 32], Get(fed, Tmp(k)))
  IN  /\ pc = "expand_word"
      /\ w' = [w EXCEPT ![4 * i] = word(0), ![4 * i + 1] = word(1),
                        ![4 * i + 2] = word(2), ![4 * i + 3] = word(3)]
      /\ zp' = Put(fed, zp_count, i + 1)
      /\ Goto(IF i + 1 < 60 THEN "expand_word" ELSE "idle")
      /\ UNCHANGED <<layout, key, state, entry, call, calls>>

-----------------------------------------------------------------------------
(* aes_encrypt_block *)

\* Round `first` key, then the loop from `next`.
FirstKey(routine, first, next, label) ==
  /\ pc = routine
  /\ state' = aes_add_round_key(Put(zp, aes_round, first))
  /\ zp' = Put(zp, aes_round, next)
  /\ Goto(label)
  /\ UNCHANGED <<layout, key, w, entry, call, calls>>

EncryptStart == FirstKey("aes_encrypt_block", 0, 1, "sub_bytes")

\* A routine that only rewrites aes_state, in a round or in the last one.
Rewrite(here, then, last, lastThen, s) ==
  /\ \/ pc = here /\ Goto(then)
     \/ pc = last /\ Goto(lastThen)
  /\ state' = s
  /\ UNCHANGED <<layout, zp, key, w, entry, call, calls>>

aes_sub_bytes ==
  Rewrite("sub_bytes", "shift_rows", "last_sub_bytes", "last_shift_rows",
          [x \in Position |-> sbox(state[x])])

\* Where aes_shift_rows takes byte x from: row by row, the swaps of the code.
Rotated(x) ==
  CASE x % 4 = 0 -> x
    [] x % 4 = 1 -> (x + 4) % 16
    [] x % 4 = 2 -> (x + 8) % 16
    [] x % 4 = 3 -> (x + 12) % 16

aes_shift_rows ==
  Rewrite("shift_rows", "mix_columns", "last_shift_rows", "last_key",
          [x \in Position |-> state[Rotated(x)]])

\* Column 0 of either column product.
MixStart ==
  /\ \/ pc = "mix_columns" /\ Goto("mix_column")
     \/ pc = "inv_mix_columns" /\ Goto("inv_mix_column")
  /\ zp' = Put(zp, aes_col, 0)
  /\ UNCHANGED <<layout, data, entry, call, calls>>

\* gf_mul3 parks its argument in polyval_zp_temp.
Park(m, k) == Put(m, zp_temp, Get(m, Tmp(k)))

\* Variant: the column is read while it is rewritten.
MixedInPlace(m) ==
  LET old(k) == Get(m, Tmp(k))
      new[k \in 0 .. 3] ==
        LET now(j) == IF j % 4 < k THEN new[j % 4] ELSE old(j)
        IN  Xor(Xor(gf_mul2(now(k)), gf_mul3(now(k + 1))), Xor(now(k + 2), now(k + 3)))
  IN  [bytes |-> new, mem |-> Park(m, 0)]

\* The four new bytes of the column in the temporaries.
Mixed(m) ==
  LET m1 == Park(m, 1)
      m2 == Park(m1, 2)
      m3 == Park(m2, 3)
      m4 == Park(m3, 4)
      byte(before, after, k) ==
        Xor(Xor(gf_mul2(Get(before, Tmp(k))), gf_mul3(Get(before, Tmp(k + 1)))),
            Xor(Get(after, Tmp(k + 2)), Get(after, Tmp(k + 3))))
  IN  [bytes |-> [k \in 0 .. 3 |-> IF k = 0 THEN byte(m, m1, 0)
                                  ELSE IF k = 1 THEN byte(m1, m2, 1)
                                  ELSE IF k = 2 THEN byte(m2, m3, 2) ELSE byte(m3, m4, 3)],
       mem |-> m4]

MixColumn ==
  LET x == 4 * Get(zp, aes_col)
      out == Mixed(PutWord(zp, [k \in 0 .. 3 |-> state[x + k]]))
      col == Get(out.mem, aes_col) + 1
  IN  /\ pc = "mix_column"
      /\ state' = [p \in Position |-> IF p \in x .. x + 3 THEN out.bytes[p % 4] ELSE state[p]]
      /\ zp' = Put(out.mem, aes_col, col)
      /\ Goto(IF col = 4 THEN "round_key" ELSE "mix_column")
      /\ UNCHANGED <<layout, key, w, entry, call, calls>>

RoundKey ==
  LET round == Get(zp, aes_round) + 1
  IN  /\ pc = "round_key"
      /\ state' = aes_add_round_key(zp)
      /\ zp' = Put(zp, aes_round, round)
      /\ Goto(IF round < 14 THEN "sub_bytes" ELSE "last_sub_bytes")
      /\ UNCHANGED <<layout, key, w, entry, call, calls>>

\* Both ciphers end with a round key.
LastKey ==
  /\ pc = "last_key"
  /\ state' = aes_add_round_key(zp)
  /\ Goto("idle")
  /\ UNCHANGED <<layout, zp, key, w, entry, call, calls>>

-----------------------------------------------------------------------------
(* aes_decrypt_block *)

RoundsLeft(round) == round # 0

DecryptStart == FirstKey("aes_decrypt_block", 14, 13, "inv_shift_rows")

aes_inv_shift_rows ==
  Rewrite("inv_shift_rows", "inv_sub_bytes", "last_inv_shift_rows", "last_inv_sub_bytes",
          [x \in Position |-> CASE x % 4 = 0 -> state[x]
                                [] x % 4 = 1 -> state[(x + 12) % 16]
                                [] x % 4 = 2 -> state[(x + 8) % 16]
                                [] x % 4 = 3 -> state[(x + 4) % 16]])

aes_inv_sub_bytes ==
  Rewrite("inv_sub_bytes", "inv_round_key", "last_inv_sub_bytes", "last_key",
          [x \in Position |-> inv_sbox(state[x])])

InvRoundKey ==
  /\ pc = "inv_round_key"
  /\ state' = aes_add_round_key(zp)
  /\ Goto("inv_mix_columns")
  /\ UNCHANGED <<layout, zp, key, w, entry, call, calls>>

\* The column offset waits in polyval_aes_tmp1 while the products use
\* polyval_zp_temp; the round is counted down after the last column.
InvMixColumn ==
  LET offset == 4 * Get(zp, aes_col)
      a(k) == state[offset + (k % 4)]
      b(k) == Xor(Xor(gf_mul_0e(a(k)), gf_mul_0b(a(k + 1))),
                  Xor(gf_mul_0d(a(k + 2)), gf_mul_09(a(k + 3))))
      mem == Put(Put(zp, aes_tmp1, offset), zp_temp, gf_mul_0c(a(3)))
      x == Get(mem, aes_tmp1)
      col == Get(mem, aes_col) + 1
      more == Put(mem, aes_col, col)
      round == Get(more, aes_round) - 1
  IN  /\ pc = "inv_mix_column"
      /\ state' = [p \in Position |-> IF p \in x .. x + 3 THEN b(p - x) ELSE state[p]]
      /\ IF col = 4
         THEN /\ zp' = Put(more, aes_round, round)
              /\ Goto(IF RoundsLeft(round) THEN "inv_shift_rows" ELSE "last_inv_shift_rows")
         ELSE zp' = more /\ Goto("inv_mix_column")
      /\ UNCHANGED <<layout, key, w, entry, call, calls>>

-----------------------------------------------------------------------------
Library ==
  \/ CopyKey \/ ExpandWord
  \/ EncryptStart \/ aes_sub_bytes \/ aes_shift_rows \/ MixStart \/ MixColumn
  \/ RoundKey \/ LastKey
  \/ DecryptStart \/ aes_inv_shift_rows \/ aes_inv_sub_bytes \/ InvRoundKey
  \/ InvMixColumn

Host ==
  \/ Assemble
  \/ \E k \in Key : LoadKey(k)
  \/ \E b \in Block : LoadBlock(b)
  \/ \E r \in {"aes_key_expansion", "aes_encrypt_block", "aes_decrypt_block"} : Call(r)

Next == Host \/ Library

Spec == Init /\ [][Next]_vars

-----------------------------------------------------------------------------
(* Properties *)

(* A layout that was not refused gives every slot bytes of its own outside *)
(* the processor port (zp_config.s:150-246).                               *)
NoAlias == pc \notin {"assemble", "refused"} => Sound(layout)

(* aes_key_expansion leaves the schedule the oracle computes for the key,  *)
(* whatever the schedule and the zero page held (aes_encrypt.s:283-405,    *)
(* hazmat_oracle.py:168-182).                                              *)
Words(f) == [i \in 1 .. 60 |-> <<f[4 * i - 4], f[4 * i - 3], f[4 * i - 2], f[4 * i - 1]>>]
ExpandStep == pc = "expand_word" /\ pc' = "idle" => Words(w') = Schedule(key)
ScheduleRight == [][ExpandStep]_vars

(* aes_encrypt_block is the oracle's cipher under the schedule in place,   *)
(* though it works in place with tables and shared temporaries, and        *)
(* aes_decrypt_block its inverse (aes_encrypt.s:32-88, aes_decrypt.s:39-   *)
(* 100, hazmat_oracle.py:185-199).                                         *)
Tuple(f) == [n \in 1 .. 16 |-> f[n - 1]]
CipherStep ==
  pc = "last_key" /\ pc' = "idle" =>
    IF call = "aes_encrypt_block" THEN Tuple(state') = Cipher(Tuple(entry), Words(w))
    ELSE Tuple(entry) = Cipher(Tuple(state'), Words(w))
CipherRight == [][CipherStep]_vars
=============================================================================
