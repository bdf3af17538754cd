# c64-polyval: models and proofs

c64-polyval is POLYVAL, AES-256 and AES-256-GCM-SIV for the Commodore 64,
written in 6502 assembly, with a demo program that encrypts, decrypts, saves
and loads one message, the tooling that builds and releases it, and Python
tools that measure it, check what is released and judge it in the tests. This
directory holds TLA+ models of it, the TLC runs that check them and proofs
that TLAPS checks. Source paths such as `gcm_siv.s` are under `src/src/`
unless they say otherwise.

## 1. Inventory

| Part | Source | State | Operations | What makes it correct |
|---|---|---|---|---|
| AEAD routines | `gcm_siv.s`, buffers in `data.s` | master key and its schedule (`aes_current_key`, `aes_expanded_key`), nonce, length, plaintext / ciphertext / decrypted buffers, tag, verdict, and scratch (derived keys, two saved schedules, saved tag) | `gcmsiv_encrypt`, `gcmsiv_decrypt`, and the exported steps they are made of | every AES call runs under the right schedule; the master key is back on return; nothing unverified is shown as valid; decrypt inverts encrypt |
| Counter mode | `gcm_siv.s:601-718, 900-979` | counter block, keystream block, two byte indices | `gcmsiv_ctr_encrypt`, `gcmsiv_ctr_decrypt`, `gcmsiv_gen_keystream` | each byte meets its own keystream byte; none is reused |
| Tag base | `gcm_siv.s:335-478` | block index, POLYVAL key, tables and accumulator | `gcmsiv_compute_tag_base` | the whole message is hashed once, in order, padded, with its length |
| POLYVAL back-ends | `polyval_long.s`, `polyval_short.s`, `polyval_compact.s` | H, accumulator, input block, tables | `polyval_init`, `_precompute_table`, `_update`, `_multiply`, `_finalize`, doubling and shifts | the three table algorithms compute one function, the RFC 8452 dot product |
| AES-256 | `aes_encrypt.s`, `aes_decrypt.s`, `tables.s` | key, state, expanded key, counters and temporaries in the zero page | block encrypt and decrypt, key expansion | decrypt inverts encrypt; FIPS-197 schedule |
| Zero page | `zp_config.s`, `zp.s` | thirteen slots with overridable addresses | assemble-time checks | no two slots alias, none leaves the zero page |
| Demo program | `boot.s`, `main_loop.s`, `gcm_siv_ui.s` | the AEAD buffers, input line, file name | keys 1-4 and q | what is saved is what is loaded; no verdict outlives its message |
| Disk files | `disk_io.s`, `gcm_siv_ui.s:543-811` | file name buffers, channel, hex text of one message | save, load, existence check, name suffixes | a file is not overwritten unasked; a bad file does not pass for a good one |
| Display, strings | `display.s`, `strings.s`, `data_app.s` | none | printing | not modelled: pure output |
| Release tooling | `src/tools/build_release.sh`, `src/Makefile` | tarball, release notes, temporaries, tag | build, stamp, publish by renames, recover | notes and tarball agree, or the disagreement is visible, after a kill at any point |
| Cycle benchmark | `src/tools/benchmark_polyval.py` | two timers of the C64, two wrappers, calibrated overheads, samples | install, calibrate, measure, retry, sweep | a printed cycle count is the routine's, or a warning stands beside it; the timers are given back |
| Reference implementations | `src/tools/polyval_reference.py`, `src/tools/hazmat_oracle.py` | none | POLYVAL twice, AES-256, the message of the tag, counter mode | they compute what they judge the 6502 code by, and agree |
| Reference sanity check | `src/tools/reference_sanity.py` | the vectors | compare the reference with a library and with pinned vectors | a defect of the reference stops the tests |
| Publish gate | `src/tools/check_publish_atomic.py` | the text of `build_release.sh` | split it into commands, judge each | tracked files are written only by a rename |
| Scratch gate | `src/tools/check_scratch_prefix.py` | the tools' lines, `SCRATCH_TREES` | find what binds a scratch path, compare prefixes | `make clean` finds every tree a killed tool left |
| Footprint gate | `src/tools/check_footprints.py` | manifests, object files, the linker's map | build and measure each archive configuration | a declared footprint bounds what is placed |
| Composing-mode gate | `src/tools/check_composing_mode.py` | manifest, documents, object files | build each archive in both modes, compare seven ways | a consumer finds what the documents say |
| Library manifests, exports, versions | `lib_manifest.s`, `lib_version.s`, `precalc_*`, `exports.inc`, `lib_main.s` | none at run time | assemble-time constants | modelled only as what the two gates above read |
| Test drivers | `src/tools/run_all_tests.py`, `test_*.py`, `vice_label_shim.py` | - | - | not modelled: they call the code above and keep no state |
| Shell checks | `src/tools/check_*.sh` | none | comparisons with fixed expectations | not modelled; what `check_zp_slot_aliasing.sh` guards is proved of `ZpConfig` (`ChecksExact`) |

Interaction is by shared memory. A caller fills the buffers, calls with `jsr`
and reads the buffers back; there is one instance of each buffer and no
routine may be entered twice (`API.md` says neither interrupt-safe nor
reentrant). The AEAD routines call POLYVAL and AES, which keep their own
buffers; the demo program calls the AEAD routines and loads their input
buffers directly from disk.

What is hard here:

- **One schedule buffer, two keys.** `aes_expanded_key` holds the master
  schedule between calls and the derived key's inside three windows of a call.
  A step that reads it outside its window, or a return that leaves the wrong
  one, is silent.
- **Inputs overwritten half-way.** A decryption writes the candidate plaintext
  to `gcmsiv_dec_buf` and `gcmsiv_pt_buf`, and the recomputed tag to
  `gcmsiv_tag`, before it knows the verdict.
- **State left by earlier calls.** Verdict, tables, accumulator, saved
  schedules and derived keys survive from call to call, and the host may call
  the exported steps in any order.
- **Eight-bit indices** that wrap and are compared by sign.
- **Three algorithms for one function** in POLYVAL.
- **In-place computation with shared temporaries** in AES and in the POLYVAL
  table builds, at zero-page addresses a build may move.
- **Partial failure** in load and save, and a kill in the middle of a release.
- **Measuring a running clock** through two 8-bit reads, over a connection
  that may be lost and a call that is then made again.
- **Gates that pass for the wrong reason**: a text that reads like one command
  and runs another, a decoy beside the real thing, a build of another
  configuration still in the tree, a set compared with itself, a self-test
  that does not test.

`PROJECT.json` lists the hazards line by line, each with the properties that
would catch it, or why none does.

## 2. Modules

| Module | Models | Role |
|---|---|---|
| `Aead` | what `gcmsiv_encrypt` and `gcmsiv_decrypt` promise, one atomic step per call | abstract specification |
| `GcmSiv` | `gcm_siv.s`, one action per routine, loop pass or `jsr` that changes what another routine reads | detailed specification; refines `Aead` |
| `GcmSivMC` | free functions for AES, POLYVAL and keystream | TLC instance |
| `GcmSivProofs` | | theorems about `GcmSiv`, the refinement included |
| `CtrStream` | the counter-mode loops, a byte at a time | detail of `GcmSiv`'s `CtrEncrypt` and `CtrDecrypt` |
| `TagBase` | the block loop of `gcmsiv_compute_tag_base` | detail of `GcmSiv`'s `ComputeTagBase` |
| `LoopsMC` | one of the two per initial state; they share no state | TLC instance, beside `GcmSivOracle` |
| `LoopProofs` | | theorems about `CtrStream` and `TagBase` |
| `GcmSivOracle` | the message of the tag and counter mode of `polyval_reference.py` and `hazmat_oracle.py` | pure operators |
| `PolyvalField` | GF(2^N): EOR, shift by one with its reduction constant, nibbles and bytes | pure operators |
| `PolyvalSpec` | the nine routines of `polyval_api.inc`, one step per call, arithmetic by definition | abstract specification |
| `PolyvalHost` | the shared memory and what a caller does between calls | extended by the three back-ends |
| `PolyvalCompact`, `PolyvalShort`, `PolyvalLong` | the three `polyval_*.s` files | detailed specifications; each refines `PolyvalSpec` |
| `PolyvalOracle` | POLYVAL of `polyval_reference.py` (bit by bit, and with a 4-bit table) and of `hazmat_oracle.py` | pure operators |
| `PolyvalValues`, `PolyvalShortMC`, `PolyvalTablesMC` | the RFC 8452 example | TLC instances; the second has COMPACT, LONG and the references |
| `PolyvalFieldProofs` | | facts about the field, up to linearity of the dot product |
| `PolyvalWindowProofs`, `PolyvalLongProofs` | | theorems about SHORT and COMPACT, and about LONG |
| `ZpConfig` | slots, addresses and the assemble-time checks of `zp_config.s` | pure operators, used by `Aes` |
| `Aes`, `AesTables` | `aes_encrypt.s`, `aes_decrypt.s`, `tables.s`, temporaries at their addresses | detailed specification |
| `AesSpec` | the pure-Python AES-256 of `hazmat_oracle.py`, over any S-box | reference definition |
| `AesSbox` | its S-box, from powers of 3 | pure operators |
| `AesMC` | zero-page layouts, the FIPS-197 example | TLC instance |
| `AesProofs` | | theorems about `Aes` and `ZpConfig` |
| `Demo`, `DemoMC` | main loop, the four commands, disk files | composes `Aead` (which `GcmSiv` implements) with the disk |
| `DemoProofs` | | theorems about `Demo` |
| `Release`, `ReleaseMC` | `src/tools/build_release.sh` and `make clean` | detailed specification, TLC instance |
| `BuildProofs` | | theorems about `Release`, `Benchmark`, `SanityGate`, `ScratchGate`, `FootprintGate` and `ComposingGate` |
| `Benchmark` | `src/tools/benchmark_polyval.py` with the timers of CIA #1 | detailed specification |
| `SanityGate` | `src/tools/reference_sanity.py` | detailed specification |
| `PublishGate`, `ScratchGate`, `FootprintGate`, `ComposingGate` | the four gates in Python | detailed specifications |
| `BenchmarkMC`, `PublishMC`, `ComposingMC` | | values of the constants |
| `ToolsMC` | one of the six tools per initial state; they share no state; values for `ScratchGate`, `FootprintGate` and `SanityGate` | TLC instance |

### GcmSiv and Aead

A schedule is named by the key it was expanded from, so "the right schedule"
is an equality. A byte is the set of its one-bits, so EOR is symmetric
difference and the involution that decryption relies on is a fact of the model
and not an assumption. AES, POLYVAL and the keystream are operators given as
constants: what is shown holds for any functions in their place. In the TLC
instance they are free (two applications are equal only when their arguments
are); the real tag has 128 bits and may collide, and no property depends on
its not colliding.

`pc` is the next routine to run and `caller` the exported routine the host
called; `call` is a history variable, the interface at entry. The host's
actions between calls are the ones a program has: change the key, expand it
(separately, as the code requires), set the nonce, stage a text, receive a
ciphertext byte or a tag. `Next` is a host of the two AEAD routines;
`NextPieces` a host that also calls derive, tag base, finalise and the
counter-mode loops by themselves.

The refinement mapping shows the interface as the call found it until the call
returns; the return is `Seal` or `Open`, every other step a stutter. The
promise includes what is easy to get wrong: derivation runs under the schedule
in place, whatever `aes_current_key` says, and leaves the schedule of the
current key behind; a rejected length changes nothing but the accumulator on
encryption and wipes the output on decryption.

### CtrStream

An output byte is modelled by its provenance: input position, the counter
block that was encrypted, index in the keystream. The counter has its 16 bytes
and the code's `inc`/`bne` carry. The reference (`CounterBlock`) is arithmetic
on the 32-bit number in two 16-bit halves.

### TagBase

A plaintext byte is its position; the accumulator is the sequence of blocks
absorbed, each with the key whose tables multiplied it. Tables, accumulator
and index start with what an earlier call may have left. The loop's
subtraction is modulo 256 and its exit tests are the code's `beq`, `bmi` and
`bcc`.

### GcmSivOracle and PolyvalOracle

The two references were written apart, one chunk by chunk and with the table
of the 6502 code, the other from one padded string and with a carry-less
product, so that they do not share a mistake. Both are translated as they
stand and held against the 6502 routines and against each other: the blocks
that are hashed, with additional data for the references only, the provenance
of every byte of a stream, and products of field elements. Their whole encrypt
and decrypt and their key derivation are left out.

### POLYVAL

A field element is the set of exponents with coefficient one, so EOR is
symmetric difference, and a shift with its reduction is a map on exponents.
The width `N` is a parameter; the exponents of the modulus are 0, N-7, N-2, N-1
and N, as in POLYVAL for N = 128. Byte movements inside one 16-byte value
(`rol` and `ror` chains, copy loops) are one step; what is a loop over table
entries, nibbles, bits or bytes of the multiplier is a loop of actions, in the
code's order. The three back-ends share `PolyvalHost` and nothing else: the
host stores any of H, block and nibble between calls, so a table that is older
than H is a normal state. Before the first build the tables hold junk, and the
specification asks nothing of a call that would read it.

`PolyvalSpec` has no tables: a carry-less product, then a division by x^N, the
dot product of `hazmat_oracle.py` in the terms of the 6502 interface. It
says which key a multiplication uses: the one the tables were built for,
whatever `polyval_h` holds. `API.md:71` and `API.md:84` say that the build
overwrites `polyval_h`; all three profiles copy it first and leave it alone
(`polyval_compact.s:431`), as `API.md:405` says too.

### ZpConfig and Aes

A layout is a function from the thirteen slots to addresses. `Aes` keeps its
counters and temporaries in a zero page of 256 bytes and reads and writes them
through the layout, so two slots that met would corrupt each other in the
model as they would in the machine. A layout the checks refuse ends the build
and goes no further. AES state, key and schedule are ordinary buffers. An
action is a routine, a pass of the column loop or a word of the schedule; the
accumulator, index registers and the stack are inside an action.

### Demo

A command is cut where it meets the disk or the user: check whether a file
exists, ask for another name, write, and the four parts of a load. A character
of a file is one byte, for its two hex digits, or none (`Sep`), for a blank or
a line end, so a byte is never taken for a separator. A tag is a byte of free
choice (`TagByte`) at each of its positions. Encryption and
decryption are the atomic actions of `Aead`. The KERNAL and the drive are
external and modelled from what the code expects of them: a write to a name in
use is refused, the last character of a file comes with the EOF flag, and a
bounded number of faults may hide a file from the check, cut a file short as it
is written, or end a read.

### Release

A tarball is identified with the tree it was built from, so its size and hash
name it. The Attestation of the notes is the placeholder or such a name. The
publish block is modelled rename by rename, each copy to the temporary file a
step of its own. Runs of the script overlap, are killed with or without their
traps, and have their scratch files swept by `make clean` at any moment. The
author edits, tags and checks out only while no run is going: the script reads
the tree at three moments without a lock and promises nothing otherwise. Usage
errors and failed checks are one refusal; which message is printed is left out.

### Benchmark

A measurement is a call of a wrapper that starts a timer, jumps to the routine
and stops or reads the timer, store by store; between two stores the timers
count. Timer A is 16 bits; in the long wrapper it runs freely and timer B
counts its underflows, at their cycle. The video chip may take cycles from a
measurement, and a connection may be lost inside a wrapper: `robust_jsr` then
calls it again with the timer and its control registers as the lost call left
them. A routine is the number of cycles it takes beyond an `RTS`.

The short wrapper reads the high byte of the running timer and, eight cycles
later, the low one. The comments beside the two reads say that the first latches
the second (`benchmark_polyval.py:115`, `:117`). The chip is external to the
repository, and the model has it as it is: a timer of the CIA is read as it
counts, byte by byte; the latch of `:110-111` is the reload value. `Torn` names
the routines between whose reads the low byte borrows. What the comments claim
is `ShortRowHonest`, which a run refutes; `ShortRowAccounted` says by how much a
row is wrong, to the cycle, and excepts nothing.

### The gates

Each gate is modelled with what it guards, so that a property can say that
what passed is right and not merely that the gate read what it reads. A gate's
own text is part of the state where the gate tests itself: an edit may break a
matcher, and the self-test must notice.

`PublishGate`: a line of the script is tokens, and an edit builds the line
together with the commands the shell runs in it. The gate's splitting,
substitutions, quote tracking, allowed shapes and counts work on the tokens;
the property speaks of the commands. `ScratchGate`: a regular expression is the
set of line forms it matches; a tool is its lines in order, a run of it uses
the binding that was made last, may be killed, and `make clean` sweeps what the
patterns of `SCRATCH_TREES` name. `FootprintGate`: an archive is its members'
sizes by segment; the gate builds one configuration after another in one tree,
which anybody's `make clean` may sweep between two steps. `ComposingGate`: the
manifest is tables with the condition each stands under, documents are rows,
one sentence and brace lists; the builds of both modes share a tree in the same
way. `SanityGate`: an implementation is the set of its defects, each visible on
one kind of text and additional data; the tests start only when no comparison
shows one.

## 3. Runs

| Run | Instance | Shows |
|---|---|---|
| `aead` | two keys, one nonce, two-byte buffers, staged lengths 1 (part of the buffer) and 3 (too long), three calls | `Aead` is implemented; schedules, release and round trip |
| `pieces` | two keys, one-byte buffers, lengths 0, 1 and 2, two calls of any exported routine | the inductive invariant, restoration of the master key, every call returns |
| `loops` | counter mode: lengths 0, 16, 17 and 64; 48 tags whose counter starts on every carry pattern and on the wrap, top bit clear and set; tag base: every length from 0 to 127, fresh and stale tables | right bytes, no reuse; the message is hashed once, in order; both references give the same stream and hash the same blocks, with additional data of six lengths too |
| `polyval_tables` | N = 128, COMPACT or LONG; the key and blocks of RFC 8452 appendix A and a key of one bit; COMPACT with nibbles 0 and 11, LONG with one block and one nibble; three calls | both implement `PolyvalSpec`; every table entry holds its product (528 of LONG) when a build ends; the inductive invariants of the proofs hold at every step (the two 8-bit tables of LONG excepted: they are compared at the end of a build only); both references compute the same products; the RFC's result comes out |
| `polyval_short` | the same keys, blocks and nibbles | implements `PolyvalSpec`; the invariant of the proof holds; the nibble steps are right |
| `aes` | FIPS-197 example; the default layout, two allowed moves, seven refused ones; three calls in any order | accepted layouts do not alias; schedule and both ciphers are those of the pure-Python AES |
| `demo` | one text, one typed name, a default name with two suffixes, four commands, one fault | nothing unsealed is shown; decryption prints what was typed; a saved file can be read; the first free name is taken, and no free name is passed over when saving gives up; commands end |
| `demo_name` | two typed names, one shorter | violation: see below |
| `demo_load` | five commands, one fault | violation: see below |
| `release` | two runs that overlap, three in all, two edits, sources that may not be released, notes without date or row | notes and tarball agree or show a placeholder; a released version stays; the published tarball is the tree |
| `tools` | benchmark: nine sessions at the edges of the timers, three samples, two disturbances; publish gate: one edit out of every nesting of quotes and substitutions two deep, joins, comments, heredocs, split lines; scratch gate: two tools, two edits; footprint gate: two configurations, two edits, one sweep; composing gate: four archives, one edit or sweep; sanity check: three vectors, two defects | a printed row is warned about or wrong by an exact, known amount, and timers come back; a passing gate means what it says |
| `short_latch` | the nine sessions of the benchmark, one disturbance | violation: see below |

Why the bounds are enough. `aead`: three calls are needed to find an accepted
message (encrypt, decrypt) before a rejected one; more are not, because the
state a call leaves to the next is the interface and the scratch buffers, and
the invariant (proved for any number of calls) shows no routine depends on the
scratch of an earlier call. Two keys are needed for a stale schedule to be
visible, one changed bit for a forgery. POLYVAL: build, then a store of H, then
a call that must still use the old key takes two calls, a rebuild a third; the
steps are linear, so dense keys and blocks of the real width exercise every
table entry and reduction. `aes`: expand, encrypt and decrypt take three calls;
the layouts include an overlap of unequal addresses, the processor port and the
end of the page. `demo`: encrypt, save, spoil, load is four commands; one fault
at any of its places. `release`: a released version, then two overlapping runs
over edited files. `tools`: the sessions put a reading one cycle on each side of every limit
(490 and 491, 498 and 499 cycles for the borrow between two reads, the last
count of timer A, an underflow of A at the stop of B, 255 to 258 blocks); two disturbances are a lost call and one during
its retry, or in the calibration and in a row; an edit of the scratch tools and
one of the gate or of the Makefile can hide each other, which one alone cannot;
two configurations show a stale object; two defects show a case that hides one.

`aead` uses symmetry on the keys and `release` on the runs: no definition names
one. Deadlock is not checked where the bound on calls, commands or runs stops
the model, the build ends with a refused layout, or a tool has run to its end.

Fairness is weak fairness of the program's own steps, in `pieces`
and `demo`: a routine that was called keeps executing, as a
6502 does. Nothing is assumed of the host, the user or the author. `CommandEnds`
speaks of loads and of saves under the default name, which ask the user
nothing; a save under a typed name in use waits for another one.

### Findings

- `demo_name`: `copy_input_to_filename` leaves its loop at the terminator
  without storing it (`disk_io.s:96`), and its users copy up to the next
  terminator. A name shorter than the one typed before keeps that one's tail.
- `demo_load`: an error or the end of the file inside the ciphertext ends a
  load with success (`gcm_siv_ui.s:784`), and the program prints "GCM-SIV DATA
  LOADED SUCCESSFULLY!". The nonce, tag and length loops report the same event
  as an error. `OnlySealedShown` holds all the same: the tag does not verify.

- `short_latch`: `benchmark_polyval.py:115` says "read high (latches low)",
  `:117` "read latched low", and the header (`:5-7`) exact counts and "spread =
  0". The CIA latches nothing on a read, so a routine of 491 to 498 cycles, and
  eight in every 256 before and after, is read 256 cycles short: in every sample
  alike, with spread 0, and with no warning unless the reading falls below zero.
  The long wrapper stops its timers before it reads them, and has no such row.

Disagreements that no run shows: `API.md` on `polyval_h` (above);
`API.md:142` says that `gcmsiv_install_enc_key` swaps the derived key into
`aes_current_key` and expands it again; the code copies schedules
(`gcm_siv.s:569-585`), so a call runs under the schedule in place whatever the
key buffer holds, which `Aead` states.

## 4. Proofs

`GcmSivProofs`: `IInv` says what every buffer holds at every label in terms of
the interface at entry (`CallFrame`, `KeyFlow`, `DerivedKeys`, `EncryptFlow`,
`DecryptFlow`). None of the properties is inductive by itself: that the tag
compared is the tag of the candidate needs the derived keys, which need the
schedule in place during derivation, and so on. `Invariance` proves it for a
host of all exported routines; restoration and schedules follow for every such
host, release, round trip and the refinement for a host of the AEAD routines
(called by itself, `gcmsiv_ctr_decrypt` does put unverified bytes in
`gcmsiv_dec_buf`). Assumptions: the lengths and the bound on calls are natural
numbers. Nothing is assumed of the functions.

`LoopProofs`, on the two byte loops of the AEAD routines. Counter mode: the
byte-wise carry adds one to the 32-bit counter (`IncrementCounterBlock`), by
division with remainder twice per half; the loop invariant follows, and reuse
is excluded because four consecutive counters differ in their first byte. Tag
base: the loop invariant, for every buffer of at most 127 bytes (a bound the
sign test really has), and that the length block tells any two lengths apart.
Assumptions: tags are 16 bytes, lengths at most the buffer's, and a buffer of at
most 127 bytes (`BufferAssumption`).

`PolyvalFieldProofs`: doubling and the right shift are linear and inverse to
each other, and so are the steps built from them. Then the algebra all three
profiles rest on: the dot product of `PolyvalSpec`, a carry-less product whose
coefficients are parities of sets of pairs, divided exactly by x^N in two
halves, is linear in its first operand (`DotLinear`) and takes a factor x out
as a doubling (`DotShift`). The second is the step every loop makes, whatever
the width of its window. `PolyvalSpec` defines both without recursion, so the
lemmas go by cardinalities (the symmetric difference of two finite sets has the
parity of their sum) and not by induction over exponents.

`PolyvalWindowProofs`: SHORT and COMPACT share `Window`, which says what key,
tables, call and accumulator are at every place of a multiplication (the
accumulator is the product of the nibbles folded so far, by `DotLinear` and
`DotShift`), and `Built`, which says how far a table build has come. SHORT is
unrolled and its step is the program counter; COMPACT counts in `polyval_temp`
and builds its table in the accumulator's field, so its `Built` is read from
that byte, and the proof shows that the counter is the step. Both implement
`PolyvalSpec` for every width, key, block and sequence of calls.

`PolyvalLongProofs`: the same for bytes. Eight doublings are a shift by a byte
and one entry of the reduction table; the index of the two 8-bit builds wraps
at 256 after it has met each entry once, and entry i comes from i/2 or i-1,
which are done; the byte loop gives the product. `TablesRight` of the run
compares the 8-bit tables when a build ends; the proof has them at every step.

The only assumption of the three is `NAssumption`: N is a multiple of eight and
at least sixteen, as 128 is (the modulus has a term N-7, and a block is bytes).

`DemoProofs` has two invariants. `DecryptedIsOrigin` is about one state after
one command; `DataRight`, which implies it, follows a message through a file:
buffers with an origin hold that message, sealed under the master key and a
nonce in use; every file is the text that a save lays out for such a message,
or a front of it, where a fault cut it; and a load in progress has put the
items before its position where they were written from. The difficult half is
that the reader and the writer agree: `TextLaid` gives the place of every byte
in a file of any widths, and `NextIs` and `Delivered` that the reader, which
skips any number of separators and drops the last character, delivers the byte
at that place. `FirstFreeName` needs `NamesRight`: the buffer spells the
default name with the suffix counted so far, because each suffix and its NUL
overwrite the one before; what the drive is sent then ends at that NUL, since
no name has one inside. Assumptions
(`DemoAssumption`): positive widths, a default name that is shorter than its
buffer, and no NUL in the names. Encryption is `Aead`, which `GcmSivProofs`
proves of the code, and free functions are all it needs.

`AesProofs`: what `Aes` computes is what `AesSpec` computes, for every layout
the build lets through and every key and block. Three arguments meet in its
invariant `Inv`.

- *Bits.* A byte is the sum of its eight bits (`ByteBits`, `SumBits`) and EOR is
  their sum modulo two. A doubling moves the bits and feeds three of them back,
  so a bit of a product by 2, 3, 9, 11, 13 or 14 is the parity of a few bits of
  the factor. `MixUnmixed` follows: the column product of `aes_encrypt.s` undoes
  that of `aes_decrypt.s`, so any wrong multiplier would break it.
- *Slots.* `ChecksExact`: the checks of `zp_config.s` compare each unordered pair
  once, by ends of intervals, and accept exactly the layouts in which no two
  slots share a byte and none touches $00, $01 or leaves the page. So a write to
  one slot is read back from it and from no other (`GetPut`), and counters and
  temporaries survive what the routines park beside them.
- *Rounds.* `Leads` says that the block at a label, with the rounds and columns
  the counters still promise, ends where the oracle does; `Phase` says at which
  label that holds, for both directions. The schedule follows word by word: the
  recurrence of the oracle (`ExtendIs`, `ScheduleIs`) is the pass of the 6502 loop
  (`WordExpanded`), its round constant included.

The oracle is written with recursive functions of a number. `Induct` is
induction without an operator parameter: a set that contains zero and the
successor of each of its members contains every number (by `LeastOf`, from the
library's well-founded minimum). With it, a function that is given by its first
value and a step exists (`Steps`) and is the only one (`SameSteps`), which
unfolds the recursion. Assumptions:
`AesAssumption` (keys, blocks and layouts are such), and `TablesAssumption`: the
three tables of `tables.s` are the S-box of the oracle, its inverse and the
powers of two. The S-box is a constant of `Aes`; TLC evaluates the assumption
on the bytes of `tables.s` and the S-box that `AesSbox` computes.

`BuildProofs` has the tools that build, measure and release.

- `Release`: `RInv` says that whatever a run holds at a step (staged files,
  tarball, size and hash, temporary notes) is a copy of the tree as it is, since
  only the author changes sources and texts, and no run is going then; that the
  published tarball is right once the second rename is done; and that the guard
  let only the released tree through. The four properties of the run follow for
  any number of runs, edits, sources and notes.
- `ScratchGate`: `ScratchInv` says that the lines of the tools stay within the
  shapes their files may have, that what a killed run left was made by lines of a
  tool the gate passed, and that a sweep leaves only what no pattern matches.
  The rest is about one state: a name expected of a tool has one binding, that
  binding is a site, so the value a variable had last is the one whose prefix
  was covered.
- `SanityGate`: `CasesHeld` says that the cases are those of the file as it
  stands and that all before the next one agreed. What a passed check vouches
  for then needs a case of every kind but the exempted ones
  (`SanityAssumption`: the seed gives a partial text with partial and with whole
  additional data), and a died one names the vector that is missing or mistyped.
- `ComposingGate`: `LoopHeld` says that the objects in the tree and both dumps
  are of the arm whose turn it is and of the mode they claim, that every arm
  before it went through each leg, and that with no failure counted all of them
  were suppressed. A sweep at any step may take objects away but not exchange
  them; manifest and documents move only before the start. `Unique` is needed
  for the values: one row and one entry per table, as
  `ComposingAssumption` has them to begin with.
- `FootprintGate`: `FootprintInv` says that from the start of the loop on nothing
  of the gate is broken and the Makefile has all its targets, that the tree holds
  members of the arm in hand only, none of them in the default segment while
  nothing was refused, and that every arm before it is within its declaration.
  The step is one about sums: what the gate adds up goes over the objects it
  found, what the property adds up over the segments that ship. `TotalCovers`
  compares two sums over finite sets, one having each positive term of the other
  under a place of its own; it rests on the sum being the same whichever element
  is taken first (`AnyFirst`), by induction on the size of the set.
  `FootprintAssumption` says that the manifest and the default segment are none
  of the library's segments, and that the Makefile begins with one target for
  every configuration.
- `Benchmark`: `TimerInv` gives the mode of timer A at every piece of both
  wrappers, and what the long one saved. A lost call is made again from the
  state the lost one left; the short wrapper starts the timer afresh, the long
  one saves what it finds, and that is the only way the timer can end stopped.
  `BenchInv` is about the numbers. At every piece of a wrapper the counts are
  those after the cycles the target cost, so what the host reads is a function
  of that cost alone (`Shown`): of a long call the cost itself, by carrying
  `n \div 65536` and `n % 65536` through the two timers; of a short one the cost,
  a page less exactly where the reading tears, or a number out of range. A sample that is not the one of an
  undisturbed call is paid for by a disturbance, whichever step it came in
  (`Cardinality(Dirty) <= hurt`), a call that is made again with operands
  already used included. `MedianRight` says that a sequence more than half of
  which is one value has it in the middle when it is sorted, by counting the
  places on either side; `SortedSamples`, that an order exists, by induction on
  the length. `Climbs` carries the comparison of neighbouring rows to any two.
  `SessionAssumption` keeps a long call under 2^30 cycles; a single routine may
  cost anything.

Model-checked only, and why:

- Liveness (`CallReturns`, `CommandEnds`): out of the prover's reach.
- `OnlySealedShown` of `Demo`: that a tag pieced together from two files does
  not verify is a property of an ideal cipher. With arbitrary functions it is
  false; the instance's free functions are the assumption.
- `SavedMeansReadable` compares with a filter over a file (`SelectSeq`), which
  is defined by recursion over data. What is proved of files is above.
- `OraclesStreamSame`, `OraclesHashSame`, `OraclesAgree`: the Python references
  are recursive over their inputs.
- `PublishesByRename`: `PublishGate` splits a line and finds substitutions by
  recursion over its text.

Where a proof changed a model. `CASE` in TLA+ chooses any guard that is true, and
TLC the first: four definitions of `Benchmark` and `SanityGate` whose guards
overlapped are now `IF ... ELSE`, in the order of the code. `SanityGate` kept the
vectors as a sequence with elements removed; it is now a function on the places
of the file that are left, which says the same without a recursive filter. The
S-box became a constant, as above. `FootprintGate` measured an arm without the
member the cold entry lies in, where the code stops (`check_footprints.py:235`),
and dropped a target from an empty list; its targets are a constant now, as its
library was. `Benchmark` sorts by choosing an order instead of with a recursive
operator. `ShortRowAccounted` said at first that a warning needs a disturbance or
a routine beyond the range: the proof does not go through below 260 cycles, and TLC with a
session at 240 shows why. A short reading torn between its halves is 256 cycles
short, so below zero, and the row is warned about although nothing disturbed it.

## 5. Not modelled

- The KERNAL, the disk drive and their timing: external. All text output.
  `verify_key_match` (`disk_io.s:415`), which nothing calls.
- The length byte of a loaded file is not checked against the buffer
  (`gcm_siv_ui.s:774`). The buffers of `Demo` have no neighbours; a longer
  message is refused by `gcmsiv_decrypt`.
- Hosts that call `gcmsiv_install_enc_key` and `gcmsiv_restore_orig_key` by
  hand, and what `gcmsiv_tag_valid` means after a direct `gcmsiv_ctr_decrypt`.
- Interrupts: the library says that it is neither interrupt-safe nor reentrant.
- An author who edits while a release is built, and the choice of message for
  an interrupted run. `build_release.sh:193-206` tells one by its placeholder
  and advises a rebuild; with notes edited since, the rebuild is of other bytes.
- The Makefile's rebuild rules, manifests, linker layouts and shell checks, and
  the test drivers, which call the code above and keep no state.
- Release: a tag that the clone at hand does not have (`build_release.sh` says
  that such a version goes unguarded). Benchmark: a sweep of negative or
  repeated sizes, of which the code keeps one row per size. Composing gate: a
  documentation row that names an archive or profile nothing builds, which ends
  the gate.
- The references' key derivation, encrypt and decrypt as a whole, the vectors
  of RFC 8452 C.2 and the comparison with an optional library; the self-test of
  the composing-mode gate.

What the gates do not see, found while modelling. A property names the one it
meets as an exception; of the others the instances have no example.

- Publish gate: a copy of the notes may have a tracked file as its destination
  (`check_publish_atomic.py:112`); a quoted `>(` is taken for a substitution;
  heredocs other than `PY`, escaped quotes and a single `&` are not followed.
- Scratch gate: a pattern without a star counts as covering a prefix
  (`check_scratch_prefix.py:213`); a binding that does not start its line is
  not read; two of the forms have no fixture although `:239-240` says one per
  pattern.
- Footprint gate: a label inside the cold routine ends its measurement
  (`check_footprints.py:237`).
- Sanity check: the pinned bytes of a vector with a text are never compared,
  although `reference_sanity.py:105` says so; no tag is forged, and there is no
  additional data beside an empty text or one of whole blocks.

## 6. Plan

1. Done: AEAD routines, counter mode, tag base; the three POLYVAL profiles;
   AES and the zero page; the demo program; releases; the references; the
   benchmark and the gates in Python; the proofs above.
2. Model: the Makefile's knob stamps (a knob changed between two builds must
   rebuild what depends on it); install and restore called by hand; timing of a
   drive fault inside a save, channel by channel.
3. Prove, when the prover can: what is left in the list of section 4.
