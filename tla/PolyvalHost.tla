----------------------------- MODULE PolyvalHost -----------------------------
(***************************************************************************)
(* The memory the POLYVAL back-ends share with their caller, and what the  *)
(* caller does between two calls.  Each back-end extends this module with  *)
(* its own routines.  Routines are not reentrant: one call at a time.      *)
(***************************************************************************)
EXTENDS PolyvalField

CONSTANTS
  Key, Block,   \* values the caller stores in polyval_h and polyval_temp
  Nibble,       \* values the caller stores in pv_mul_nibble
  Junk,         \* what the table memory holds before the first build
  MaxCalls,     \* bound on the calls
  Nil

ASSUME HostAssumption ==
  /\ Key \subseteq Element /\ Block \subseteq Element /\ Junk \in Element
  /\ Nibble \subseteq 0 .. 15 /\ MaxCalls \in Nat

VARIABLES
  h,        \* polyval_h
  temp,     \* polyval_temp
  nibble,   \* pv_mul_nibble
  acc,      \* polyval_acc
  input,    \* pv_mul_input
  htable,   \* polyval_htable, 16 entries
  step,     \* the loop counter in use
  pc,       \* next piece of code; "idle" between calls
  key,      \* history: the key the tables were built for, Nil before
  call,     \* history: the memory as it was when the call began
  calls     \* history: number of calls begun

interface == <<h, temp, nibble, acc, key>>
hostVars == <<interface, input, htable, step, pc, call, calls>>

Entry == 0 .. 15

HostInit ==
  /\ h \in Key /\ temp \in Block /\ nibble = 0
  /\ acc = {} /\ input = {}
  /\ htable = [i \in Entry |-> Junk]
  /\ step = 0 /\ pc = "idle"
  /\ key = Nil /\ call = Nil /\ calls = 0

SetH(k) ==
  /\ pc = "idle" /\ h' = k
  /\ UNCHANGED <<temp, nibble, acc, key, input, htable, step, pc, call, calls>>

SetBlock(b) ==
  /\ pc = "idle" /\ temp' = b
  /\ UNCHANGED <<h, nibble, acc, key, input, htable, step, pc, call, calls>>

SetNibble(n) ==
  /\ pc = "idle" /\ nibble' = n
  /\ UNCHANGED <<h, temp, acc, key, input, htable, step, pc, call, calls>>

Host ==
  \/ \E k \in Key : SetH(k)
  \/ \E b \in Block : SetBlock(b)
  \/ \E n \in Nibble : SetNibble(n)

\* A looping routine is entered at label l; n is its first loop count.
Enter(l, n) ==
  /\ pc = "idle" /\ calls < MaxCalls
  /\ pc' = l /\ step' = n
  /\ calls' = calls + 1
  /\ call' = [h |-> h, temp |-> temp, nibble |-> nibble, acc |-> acc, key |-> key]

Goto(l) ==
  /\ pc' = l
  /\ call' = IF l = "idle" THEN Nil ELSE call
  /\ UNCHANGED calls

\* A pass of the loop that counts step down and leaves for l at zero.
CountDown(l) ==
  /\ step' = step - 1
  /\ Goto(IF step = 1 THEN l ELSE pc)

\* A routine without a loop changes acc only.
OneStep(a) ==
  /\ pc = "idle" /\ calls < MaxCalls
  /\ acc' = a
  /\ calls' = calls + 1
  /\ UNCHANGED <<h, temp, nibble, key, input, htable, step, pc, call>>

\* What the caller sees: a call that runs has not changed anything yet.
Abs == INSTANCE PolyvalSpec WITH
  h      <- IF pc = "idle" THEN h ELSE call.h,
  temp   <- IF pc = "idle" THEN temp ELSE call.temp,
  nibble <- IF pc = "idle" THEN nibble ELSE call.nibble,
  acc    <- IF pc = "idle" THEN acc ELSE call.acc,
  key    <- IF pc = "idle" THEN key ELSE call.key

(* Seen by its caller, the profile computes the RFC 8452 operations on the *)
(* documented buffers: polyval_h and, in an update, polyval_temp survive,  *)
(* and a key stored after a build has no effect until the next build       *)
(* (polyval_api.inc:12-22; the three profiles share one contract).         *)
ImplementsPolyval == Abs!Spec

-----------------------------------------------------------------------------
(* Parts of the inductive invariants of the three profiles. *)
HostTypeOK ==
  /\ h \in Element /\ temp \in Element /\ acc \in Element /\ input \in Element
  /\ nibble \in Entry
  /\ htable \in [Entry -> Element]
  /\ key \in Element \cup {Nil}
  /\ step \in Nat
  /\ calls \in 0 .. MaxCalls

\* Entry i of the 4-bit table is i times H', whatever was there before.
TableRight ==
  key # Nil /\ pc \in {"idle", "multiply"} =>
    \A i \in Entry : htable[i] = Multiple(i, Prime(key))

\* What a running call must leave to its caller is still in place.
CallKept ==
  pc # "idle" =>
    /\ call.h = h /\ call.key = key /\ call.acc \in Element
    /\ IF pc = "multiply" THEN call.temp = temp ELSE call.nibble = nibble

\* The exponents of u from s up, moved down by s.
Shr(u, s) == {i \in 0 .. N - 1 : i + s \in u}

\* A multiplication with w bits at a time has taken the operand's top bits:
\* the accumulator is the product of what they make.
Multiplied(w) ==
  pc = "multiply" =>
    /\ key # Nil /\ step >= 1 /\ w * step <= N
    /\ input \in {call.acc, Xor(call.acc, call.temp)}
    /\ acc = Abs!Dot(Shr(input, w * step), key)

\* The 4-bit profiles fold powers of 1/x into the copy of H.
Folding ==
  /\ pc = "fold" =>
       step \in 1 .. 7 /\ temp = Halved(h, 7 - step) /\ acc = Folded(h, 7 - step)
  /\ pc = "entries" => acc = Prime(h)

Window ==
  /\ HostTypeOK /\ pc \in {"idle", "fold", "entries", "build", "multiply"}
  /\ Folding /\ TableRight /\ CallKept /\ Multiplied(4)

\* They have built the pairs of entries before the k-th.
Built(k) ==
  pc = "build" =>
    /\ k \in 1 .. 7
    /\ \A i \in Entry : i < 2 * k => htable[i] = Multiple(i, Prime(h))
=============================================================================
