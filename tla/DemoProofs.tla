----------------------------- MODULE DemoProofs -----------------------------
(***************************************************************************)
(* Proofs about the demo program, gcm_siv_ui.s.                            *)
(*                                                                         *)
(* DecryptedSafety: a text shown as verified is the one that was sealed.   *)
(* That is not inductive: it needs what the buffers and the files hold at  *)
(* every step of a command.  DataRight says that buffers with an origin    *)
(* hold the message it names, sealed with the master key under a nonce in  *)
(* use; that every file is the text FileText lays out for such a message,  *)
(* or a front of it; and that a load in progress has read the items before *)
(* its position into the places they were written from.  The last part     *)
(* rests on where FileText puts each byte (TextLaid) and on what the       *)
(* reader delivers next (NextIs): it skips separators, whatever their      *)
(* number, and stops at the end of what the drive gave.                    *)
(*                                                                         *)
(* FirstFreeSafety: a save without a name takes the first free default     *)
(* name.  NamesRight says that the name buffer spells the default name     *)
(* with the suffix counted so far; the rest is in the property itself.     *)
(***************************************************************************)
EXTENDS Demo, SequenceTheorems, TLAPS

-----------------------------------------------------------------------------
(* What a file looks like *)

\* The characters of a whole file, by position.
Laid(text, no, t, l, c) ==
  LET n == 2 * NonceLen  m == n + 1 + 2 * TagLen
  IN  /\ Len(text) = m + 3 + 2 * l
      /\ \A i \in 0 .. NonceLen - 1 : text[2 * i + 1] = <<no[i]>> /\ text[2 * i + 2] = Sep
      /\ text[n + 1] = Sep
      /\ \A i \in 0 .. TagLen - 1 :
           text[n + 2 * i + 2] = <<t[i]>> /\ text[n + 2 * i + 3] = Sep
      /\ text[m + 1] = Sep /\ text[m + 2] = <<l>> /\ text[m + 3] = Sep
      /\ \A i \in 0 .. l - 1 :
           text[m + 2 * i + 4] = <<c[i]>> /\ text[m + 2 * i + 5] = Sep

\* Where the characters of two joined texts are.
LEMMA Joined ==
  ASSUME NEW S, NEW s \in Seq(S), NEW t \in Seq(S),
         NEW j, NEW k, Len(s) = j, Len(t) = k
  PROVE  /\ s \o t \in Seq(S) /\ Len(s \o t) = j + k
         /\ \A q \in 1 .. j : (s \o t)[q] = s[q]
         /\ \A q \in 1 .. k : (s \o t)[j + q] = t[q]
<1>1. j \in Nat /\ k \in Nat
  OBVIOUS
<1>2. /\ s \o t \in Seq(S) /\ Len(s \o t) = j + k
      /\ \A i \in 1 .. j + k : (s \o t)[i] = IF i <= j THEN s[i] ELSE t[i - j]
  BY ConcatProperties
<1>3. ASSUME NEW q \in 1 .. j PROVE (s \o t)[q] = s[q]
  BY <1>1, <1>2
<1>4. ASSUME NEW q \in 1 .. k PROVE (s \o t)[j + q] = t[q]
  <2>1. j + q \in 1 .. j + k /\ ~(j + q <= j) /\ j + q - j = q
    BY <1>1
  <2> QED
    BY <1>2, <2>1
<1> QED
  BY <1>2, <1>3, <1>4

\* Written bytes: each followed by a separator.
LEMMA BytesLaid ==
  ASSUME NEW buf, NEW n \in Nat, NEW S, Sep \in S, \A i \in 0 .. n - 1 : <<buf[i]>> \in S
  PROVE  /\ Bytes(buf, n) \in Seq(S) /\ Len(Bytes(buf, n)) = 2 * n
         /\ \A i \in 0 .. n - 1 :
              Bytes(buf, n)[2 * i + 1] = <<buf[i]>> /\ Bytes(buf, n)[2 * i + 2] = Sep
<1>1. \A k \in 1 .. 2 * n : (k % 2) = 1 => k \div 2 \in 0 .. n - 1
  OBVIOUS
<1>2. \A k \in 1 .. 2 * n : Bytes(buf, n)[k] \in S
  BY <1>1 DEF Bytes
<1>3. Bytes(buf, n) \in [1 .. 2 * n -> S]
  BY <1>2 DEF Bytes
<1>4. 2 * n \in Nat
  OBVIOUS
<1>5. Bytes(buf, n) \in Seq(S) /\ Len(Bytes(buf, n)) = 2 * n
  BY <1>3, <1>4
<1>6. ASSUME NEW i \in 0 .. n - 1
      PROVE  Bytes(buf, n)[2 * i + 1] = <<buf[i]>> /\ Bytes(buf, n)[2 * i + 2] = Sep
  <2>1. /\ 2 * i + 1 \in 1 .. 2 * n /\ ((2 * i + 1) % 2) = 1 /\ (2 * i + 1) \div 2 = i
        /\ 2 * i + 2 \in 1 .. 2 * n /\ ((2 * i + 2) % 2) = 0
    OBVIOUS
  <2> QED
    BY <2>1 DEF Bytes
<1> QED
  BY <1>5, <1>6

\* Where FileText puts every byte of the nonce, tag, length and ciphertext.
LEMMA TextLaid ==
  ASSUME NEW no, NEW t, NEW l \in Nat, NEW c
  PROVE  \E S : FileText(no, t, l, c) \in Seq(S) /\ Laid(FileText(no, t, l, c), no, t, l, c)
<1> DEFINE S == {Sep, <<l>>} \cup {<<no[i]>> : i \in 0 .. NonceLen - 1}
                  \cup {<<t[i]>> : i \in 0 .. TagLen - 1} \cup {<<c[i]>> : i \in 0 .. l - 1}
           a == Bytes(no, NonceLen)
           b == Bytes(t, TagLen)
           d == Bytes(c, l)
           n == 2 * NonceLen
           m == n + 1 + 2 * TagLen
<1>0. NonceLen \in Nat /\ TagLen \in Nat
  BY DemoAssumption
<1>1. /\ Sep \in S /\ <<l>> \in S
      /\ \A i \in 0 .. NonceLen - 1 : <<no[i]>> \in S
      /\ \A i \in 0 .. TagLen - 1 : <<t[i]>> \in S
      /\ \A i \in 0 .. l - 1 : <<c[i]>> \in S
  OBVIOUS
<1> HIDE DEF S
<1>2. /\ a \in Seq(S) /\ Len(a) = n
      /\ \A i \in 0 .. NonceLen - 1 : a[2 * i + 1] = <<no[i]>> /\ a[2 * i + 2] = Sep
  BY <1>0, <1>1, BytesLaid
<1>3. /\ b \in Seq(S) /\ Len(b) = 2 * TagLen
      /\ \A i \in 0 .. TagLen - 1 : b[2 * i + 1] = <<t[i]>> /\ b[2 * i + 2] = Sep
  BY <1>0, <1>1, BytesLaid
<1>4. /\ d \in Seq(S) /\ Len(d) = 2 * l
      /\ \A i \in 0 .. l - 1 : d[2 * i + 1] = <<c[i]>> /\ d[2 * i + 2] = Sep
  BY <1>1, BytesLaid
<1>5. /\ <<Sep>> \in Seq(S) /\ Len(<<Sep>>) = 1 /\ <<Sep>>[1] = Sep
      /\ <<<<l>>, Sep>> \in Seq(S) /\ Len(<<<<l>>, Sep>>) = 2
      /\ <<<<l>>, Sep>>[1] = <<l>> /\ <<<<l>>, Sep>>[2] = Sep
  BY <1>1
<1> DEFINE u == <<Sep>>  v == <<<<l>>, Sep>>
           w1 == a \o u  w2 == w1 \o b  w3 == w2 \o u  w4 == w3 \o v  w5 == w4 \o d
<1> HIDE DEF a, b, d, u, v
<1>6. /\ w1 \in Seq(S) /\ Len(w1) = n + 1
      /\ \A q \in 1 .. n : w1[q] = a[q]
      /\ w1[n + 1] = Sep
  <2>1. Len(u) = 1 /\ u \in Seq(S) /\ u[1] = Sep
    BY <1>5 DEF u
  <2>2. n \in Nat /\ 1 \in 1 .. 1
    BY <1>0
  <2> HIDE DEF n
  <2>3. /\ w1 \in Seq(S) /\ Len(w1) = n + Len(u)
        /\ \A q \in 1 .. n : w1[q] = a[q]
        /\ \A q \in 1 .. Len(u) : w1[n + q] = u[q]
    <3>1. u \in Seq(S)
      BY <2>1
    <3> QED
      BY <1>2, <3>1, Joined
  <2> QED
    BY <2>1, <2>2, <2>3
<1> HIDE DEF w1
<1>7. /\ w2 \in Seq(S) /\ Len(w2) = m
      /\ \A q \in 1 .. n + 1 : w2[q] = w1[q]
      /\ \A q \in 1 .. 2 * TagLen : w2[n + 1 + q] = b[q]
  <2>1. n + 1 + 2 * TagLen = m
    OBVIOUS
  <2> HIDE DEF n, m
  <2> QED
    BY <1>3, <1>6, <2>1, Joined
<1> HIDE DEF w2
<1>8. /\ w3 \in Seq(S) /\ Len(w3) = m + 1
      /\ \A q \in 1 .. m : w3[q] = w2[q]
      /\ w3[m + 1] = Sep
  <2>1. Len(u) = 1 /\ u \in Seq(S) /\ u[1] = Sep
    BY <1>5 DEF u
  <2>2. 1 \in 1 .. 1
    OBVIOUS
  <2> HIDE DEF m
  <2>3. /\ w3 \in Seq(S) /\ Len(w3) = m + Len(u)
        /\ \A q \in 1 .. m : w3[q] = w2[q]
        /\ \A q \in 1 .. Len(u) : w3[m + q] = u[q]
    <3>1. u \in Seq(S)
      BY <2>1
    <3> QED
      BY <1>7, <3>1, Joined
  <2> QED
    BY <2>1, <2>2, <2>3
<1> HIDE DEF w3
<1>9. /\ w4 \in Seq(S) /\ Len(w4) = m + 3
      /\ \A q \in 1 .. m + 1 : w4[q] = w3[q]
      /\ w4[m + 2] = <<l>> /\ w4[m + 3] = Sep
  <2>1. Len(v) = 2 /\ v \in Seq(S) /\ v[1] = <<l>> /\ v[2] = Sep
    BY <1>5 DEF v
  <2>2. /\ m \in Nat /\ 1 \in 1 .. 2 /\ 2 \in 1 .. 2
        /\ m + 1 + 1 = m + 2 /\ m + 1 + 2 = m + 3
    BY <1>0
  <2> HIDE DEF m
  <2>3. /\ w4 \in Seq(S) /\ Len(w4) = m + 1 + Len(v)
        /\ \A q \in 1 .. m + 1 : w4[q] = w3[q]
        /\ \A q \in 1 .. Len(v) : w4[m + 1 + q] = v[q]
    <3>1. v \in Seq(S)
      BY <2>1
    <3> QED
      BY <1>8, <3>1, Joined
  <2> QED
    BY <2>1, <2>2, <2>3
<1> HIDE DEF w4
<1>10. /\ w5 \in Seq(S) /\ Len(w5) = m + 3 + 2 * l
       /\ \A q \in 1 .. m + 3 : w5[q] = w4[q]
       /\ \A q \in 1 .. 2 * l : w5[m + 3 + q] = d[q]
  <2> HIDE DEF m
  <2> QED
    BY <1>4, <1>9, Joined
<1>11. w5 = FileText(no, t, l, c)
  BY DEF w4, w3, w2, w1, a, b, d, u, v, FileText
<1> HIDE DEF w5
<1>12. ASSUME NEW i \in 0 .. NonceLen - 1 PROVE w5[2 * i + 1] = <<no[i]>> /\ w5[2 * i + 2] = Sep
  <2>1. /\ 2 * i + 1 \in 1 .. n /\ 2 * i + 2 \in 1 .. n
        /\ \A q \in 1 .. n : /\ q \in 1 .. n + 1 /\ q \in 1 .. m /\ q \in 1 .. m + 1
                             /\ q \in 1 .. m + 3
    BY <1>0
  <2> HIDE DEF n, m
  <2>2. \A q \in 1 .. n : /\ w5[q] = w4[q] /\ w4[q] = w3[q] /\ w3[q] = w2[q]
                           /\ w2[q] = w1[q] /\ w1[q] = a[q]
    <3> TAKE q \in 1 .. n
    <3>1. /\ q \in 1 .. n + 1 /\ q \in 1 .. m /\ q \in 1 .. m + 1 /\ q \in 1 .. m + 3
      BY <2>1
    <3> QED
      BY <3>1, <1>6, <1>7, <1>8, <1>9, <1>10
  <2> QED
    BY <2>1, <2>2, <1>2
<1>13. w5[n + 1] = Sep
  <2>1. n + 1 \in 1 .. n + 1 /\ n + 1 \in 1 .. m /\ n + 1 \in 1 .. m + 1 /\ n + 1 \in 1 .. m + 3
    BY <1>0
  <2> HIDE DEF n, m
  <2> QED
    BY <2>1, <1>6, <1>7, <1>8, <1>9, <1>10
<1>14. ASSUME NEW i \in 0 .. TagLen - 1
       PROVE  w5[n + 2 * i + 2] = <<t[i]>> /\ w5[n + 2 * i + 3] = Sep
  <2>1. /\ 2 * i + 1 \in 1 .. 2 * TagLen /\ 2 * i + 2 \in 1 .. 2 * TagLen
        /\ \A q \in 1 .. 2 * TagLen : /\ n + 1 + q \in 1 .. m /\ n + 1 + q \in 1 .. m + 1
                                      /\ n + 1 + q \in 1 .. m + 3
        /\ n + 1 + (2 * i + 1) = n + 2 * i + 2 /\ n + 1 + (2 * i + 2) = n + 2 * i + 3
    BY <1>0
  <2>2. \A q \in 1 .. 2 * TagLen : w5[n + 1 + q] = b[q]
    <3> TAKE q \in 1 .. 2 * TagLen
    <3>1. /\ n + 1 + q \in 1 .. m /\ n + 1 + q \in 1 .. m + 1 /\ n + 1 + q \in 1 .. m + 3
      BY <2>1
    <3> HIDE DEF n, m
    <3> QED
      BY <3>1, <1>7, <1>8, <1>9, <1>10
  <2>3. w5[n + 1 + (2 * i + 1)] = b[2 * i + 1] /\ w5[n + 1 + (2 * i + 2)] = b[2 * i + 2]
    BY <2>1, <2>2
  <2> QED
    BY <2>1, <2>3, <1>3
<1>15. w5[m + 1] = Sep /\ w5[m + 2] = <<l>> /\ w5[m + 3] = Sep
  <2>1. /\ m + 1 \in 1 .. m + 1 /\ m + 1 \in 1 .. m + 3
        /\ m + 2 \in 1 .. m + 3 /\ m + 3 \in 1 .. m + 3
    BY <1>0
  <2> HIDE DEF m
  <2> QED
    BY <2>1, <1>8, <1>9, <1>10
<1>16. ASSUME NEW i \in 0 .. l - 1
       PROVE  w5[m + 2 * i + 4] = <<c[i]>> /\ w5[m + 2 * i + 5] = Sep
  <2>1. /\ 2 * i + 1 \in 1 .. 2 * l /\ 2 * i + 2 \in 1 .. 2 * l
        /\ m + 3 + (2 * i + 1) = m + 2 * i + 4 /\ m + 3 + (2 * i + 2) = m + 2 * i + 5
    BY <1>0
  <2>3. w5[m + 3 + (2 * i + 1)] = d[2 * i + 1] /\ w5[m + 3 + (2 * i + 2)] = d[2 * i + 2]
    BY <2>1, <1>10
  <2> QED
    BY <2>1, <2>3, <1>4
<1>17. Laid(w5, no, t, l, c)
  BY <1>10, <1>12, <1>13, <1>14, <1>15, <1>16 DEF Laid
<1> QED
  BY <1>10, <1>11, <1>17

\* What the machine with the master key saves for message m of l bytes
\* under nonce no.
Nonces == {ZeroNonce, OtherNonce}
TagOf(no, m) == A!TagFor(MasterKey, no, m)
CtOf(no, l, m) ==
  [i \in 0 .. l - 1 |-> A!Eor(m[i], Stream(A!EncKey(MasterKey, no), TagOf(no, m), i))]
TextOf(no, l, m) == FileText(no, TagOf(no, m), l, CtOf(no, l, m))

\* A message of l bytes.
IsText(m, l) == m = [i \in 0 .. l - 1 |-> m[i]]

\* A file cut short at any character.
Front(data, text) == Len(data) \in 0 .. Len(text) /\ \A q \in 1 .. Len(data) : data[q] = text[q]

\* A file, whole or cut short, of the message it was saved from.
FileHolds(f, no, l) == IsText(f.of, l) /\ Front(f.data, TextOf(no, l, f.of))

\* The buffers hold the message they are said to hold.
BuffersHold(no, l) ==
  /\ IsText(origin, l) /\ nonce = no /\ len = l /\ tag = TagOf(no, origin)
  /\ \A i \in 0 .. l - 1 : ct[i] = CtOf(no, l, origin)[i]

\* From r on, the next item of the text is at p.
At(text, r, p) == r \in 1 .. p /\ \A q \in r .. p - 1 : text[q] = Sep

\* What a load of a file with message m has brought into the buffers so far.
Parsed(no, l, m) ==
  LET text == TextOf(no, l, m)
      tags == 2 * NonceLen + 1
      length == tags + 2 * TagLen + 2
  IN  /\ avail \in 0 .. Len(files[Target].data)
      /\ pc = "nonce" => /\ index < NonceLen /\ At(text, pos, 2 * index + 1)
                         /\ \A i \in 0 .. index - 1 : nonce[i] = no[i]
      /\ pc # "nonce" => nonce = no
      /\ pc = "tag" => /\ index < TagLen /\ At(text, pos, tags + 2 * index + 1)
                       /\ \A i \in 0 .. index - 1 : tag[i] = TagOf(no, m)[i]
      /\ pc \in {"length", "ct"} => tag = TagOf(no, m)
      /\ pc = "length" => index = 0 /\ At(text, pos, length)
      /\ pc = "ct" => /\ len = l /\ index <= l
                      /\ index < l => At(text, pos, length + 2 * index + 2)
                      /\ \A i \in 0 .. index - 1 : ct[i] = CtOf(no, l, m)[i]

\* The steps of a load.
Loading == {"nonce", "tag", "length", "ct"}

\* The types of the buffers.
BuffersTyped ==
  /\ masterKey = MasterKey /\ schedule = MasterKey
  /\ nonce = [i \in 0 .. NonceLen - 1 |-> nonce[i]]
  /\ tag = [i \in 0 .. TagLen - 1 |-> tag[i]]
  /\ ct = [i \in A!Index |-> ct[i]]
  /\ index \in Nat

\* The part of the invariant about messages.
DataRight ==
  /\ BuffersTyped
  /\ pc = "seal" => len \in 1 .. MaxLen /\ nonce = ZeroNonce
  /\ pc \in {"tag", "length", "ct"} => origin = Nil
  /\ origin # Nil => \E no \in Nonces, l \in 0 .. MaxLen : BuffersHold(no, l)
  /\ \A x \in DOMAIN files :
       files[x].of # Nil => \E no \in Nonces, l \in 0 .. MaxLen : FileHolds(files[x], no, l)
  /\ pc \in {"open"} \cup Loading => Target \in DOMAIN files
  /\ pc \in Loading /\ files[Target].of # Nil =>
       \E no \in Nonces, l \in 0 .. MaxLen :
         FileHolds(files[Target], no, l) /\ Parsed(no, l, files[Target].of)
  /\ DecryptedIsOrigin

\* The widths are positive.
LEMMA Widths == MaxLen \in Nat \ {0} /\ NonceLen \in Nat \ {0} /\ TagLen \in Nat \ {0}
BY DemoAssumption

\* Masking a byte twice with the same stream byte gives it back.
LEMMA EorTwice == \A x, s : A!Eor(A!Eor(x, s), s) = x
BY DEF A!Eor

\* A cleared byte takes the stream byte.
LEMMA EorBlank == \A s : A!Eor({}, s) = s
BY DEF A!Eor

\* The layout of the file of a sealed message.
LEMMA TextOfLaid ==
  ASSUME NEW no, NEW l \in 0 .. MaxLen, NEW m
  PROVE  \E S : /\ TextOf(no, l, m) \in Seq(S)
                /\ Laid(TextOf(no, l, m), no, TagOf(no, m), l, CtOf(no, l, m))
<1>1. l \in Nat
  BY Widths
<1> QED
  BY <1>1, TextLaid DEF TextOf

\* The next item, when one is delivered.
LEMMA NextIs ==
  ASSUME NEW text, NEW p, Len(text) \in Nat, p \in 1 .. Len(text),
         At(text, pos, p), text[p] # Sep, Front(files[Target].data, text),
         avail \in 0 .. Len(files[Target].data), NextItem # 0
  PROVE  NextItem = p /\ files[Target].data[p] = text[p]
<1> DEFINE data == files[Target].data
           ahead == {q \in pos .. avail : data[q] # Sep}
           least == CHOOSE q \in ahead : \A r \in ahead : q <= r
<1>1. Len(data) \in Nat /\ \A q \in 1 .. Len(data) : data[q] = text[q]
  BY DEF Front
<1>2. /\ pos \in Nat /\ p \in Nat /\ 1 <= pos /\ pos <= p
      /\ \A q \in pos .. p - 1 : text[q] = Sep
  BY DEF At
<1> HIDE DEF data
<1>3. avail \in Nat /\ avail <= Len(data)
  BY <1>1 DEF data
<1>4. \A q \in ahead : q \in Nat /\ p <= q
  <2> SUFFICES ASSUME NEW q \in pos .. avail, data[q] # Sep, ~(p <= q) PROVE FALSE
    BY <1>2, <1>3
  <2>1. q \in pos .. p - 1 /\ q \in 1 .. Len(data)
    BY <1>1, <1>2, <1>3
  <2> QED
    BY <1>1, <1>2, <2>1
<1>5. NextItem = IF ahead = {} THEN 0 ELSE IF least = Len(data) THEN 0 ELSE least
  BY DEF NextItem, data
<1>6. ahead # {}
  <2> HIDE DEF ahead, least
  <2> QED
    BY <1>5
<1>7. p \in 1 .. Len(data)
  <2>1. PICK q : q \in ahead
    BY <1>6
  <2>2. q \in pos .. avail
    BY <2>1
  <2> QED
    BY <1>1, <1>2, <1>3, <1>4, <2>1, <2>2
<1>8. p \in ahead
  <2>1. PICK q : q \in ahead
    BY <1>6
  <2>2. q \in pos .. avail
    BY <2>1
  <2>3. p \in pos .. avail
    BY <1>2, <1>3, <1>4, <2>1, <2>2
  <2> QED
    BY <1>1, <1>7, <2>3
<1> HIDE DEF ahead
<1>9. least \in ahead /\ \A r \in ahead : least <= r
  <2>1. \E q \in ahead : \A r \in ahead : q <= r
    BY <1>4, <1>8
  <2> QED
    BY <2>1
<1>10. least = p
  <2>1. least \in Nat /\ least <= p /\ p <= least
    BY <1>4, <1>8, <1>9
  <2> HIDE DEF least
  <2> QED
    BY <1>2, <2>1
<1> HIDE DEF least
<1> QED
  BY <1>1, <1>5, <1>6, <1>7, <1>10 DEF data

-----------------------------------------------------------------------------
(* The invariant about messages *)

\* The file the disk starts with is one that was sealed under the key.
LEMMA OtherFileHolds == FileHolds(OtherFile, OtherNonce, MaxLen - 1)
<1> DEFINE l == MaxLen - 1
           e == A!EncKey(MasterKey, OtherNonce)
           t == TagOf(OtherNonce, OtherText)
<1>0. l \in 0 .. MaxLen
  BY Widths
<1>1. OtherFile.of = OtherText /\ IsText(OtherText, l)
  BY Widths DEF OtherFile, OtherText, IsText
<1>2. CtOf(OtherNonce, l, OtherText) = [i \in 0 .. MaxLen - 2 |-> Stream(e, t, i)]
  <2>1. 0 .. l - 1 = 0 .. MaxLen - 2
    BY Widths
  <2>2. \A i \in 0 .. MaxLen - 2 : OtherText[i] = {}
    BY DEF OtherText
  <2> QED
    BY <2>1, <2>2, EorBlank DEF CtOf
<1>3. OtherFile.data = TextOf(OtherNonce, l, OtherText)
  BY <1>2 DEF OtherFile, TextOf, TagOf
<1>4. Len(OtherFile.data) \in Nat
  BY <1>0, <1>3, TextOfLaid, LenProperties
<1>5. Front(OtherFile.data, TextOf(OtherNonce, l, OtherText))
  <2> DEFINE text == TextOf(OtherNonce, l, OtherText)
  <2>1. OtherFile.data = text /\ Len(text) \in Nat
    BY <1>3, <1>4
  <2> HIDE DEF text
  <2>2. Len(text) \in 0 .. Len(text)
    BY <2>1
  <2>3. Front(text, text)
    BY <2>2 DEF Front
  <2>4. Front(OtherFile.data, text)
    BY <2>1, <2>3
  <2> QED
    BY <2>4 DEF text
<1>6. IsText(OtherFile.of, l) /\ Front(OtherFile.data, TextOf(OtherNonce, l, OtherFile.of))
  BY <1>1, <1>5
<1> QED
  BY <1>6 DEF FileHolds

\* The program starts with blank buffers.
LEMMA DataInit == Init => DataRight
<1> SUFFICES ASSUME Init PROVE DataRight
  OBVIOUS
<1>1. BuffersTyped
  BY DEF Init, BuffersTyped, ZeroNonce, A!Blank8
<1>2. /\ pc = "menu" /\ origin = Nil /\ \A x \in DOMAIN files : files[x] = OtherFile
  BY DEF Init
<1>3. MaxLen - 1 \in 0 .. MaxLen /\ OtherNonce \in Nonces
  BY Widths DEF Nonces
<1>4. \A x \in DOMAIN files : \E no \in Nonces, l \in 0 .. MaxLen : FileHolds(files[x], no, l)
  BY <1>2, <1>3, OtherFileHolds
<1> QED
  BY <1>1, <1>2, <1>4 DEF DataRight, Loading, DecryptedIsOrigin

\* What the buffers hold depends on these variables.
data == <<keys, nonce, len, ct, tag, files, index, origin>>

\* A command that ends with another outcome than that of a decryption.
LEMMA DataEnd ==
  ASSUME DataRight, NEW r, Finish(r), r \notin {"verified", "tag_fail"}, UNCHANGED data
  PROVE  DataRight'
<1>1. pc' = "menu" /\ report' \notin {"verified", "tag_fail"}
  BY DEF Finish
<1>2. BuffersTyped'
  BY DEF DataRight, BuffersTyped, data, keys
<1>3. origin' # Nil => \E no \in Nonces, l \in 0 .. MaxLen : BuffersHold(no, l)'
  BY DEF DataRight, BuffersHold, data
<1>4. \A x \in DOMAIN files' : files'[x].of # Nil =>
        \E no \in Nonces, l \in 0 .. MaxLen : FileHolds(files'[x], no, l)
  BY DEF DataRight, data
<1> QED
  BY <1>1, <1>2, <1>3, <1>4 DEF DataRight, Loading, DecryptedIsOrigin

\* A step between two questions to the user or the disk.
LEMMA DataKept ==
  ASSUME DataRight, pc' \in {"check", "write", "new_name"}, UNCHANGED data
  PROVE  DataRight'
<1>2. BuffersTyped'
  BY DEF DataRight, BuffersTyped, data, keys
<1>3. origin' # Nil => \E no \in Nonces, l \in 0 .. MaxLen : BuffersHold(no, l)'
  BY DEF DataRight, BuffersHold, data
<1>4. \A x \in DOMAIN files' : files'[x].of # Nil =>
        \E no \in Nonces, l \in 0 .. MaxLen : FileHolds(files'[x], no, l)
  BY DEF DataRight, data
<1> QED
  BY <1>2, <1>3, <1>4 DEF DataRight, Loading, DecryptedIsOrigin

\* Typing seals nothing: the nonce and the length are set for the seal.
LEMMA DataTypeText ==
  ASSUME DataRight, NEW l \in 0 .. MaxLen, NEW b, TypeText(l, b)
  PROVE  DataRight'
<1>1. UNCHANGED <<keys, ct, tag, files, index>> /\ len' = l /\ origin' = Nil /\ l < MaxLen
  BY DEF TypeText, reading
<1>2. \/ l = 0 /\ pc' = "menu" /\ nonce' = nonce
      \/ l # 0 /\ pc' = "seal" /\ nonce' = ZeroNonce
  BY DEF TypeText, Finish
<1>3. BuffersTyped'
  BY <1>1, <1>2 DEF DataRight, BuffersTyped, ZeroNonce, keys
<1>4. \A x \in DOMAIN files' : files'[x].of # Nil =>
        \E no \in Nonces, k \in 0 .. MaxLen : FileHolds(files'[x], no, k)
  BY <1>1 DEF DataRight
<1>5. pc' = "seal" => len' \in 1 .. MaxLen /\ nonce' = ZeroNonce
  BY <1>1, <1>2, Widths
<1> QED
  BY <1>1, <1>2, <1>3, <1>4, <1>5 DEF DataRight, Loading, DecryptedIsOrigin

\* The keys of every operation of the library are those of the master key.
LEMMA DataSeal ==
  ASSUME DataRight, SealText
  PROVE  DataRight'
<1> DEFINE m == A!Prefix(pt, len)  e == A!EncKey(MasterKey, ZeroNonce)
<1>1. /\ masterKey = MasterKey /\ schedule = MasterKey /\ nonce = ZeroNonce
      /\ len \in 1 .. MaxLen /\ pc = "seal"
  BY DEF DataRight, BuffersTyped, SealText
<1>2. /\ tag' = TagOf(ZeroNonce, m)
      /\ ct' = A!Crypt(e, TagOf(ZeroNonce, m), pt, ct, len)
      /\ schedule' = MasterKey /\ UNCHANGED <<masterKey, nonce, len>>
  <2>1. len <= MaxLen
    BY <1>1, Widths
  <2> QED
    BY <1>1, <2>1 DEF SealText, A!Seal, TagOf
<1>3. /\ origin' = m /\ pc' = "menu" /\ report' = "encrypted" /\ UNCHANGED <<files, index>>
  BY DEF SealText, Finish, reading
<1>4. BuffersTyped'
  <2>1. tag' = [i \in 0 .. TagLen - 1 |-> tag'[i]]
    BY <1>2 DEF TagOf, A!TagFor, TagCipher
  <2>2. ct' = [i \in A!Index |-> ct'[i]]
    BY <1>2 DEF A!Crypt
  <2> QED
    BY <1>1, <1>2, <1>3, <2>1, <2>2 DEF DataRight, BuffersTyped
<1>5. BuffersHold(ZeroNonce, len)'
  <2>1. IsText(m, len)
    BY DEF A!Prefix, IsText
  <2>2. ASSUME NEW i \in 0 .. len - 1
        PROVE  ct'[i] = CtOf(ZeroNonce, len, m)[i]
    <3>1. i \in A!Index /\ i < len /\ m[i] = pt[i]
      BY <1>1, Widths DEF A!Index, A!Prefix
    <3> QED
      BY <1>2, <3>1 DEF A!Crypt, CtOf
  <2> QED
    BY <1>1, <1>2, <1>3, <2>1, <2>2 DEF BuffersHold
<1>6. len \in 0 .. MaxLen /\ ZeroNonce \in Nonces
  BY <1>1 DEF Nonces
<1>7. \A x \in DOMAIN files' : files'[x].of # Nil =>
        \E no \in Nonces, k \in 0 .. MaxLen : FileHolds(files'[x], no, k)
  BY <1>3 DEF DataRight
<1>8. \E no \in Nonces, l \in 0 .. MaxLen : BuffersHold(no, l)'
  <2>1. len' = len
    BY <1>2
  <2> QED
    BY <1>5, <1>6, <2>1 DEF BuffersHold
<1> QED
  BY <1>3, <1>4, <1>7, <1>8 DEF DataRight, Loading, DecryptedIsOrigin

\* A sealed message decrypts to itself.
LEMMA OpenGivesText ==
  ASSUME BuffersTyped, A!Open, NEW no, NEW l \in 0 .. MaxLen, BuffersHold(no, l)
  PROVE  valid' = 1 /\ A!Prefix(dec', len) = origin
<1> DEFINE e == A!EncKey(MasterKey, no)
           d == A!Crypt(e, tag, ct, dec, l)
<1>1. /\ schedule = MasterKey /\ nonce = no /\ len = l /\ tag = TagOf(no, origin)
      /\ len <= MaxLen
  BY Widths DEF BuffersTyped, BuffersHold
<1>2. ASSUME NEW i \in 0 .. l - 1 PROVE d[i] = origin[i]
  <2>1. i \in A!Index /\ i < l
    BY Widths DEF A!Index
  <2>2. d[i] = A!Eor(ct[i], Stream(e, tag, i))
    BY <2>1 DEF A!Crypt
  <2>3. ct[i] = A!Eor(origin[i], Stream(e, tag, i))
    BY <1>1 DEF BuffersHold, CtOf
  <2> QED
    BY <2>2, <2>3, EorTwice
<1> HIDE DEF d
<1>3. A!Prefix(d, l) = origin
  BY <1>2 DEF A!Prefix, BuffersHold, IsText
<1>4. A!TagFor(MasterKey, no, A!Prefix(d, l)) = tag
  BY <1>1, <1>3 DEF TagOf
<1>5. valid' = 1 /\ dec' = d
  BY <1>1, <1>4 DEF A!Open, d
<1> QED
  BY <1>1, <1>3, <1>5

\* Only a decryption that verifies shows a text, and it is the origin.
LEMMA DataDecrypt ==
  ASSUME DataRight, Decrypt
  PROVE  DataRight'
<1>1. /\ UNCHANGED <<masterKey, nonce, len, ct, tag, files, index, origin>>
      /\ schedule' = MasterKey /\ pc' = "menu"
      /\ report' = IF valid' = 1 THEN "verified" ELSE "tag_fail"
      /\ shown' = IF valid' = 1 THEN A!Prefix(dec', len) ELSE Nil
      /\ A!Open
  <2>1. schedule' = MasterKey
    BY DEF Decrypt, A!Open, DataRight, BuffersTyped
  <2> QED
    BY <2>1 DEF Decrypt, A!Open, Finish, reading, history
<1>2. BuffersTyped'
  BY <1>1 DEF DataRight, BuffersTyped
<1>3. origin' # Nil => \E no \in Nonces, l \in 0 .. MaxLen : BuffersHold(no, l)'
  BY <1>1 DEF DataRight, BuffersHold
<1>4. \A x \in DOMAIN files' : files'[x].of # Nil =>
        \E no \in Nonces, l \in 0 .. MaxLen : FileHolds(files'[x], no, l)
  BY <1>1 DEF DataRight
<1>5. DecryptedIsOrigin'
  <2> SUFFICES ASSUME origin # Nil PROVE valid' = 1 /\ A!Prefix(dec', len) = origin
    BY <1>1 DEF DecryptedIsOrigin
  <2>1. PICK no \in Nonces, l \in 0 .. MaxLen : BuffersHold(no, l)
    BY DEF DataRight
  <2> QED
    BY <1>1, <2>1, OpenGivesText DEF DataRight
<1> QED
  BY <1>1, <1>2, <1>3, <1>4, <1>5 DEF DataRight, Loading

\* A write that stops leaves a front of the file.
LEMMA FrontOfText ==
  ASSUME NEW S, NEW text \in Seq(S), NEW n \in 0 .. Len(text)
  PROVE  Front(SubSeq(text, 1, n), text)
<1>1. Len(text) \in Nat /\ n \in Int /\ 1 \in Int
  BY LenProperties
<1>2. \A i \in 1 .. n : text[i] \in S
  BY <1>1, ElementOfSeq
<1>3. /\ Len(SubSeq(text, 1, n)) = IF 1 <= n THEN n - 1 + 1 ELSE 0
      /\ \A i \in 1 .. n - 1 + 1 : SubSeq(text, 1, n)[i] = text[1 + i - 1]
  <2> DEFINE one == 1
  <2>1. one \in Int /\ \A i \in one .. n : text[i] \in S
    BY <1>1, <1>2
  <2> HIDE DEF one
  <2>2. /\ Len(SubSeq(text, one, n)) = IF one <= n THEN n - one + 1 ELSE 0
        /\ \A i \in 1 .. n - one + 1 : SubSeq(text, one, n)[i] = text[one + i - 1]
    BY <1>1, <2>1, SubSeqProperties
  <2> QED
    BY <2>2 DEF one
<1>4. Len(SubSeq(text, 1, n)) = n
  BY <1>1, <1>3
<1>5. \A i \in 1 .. n : SubSeq(text, 1, n)[i] = text[i]
  BY <1>1, <1>3
<1> QED
  BY <1>1, <1>4, <1>5 DEF Front

\* Only the bytes of the message are written.
LEMMA SameText ==
  ASSUME NEW no, NEW t, NEW l \in Nat, NEW b, NEW c, \A i \in 0 .. l - 1 : b[i] = c[i]
  PROVE  FileText(no, t, l, b) = FileText(no, t, l, c)
<1>1. \A k \in 1 .. 2 * l : (k % 2) = 1 => k \div 2 \in 0 .. l - 1
  OBVIOUS
<1>2. Bytes(b, l) = Bytes(c, l)
  BY <1>1 DEF Bytes
<1> QED
  BY <1>2 DEF FileText

\* A save writes what the buffers hold, up to where it stops.
LEMMA DataSaveFile ==
  ASSUME DataRight, NEW n \in 0 .. Len(FileText(nonce, tag, len, ct)), SaveFile(n)
  PROVE  DataRight'
<1> DEFINE text == FileText(nonce, tag, len, ct)
<1>1. /\ files' = [x \in DOMAIN files \cup {Target} |->
                     IF x = Target THEN [data |-> SubSeq(text, 1, n), of |-> origin]
                     ELSE files[x]]
      /\ pc' = "menu" /\ report' \in {"save_ok", "save_error"}
      /\ UNCHANGED <<keys, nonce, len, ct, tag, index, origin>>
  BY DEF SaveFile, Finish, aead, reading, history
<1>2. BuffersTyped'
  BY <1>1 DEF DataRight, BuffersTyped, keys
<1>3. origin' # Nil => \E no \in Nonces, l \in 0 .. MaxLen : BuffersHold(no, l)'
  BY <1>1 DEF DataRight, BuffersHold
<1>4. ASSUME origin # Nil
      PROVE  \E no \in Nonces, l \in 0 .. MaxLen : FileHolds(files'[Target], no, l)
  <2>1. PICK no \in Nonces, l \in 0 .. MaxLen : BuffersHold(no, l)
    BY <1>4 DEF DataRight
  <2>2. text = TextOf(no, l, origin)
    <3>1. l \in Nat
      BY Widths
    <3> QED
      BY <2>1, <3>1, SameText DEF BuffersHold, TextOf
  <2>3. Front(SubSeq(text, 1, n), TextOf(no, l, origin))
    <3>1. PICK S : text \in Seq(S)
      BY <2>2, TextOfLaid
    <3>2. n \in 0 .. Len(text)
      OBVIOUS
    <3> HIDE DEF text
    <3> QED
      BY <2>2, <3>1, <3>2, FrontOfText
  <2>4. files'[Target].data = SubSeq(text, 1, n) /\ files'[Target].of = origin
    BY <1>1
  <2> QED
    BY <2>1, <2>3, <2>4 DEF FileHolds, BuffersHold
<1>5. ASSUME NEW x \in DOMAIN files', files'[x].of # Nil
      PROVE  \E no \in Nonces, l \in 0 .. MaxLen : FileHolds(files'[x], no, l)
  <2>1. CASE x = Target
    <3>1. files'[x].of = origin
      BY <1>1, <2>1
    <3> QED
      BY <1>4, <1>5, <2>1, <3>1
  <2>2. CASE x # Target
    <3>1. x \in DOMAIN files /\ files'[x] = files[x]
      BY <1>1, <1>5, <2>2
    <3> QED
      BY <1>5, <3>1 DEF DataRight
  <2> QED
    BY <2>1, <2>2
<1> HIDE DEF text
<1> QED
  BY <1>1, <1>2, <1>3, <1>5 DEF DataRight, Loading, DecryptedIsOrigin

\* What every state of a load keeps of the invariant.
LEMMA DataLoading ==
  ASSUME DataRight, pc' \in Loading, Target \in DOMAIN files, BuffersTyped',
         UNCHANGED <<naming, files>>,
         origin' = Nil \/ (pc' = "nonce" /\ UNCHANGED <<nonce, len, ct, tag, origin>>),
         \A m : files[Target].of = m /\ m # Nil =>
           \E no \in Nonces, l \in 0 .. MaxLen :
             FileHolds(files[Target], no, l) /\ Parsed(no, l, m)'
  PROVE  DataRight'
<1>1. Target' = Target /\ files' = files
  BY DEF Target, naming
<1>2. origin' # Nil => \E no \in Nonces, l \in 0 .. MaxLen : BuffersHold(no, l)'
  BY DEF DataRight, BuffersHold
<1>3. \A x \in DOMAIN files' : files'[x].of # Nil =>
        \E no \in Nonces, l \in 0 .. MaxLen : FileHolds(files'[x], no, l)
  BY <1>1 DEF DataRight
<1>4. pc' # "seal" /\ pc' # "menu"
  BY DEF Loading
<1>5. ASSUME files'[Target'].of # Nil
      PROVE  \E no \in Nonces, l \in 0 .. MaxLen :
               FileHolds(files'[Target'], no, l) /\ Parsed(no, l, files[Target].of)'
  <2>1. PICK m : m = files[Target].of
    OBVIOUS
  <2>2. PICK no \in Nonces, l \in 0 .. MaxLen :
          FileHolds(files[Target], no, l) /\ Parsed(no, l, m)'
    BY <1>1, <1>5, <2>1
  <2>3. Parsed(no, l, files[Target].of)'
    BY <1>1, <2>1, <2>2 DEF Parsed
  <2> QED
    BY <1>1, <2>2, <2>3
<1> QED
  BY <1>1, <1>2, <1>3, <1>4, <1>5 DEF DataRight, DecryptedIsOrigin

\* A load starts at the first character, with the buffers of before.
LEMMA DataOpenFile ==
  ASSUME DataRight, NEW a \in 0 .. Len(files[Target].data), OpenFile(a)
  PROVE  DataRight'
<1>1. /\ pc = "open" /\ pc' = "nonce" /\ pos' = 1 /\ avail' = a /\ index' = 0
      /\ UNCHANGED <<aead, naming, files, origin>>
  BY DEF OpenFile, history
<1>2. BuffersTyped'
  BY <1>1 DEF DataRight, BuffersTyped, aead, keys
<1>3. Target \in DOMAIN files /\ Target' = Target
  BY <1>1 DEF DataRight, Target, naming
<1>4. ASSUME NEW m, files[Target].of = m, m # Nil
      PROVE  \E no \in Nonces, l \in 0 .. MaxLen :
               FileHolds(files[Target], no, l) /\ Parsed(no, l, m)'
  <2>1. PICK no \in Nonces, l \in 0 .. MaxLen : FileHolds(files[Target], no, l)
    BY <1>3, <1>4 DEF DataRight
  <2>2. Parsed(no, l, m)'
    BY <1>1, <1>3, Widths DEF Parsed, At
  <2> QED
    BY <2>1, <2>2
<1> QED
  BY <1>1, <1>2, <1>3, <1>4, DataLoading DEF aead, Loading

\* The item b at p is delivered, and the next item after it lies one or two
\* blanks further on.
LEMMA Delivered ==
  ASSUME NEW text, Len(text) \in Nat, Front(files[Target].data, text),
         avail \in 0 .. Len(files[Target].data), NextItem # 0, pos' = NextItem + 1,
         NEW p \in 1 .. Len(text), At(text, pos, p),
         NEW b, text[p] = <<b>>, text[p + 1] = Sep
  PROVE  /\ files[Target].data[NextItem][1] = b
         /\ At(text, pos', p + 2)
         /\ text[p + 2] = Sep => At(text, pos', p + 3)
<1>2. text[p] # Sep
  BY DEF Sep
<1>4. NextItem = p /\ files[Target].data[p] = text[p]
  BY <1>2, NextIs
<1>5. p \in Nat \ {0} /\ pos' = p + 1
  BY <1>4
<1>6. \A q \in pos' .. (p + 2) - 1 : q = p + 1
  BY <1>5
<1>7. \A q \in pos' .. (p + 3) - 1 : q = p + 1 \/ q = p + 2
  BY <1>5
<1> QED
  BY <1>4, <1>5, <1>6, <1>7 DEF At

\* Nonces are functions on their positions.
LEMMA NonceFunction == \A no \in Nonces : no = [i \in 0 .. NonceLen - 1 |-> no[i]]
BY DEF Nonces, ZeroNonce, OtherNonce

\* So are tags.
LEMMA TagFunction == \A no, m : TagOf(no, m) = [i \in 0 .. TagLen - 1 |-> TagOf(no, m)[i]]
BY DEF TagOf, A!TagFor, TagCipher

\* The byte delivered is the byte of the nonce at the index.
LEMMA DataReadNonce ==
  ASSUME DataRight, ReadNonce
  PROVE  DataRight'
<1>1. pc = "nonce" /\ Target \in DOMAIN files /\ BuffersTyped /\ index \in Nat
  BY DEF ReadNonce, DataRight, Loading, BuffersTyped
<1>2. /\ NextItem # 0 /\ pos' = NextItem + 1 /\ origin' = Nil
      /\ UNCHANGED <<keys, len, ct, tag, naming, files, avail>>
      /\ nonce' = [i \in DOMAIN nonce |->
                     IF i = index THEN files[Target].data[NextItem][1] ELSE nonce[i]]
  BY DEF ReadNonce, Advance, Stored
<1>3. \/ index + 1 = NonceLen /\ index' = 0 /\ pc' = "tag"
      \/ index + 1 # NonceLen /\ index' = index + 1 /\ pc' = "nonce"
  BY DEF ReadNonce, Advance
<1>4. BuffersTyped'
  BY <1>1, <1>2, <1>3 DEF BuffersTyped, keys
<1>5. ASSUME NEW m, files[Target].of = m, m # Nil
      PROVE  \E no \in Nonces, l \in 0 .. MaxLen :
               FileHolds(files[Target], no, l) /\ Parsed(no, l, m)'
  <2>1. PICK no \in Nonces, l \in 0 .. MaxLen : FileHolds(files[Target], no, l) /\ Parsed(no, l, m)
    BY <1>1, <1>5 DEF DataRight, Loading
  <2>2. PICK text : text = TextOf(no, l, m)
    OBVIOUS
  <2>13. Len(text) \in Nat /\ Front(files[Target].data, text)
    BY <1>5, <2>1, <2>2, TextOfLaid, LenProperties DEF FileHolds
  <2>3. PICK p : p = 2 * index + 1
    OBVIOUS
  <2>4. /\ avail \in 0 .. Len(files[Target].data) /\ index < NonceLen
        /\ At(text, pos, p) /\ \A i \in 0 .. index - 1 : nonce[i] = no[i]
    BY <1>1, <2>1, <2>2, <2>3 DEF Parsed
  <2>5. PICK t, c : Laid(text, no, t, l, c)
    BY <2>2, TextOfLaid
  <2>6. index \in 0 .. NonceLen - 1
    BY <1>1, <2>4, Widths
  <2>7. text[p] = <<no[index]>> /\ text[p + 1] = Sep /\ p \in 1 .. Len(text)
    <3>1. text[2 * index + 1] = <<no[index]>> /\ text[2 * index + 2] = Sep
      BY <2>5, <2>6 DEF Laid
    <3>2. Len(text) = 2 * NonceLen + 1 + 2 * TagLen + 3 + 2 * l
      BY <2>5 DEF Laid
    <3>3. p \in 1 .. Len(text) /\ p + 1 = 2 * index + 2
      BY <2>3, <2>6, <3>2, Widths
    <3> QED
      BY <2>3, <3>1, <3>3
  <2>8. /\ files[Target].data[NextItem][1] = no[index]
        /\ At(text, pos', p + 2) /\ (text[p + 2] = Sep => At(text, pos', p + 3))
    BY <1>2, <2>13, <2>4, <2>7, Delivered
  <2>9. \A i \in 0 .. index : nonce'[i] = no[i]
    <3>1. DOMAIN nonce = 0 .. NonceLen - 1
      BY <1>1 DEF BuffersTyped
    <3>2. 0 .. index \subseteq 0 .. NonceLen - 1 /\ \A i \in 0 .. index : i # index => i \in 0 .. index - 1
      BY <2>6, Widths
    <3> QED
      BY <1>2, <2>4, <2>8, <3>1, <3>2
  <2>10. avail' \in 0 .. Len(files'[Target'].data)
    BY <1>2, <2>4 DEF Target, naming
  <2>11. CASE index + 1 = NonceLen /\ index' = 0 /\ pc' = "tag"
    <3>1. nonce' = no
      <4>1. nonce' = [i \in 0 .. NonceLen - 1 |-> nonce'[i]]
        BY <1>4 DEF BuffersTyped
      <4>2. \A i \in 0 .. NonceLen - 1 : nonce'[i] = no[i]
        BY <2>6, <2>9, <2>11, Widths
      <4> QED
        BY <4>1, <4>2, NonceFunction
    <3>2. text[p + 2] = Sep /\ p + 3 = (2 * NonceLen + 1) + 2 * index' + 1
      <4>1. p + 2 = 2 * NonceLen + 1 /\ p + 3 = (2 * NonceLen + 1) + 2 * index' + 1
        BY <2>3, <2>6, <2>11, Widths
      <4>2. text[2 * NonceLen + 1] = Sep
        BY <2>5 DEF Laid
      <4> QED
        BY <4>1, <4>2
    <3>3. At(text, pos', (2 * NonceLen + 1) + 2 * index' + 1)
      BY <2>8, <3>2
    <3>4. index' < TagLen /\ \A i \in 0 .. index' - 1 : FALSE
      BY <2>11, Widths
    <3> QED
      BY <2>1, <2>2, <2>10, <2>11, <3>1, <3>3, <3>4 DEF Parsed
  <2>12. CASE index + 1 # NonceLen /\ index' = index + 1 /\ pc' = "nonce"
    <3>1. p + 2 = 2 * index' + 1 /\ index' < NonceLen /\ index' - 1 = index
      BY <2>3, <2>6, <2>12, Widths
    <3>2. At(text, pos', 2 * index' + 1)
      BY <2>8, <3>1
    <3> QED
      BY <2>1, <2>2, <2>9, <2>10, <2>12, <3>1, <3>2 DEF Parsed
  <2> QED
    BY <1>3, <2>1, <2>11, <2>12
<1> QED
  BY <1>1, <1>2, <1>3, <1>4, <1>5, DataLoading DEF Loading

\* The byte delivered is the byte of the tag at the index.
LEMMA DataReadTag ==
  ASSUME DataRight, ReadTag
  PROVE  DataRight'
<1>1. pc = "tag" /\ Target \in DOMAIN files /\ BuffersTyped /\ index \in Nat /\ origin = Nil
  BY DEF ReadTag, DataRight, Loading, BuffersTyped
<1>2. /\ NextItem # 0 /\ pos' = NextItem + 1 /\ origin' = Nil
      /\ UNCHANGED <<keys, nonce, len, ct, naming, files, avail>>
      /\ tag' = [i \in DOMAIN tag |->
                   IF i = index THEN files[Target].data[NextItem][1] ELSE tag[i]]
  BY <1>1 DEF ReadTag, Advance, Stored, history
<1>3. \/ index + 1 = TagLen /\ index' = 0 /\ pc' = "length"
      \/ index + 1 # TagLen /\ index' = index + 1 /\ pc' = "tag"
  BY <1>1 DEF ReadTag, Advance
<1>4. BuffersTyped'
  BY <1>1, <1>2, <1>3 DEF BuffersTyped, keys
<1>5. ASSUME NEW m, files[Target].of = m, m # Nil
      PROVE  \E no \in Nonces, l \in 0 .. MaxLen :
               FileHolds(files[Target], no, l) /\ Parsed(no, l, m)'
  <2>1. PICK no \in Nonces, l \in 0 .. MaxLen : FileHolds(files[Target], no, l) /\ Parsed(no, l, m)
    BY <1>1, <1>5 DEF DataRight, Loading
  <2>2. PICK text : text = TextOf(no, l, m)
    OBVIOUS
  <2>13. Len(text) \in Nat /\ Front(files[Target].data, text)
    BY <1>5, <2>1, <2>2, TextOfLaid, LenProperties DEF FileHolds
  <2>3. PICK p : p = (2 * NonceLen + 1) + 2 * index + 1
    OBVIOUS
  <2>0. PICK t : t = TagOf(no, m)
    OBVIOUS
  <2>4. /\ avail \in 0 .. Len(files[Target].data) /\ index < TagLen /\ nonce = no
        /\ At(text, pos, p) /\ \A i \in 0 .. index - 1 : tag[i] = t[i]
    BY <1>1, <2>0, <2>1, <2>2, <2>3 DEF Parsed
  <2>5. PICK c : Laid(text, no, t, l, c)
    BY <2>0, <2>2, TextOfLaid
  <2>6. index \in 0 .. TagLen - 1
    BY <1>1, <2>4, Widths
  <2>7. text[p] = <<t[index]>> /\ text[p + 1] = Sep /\ p \in 1 .. Len(text)
    <3>1. /\ text[2 * NonceLen + 2 * index + 2] = <<t[index]>>
          /\ text[2 * NonceLen + 2 * index + 3] = Sep
      BY <2>5, <2>6 DEF Laid
    <3>2. Len(text) = 2 * NonceLen + 1 + 2 * TagLen + 3 + 2 * l
      BY <2>5 DEF Laid
    <3>3. /\ p \in 1 .. Len(text) /\ p = 2 * NonceLen + 2 * index + 2
          /\ p + 1 = 2 * NonceLen + 2 * index + 3
      BY <2>3, <2>6, <3>2, Widths
    <3> QED
      BY <3>1, <3>3
  <2>8. /\ files[Target].data[NextItem][1] = t[index]
        /\ At(text, pos', p + 2) /\ (text[p + 2] = Sep => At(text, pos', p + 3))
    <3>1. PICK b : b = t[index]
      OBVIOUS
    <3>2. /\ text[p] = <<b>> /\ text[p + 1] = Sep /\ p \in 1 .. Len(text)
          /\ At(text, pos, p) /\ avail \in 0 .. Len(files[Target].data)
          /\ NextItem # 0 /\ pos' = NextItem + 1
      BY <1>2, <2>4, <2>7, <3>1
    <3>3. /\ files[Target].data[NextItem][1] = b
          /\ At(text, pos', p + 2) /\ (text[p + 2] = Sep => At(text, pos', p + 3))
      BY <2>13, <3>2, Delivered
    <3> QED
      BY <3>1, <3>3
  <2>9. \A i \in 0 .. index : tag'[i] = t[i]
    <3>1. DOMAIN tag = 0 .. TagLen - 1
      BY <1>1 DEF BuffersTyped
    <3>2. 0 .. index \subseteq 0 .. TagLen - 1 /\ \A i \in 0 .. index : i # index => i \in 0 .. index - 1
      BY <2>6, Widths
    <3> QED
      BY <1>2, <2>4, <2>8, <3>1, <3>2
  <2>10. avail' \in 0 .. Len(files'[Target'].data) /\ nonce' = no
    BY <1>2, <2>4 DEF Target, naming
  <2>11. CASE index + 1 = TagLen /\ index' = 0 /\ pc' = "length"
    <3>1. tag' = t
      <4>1. tag' = [i \in 0 .. TagLen - 1 |-> tag'[i]]
        BY <1>4 DEF BuffersTyped
      <4>2. \A i \in 0 .. TagLen - 1 : tag'[i] = t[i]
        BY <2>6, <2>9, <2>11, Widths
      <4>3. t = [i \in 0 .. TagLen - 1 |-> t[i]]
        BY <2>0, TagFunction
      <4> QED
        BY <4>1, <4>2, <4>3
    <3>2. text[p + 2] = Sep /\ p + 3 = (2 * NonceLen + 1) + 2 * TagLen + 2
      <4>1. /\ p + 2 = 2 * NonceLen + 1 + 2 * TagLen + 1
            /\ p + 3 = (2 * NonceLen + 1) + 2 * TagLen + 2
        BY <2>3, <2>6, <2>11, Widths
      <4>2. text[2 * NonceLen + 1 + 2 * TagLen + 1] = Sep
        BY <2>5 DEF Laid
      <4> QED
        BY <4>1, <4>2
    <3>3. At(text, pos', (2 * NonceLen + 1) + 2 * TagLen + 2)
      BY <2>8, <3>2
    <3> QED
      BY <2>0, <2>1, <2>2, <2>10, <2>11, <3>1, <3>3 DEF Parsed
  <2>12. CASE index + 1 # TagLen /\ index' = index + 1 /\ pc' = "tag"
    <3>1. /\ p + 2 = (2 * NonceLen + 1) + 2 * index' + 1
          /\ index' < TagLen /\ index' - 1 = index
      BY <2>3, <2>6, <2>12, Widths
    <3>2. At(text, pos', (2 * NonceLen + 1) + 2 * index' + 1)
      BY <2>8, <3>1
    <3> QED
      BY <2>0, <2>1, <2>2, <2>9, <2>10, <2>12, <3>1, <3>2 DEF Parsed
  <2> QED
    BY <1>3, <2>1, <2>11, <2>12
<1> QED
  BY <1>1, <1>2, <1>3, <1>4, <1>5, DataLoading DEF Loading

\* The byte delivered is the length.
LEMMA DataReadLength ==
  ASSUME DataRight, ReadLength
  PROVE  DataRight'
<1>1. pc = "length" /\ Target \in DOMAIN files /\ BuffersTyped /\ index \in Nat /\ origin = Nil
  BY DEF ReadLength, DataRight, Loading, BuffersTyped
<1>2. /\ NextItem # 0 /\ pos' = NextItem + 1 /\ origin' = Nil
      /\ UNCHANGED <<keys, nonce, tag, ct, naming, files, avail>>
      /\ len' = files[Target].data[NextItem][1]
  BY <1>1 DEF ReadLength, Advance, history
<1>3. \/ index + 1 = 1 /\ index' = 0 /\ pc' = "ct"
      \/ index + 1 # 1 /\ index' = index + 1 /\ pc' = "length"
  BY <1>1 DEF ReadLength, Advance
<1>4. BuffersTyped'
  BY <1>1, <1>2, <1>3 DEF BuffersTyped, keys
<1>5. ASSUME NEW m, files[Target].of = m, m # Nil
      PROVE  \E no \in Nonces, l \in 0 .. MaxLen :
               FileHolds(files[Target], no, l) /\ Parsed(no, l, m)'
  <2>1. PICK no \in Nonces, l \in 0 .. MaxLen : FileHolds(files[Target], no, l) /\ Parsed(no, l, m)
    BY <1>1, <1>5 DEF DataRight, Loading
  <2>2. PICK text : text = TextOf(no, l, m)
    OBVIOUS
  <2>13. Len(text) \in Nat /\ Front(files[Target].data, text)
    BY <1>5, <2>1, <2>2, TextOfLaid, LenProperties DEF FileHolds
  <2>3. PICK p : p = (2 * NonceLen + 1) + 2 * TagLen + 2
    OBVIOUS
  <2>4. /\ avail \in 0 .. Len(files[Target].data) /\ index = 0 /\ nonce = no
        /\ tag = TagOf(no, m) /\ At(text, pos, p)
    BY <1>1, <2>1, <2>2, <2>3 DEF Parsed
  <2>5. PICK t, c : Laid(text, no, t, l, c)
    BY <2>2, TextOfLaid
  <2>7. text[p] = <<l>> /\ text[p + 1] = Sep /\ p \in 1 .. Len(text)
    <3>1. /\ text[2 * NonceLen + 1 + 2 * TagLen + 2] = <<l>>
          /\ text[2 * NonceLen + 1 + 2 * TagLen + 3] = Sep
      BY <2>5 DEF Laid
    <3>2. Len(text) = 2 * NonceLen + 1 + 2 * TagLen + 3 + 2 * l
      BY <2>5 DEF Laid
    <3>3. p \in 1 .. Len(text) /\ p + 1 = 2 * NonceLen + 1 + 2 * TagLen + 3
      BY <2>3, <3>2, Widths
    <3> QED
      BY <2>3, <3>1, <3>3
  <2>8. files[Target].data[NextItem][1] = l /\ At(text, pos', p + 2)
    BY <1>2, <2>13, <2>4, <2>7, Delivered
  <2>9. len' = l /\ index' = 0 /\ pc' = "ct"
    BY <1>2, <1>3, <2>4, <2>8
  <2>10. avail' \in 0 .. Len(files'[Target'].data) /\ nonce' = no /\ tag' = TagOf(no, m)
    BY <1>2, <2>4 DEF Target, naming
  <2>11. At(text, pos', ((2 * NonceLen + 1) + 2 * TagLen + 2) + 2 * index' + 2)
    <3>1. p + 2 = ((2 * NonceLen + 1) + 2 * TagLen + 2) + 2 * index' + 2
      BY <2>3, <2>9, Widths
    <3> QED
      BY <2>8, <3>1
  <2>12. index' <= l /\ \A i \in 0 .. index' - 1 : FALSE
    BY <2>9, Widths
  <2>14. Parsed(no, l, m)'
    BY <2>2, <2>9, <2>10, <2>11, <2>12 DEF Parsed
  <2> QED
    BY <2>1, <2>14
<1> QED
  BY <1>1, <1>2, <1>3, <1>4, <1>5, DataLoading DEF Loading

\* The byte delivered is the byte of the ciphertext at the index.
LEMMA DataReadCt ==
  ASSUME DataRight, ReadCt
  PROVE  DataRight'
<1>1. /\ pc = "ct" /\ pc' = "ct" /\ Target \in DOMAIN files /\ BuffersTyped /\ index \in Nat
      /\ origin = Nil
  BY DEF ReadCt, DataRight, Loading, BuffersTyped
<1>2. /\ NextItem # 0 /\ pos' = NextItem + 1 /\ origin' = Nil
      /\ index < len /\ index' = index + 1
      /\ UNCHANGED <<keys, nonce, len, tag, naming, files, avail>>
      /\ ct' = [i \in DOMAIN ct |->
                  IF i = index THEN files[Target].data[NextItem][1] ELSE ct[i]]
  BY <1>1 DEF ReadCt, Stored, history
<1>4. BuffersTyped'
  BY <1>1, <1>2 DEF BuffersTyped, keys
<1>5. ASSUME NEW m, files[Target].of = m, m # Nil
      PROVE  \E no \in Nonces, l \in 0 .. MaxLen :
               FileHolds(files[Target], no, l) /\ Parsed(no, l, m)'
  <2>1. PICK no \in Nonces, l \in 0 .. MaxLen : FileHolds(files[Target], no, l) /\ Parsed(no, l, m)
    BY <1>1, <1>5 DEF DataRight, Loading
  <2>2. PICK text : text = TextOf(no, l, m)
    OBVIOUS
  <2>13. Len(text) \in Nat /\ Front(files[Target].data, text)
    BY <1>5, <2>1, <2>2, TextOfLaid, LenProperties DEF FileHolds
  <2>3. PICK p : p = ((2 * NonceLen + 1) + 2 * TagLen + 2) + 2 * index + 2
    OBVIOUS
  <2>0. PICK c : c = CtOf(no, l, m)
    OBVIOUS
  <2>4. /\ avail \in 0 .. Len(files[Target].data) /\ len = l /\ nonce = no /\ tag = TagOf(no, m)
        /\ At(text, pos, p) /\ \A i \in 0 .. index - 1 : ct[i] = c[i]
    BY <1>1, <1>2, <2>0, <2>1, <2>2, <2>3 DEF Parsed
  <2>5. PICK t : Laid(text, no, t, l, c)
    BY <2>0, <2>2, TextOfLaid
  <2>6. index \in 0 .. l - 1
    BY <1>1, <1>2, <2>4, Widths
  <2>7. text[p] = <<c[index]>> /\ text[p + 1] = Sep /\ p \in 1 .. Len(text)
    <3>1. /\ text[2 * NonceLen + 1 + 2 * TagLen + 2 * index + 4] = <<c[index]>>
          /\ text[2 * NonceLen + 1 + 2 * TagLen + 2 * index + 5] = Sep
      BY <2>5, <2>6 DEF Laid
    <3>2. Len(text) = 2 * NonceLen + 1 + 2 * TagLen + 3 + 2 * l
      BY <2>5 DEF Laid
    <3>3. /\ p \in 1 .. Len(text) /\ p = 2 * NonceLen + 1 + 2 * TagLen + 2 * index + 4
          /\ p + 1 = 2 * NonceLen + 1 + 2 * TagLen + 2 * index + 5
      BY <2>3, <2>6, <3>2, Widths
    <3> QED
      BY <3>1, <3>3
  <2>8. files[Target].data[NextItem][1] = c[index] /\ At(text, pos', p + 2)
    <3>1. PICK b : b = c[index]
      OBVIOUS
    <3>2. /\ text[p] = <<b>> /\ text[p + 1] = Sep /\ p \in 1 .. Len(text)
          /\ At(text, pos, p) /\ avail \in 0 .. Len(files[Target].data)
          /\ NextItem # 0 /\ pos' = NextItem + 1
      BY <1>2, <2>4, <2>7, <3>1
    <3>3. files[Target].data[NextItem][1] = b /\ At(text, pos', p + 2)
      BY <2>13, <3>2, Delivered
    <3> QED
      BY <3>1, <3>3
  <2>9. \A i \in 0 .. index : ct'[i] = c[i]
    <3>1. DOMAIN ct = 0 .. MaxLen - 1
      BY <1>1 DEF BuffersTyped, A!Index
    <3>2. 0 .. index \subseteq 0 .. MaxLen - 1 /\ \A i \in 0 .. index : i # index => i \in 0 .. index - 1
      BY <2>6, Widths
    <3> QED
      BY <1>2, <2>4, <2>8, <3>1, <3>2
  <2>10. /\ avail' \in 0 .. Len(files'[Target'].data) /\ nonce' = no /\ tag' = TagOf(no, m)
         /\ len' = l
    BY <1>2, <2>4 DEF Target, naming
  <2>11. At(text, pos', ((2 * NonceLen + 1) + 2 * TagLen + 2) + 2 * index' + 2)
    <3>1. p + 2 = ((2 * NonceLen + 1) + 2 * TagLen + 2) + 2 * index' + 2
      BY <1>2, <2>3, <2>6, Widths
    <3> QED
      BY <2>8, <3>1
  <2>12. index' <= l /\ index' - 1 = index
    BY <1>2, <2>6, Widths
  <2>14. Parsed(no, l, m)'
    BY <1>1, <2>0, <2>2, <2>9, <2>10, <2>11, <2>12 DEF Parsed
  <2> QED
    BY <2>1, <2>14
<1> QED
  BY <1>1, <1>2, <1>4, <1>5, DataLoading DEF Loading

\* A load that ends with all of the ciphertext read holds the message.
LEMMA DataLoadDone ==
  ASSUME DataRight, LoadDone
  PROVE  DataRight'
<1>1. /\ pc = "ct" /\ pc' = "menu" /\ report' = "load_ok" /\ Target \in DOMAIN files
      /\ UNCHANGED <<keys, nonce, len, ct, tag, files, index>>
  BY DEF LoadDone, Finish, aead, reading, DataRight, Loading
<1>2. origin' = IF index = len THEN files[Target].of ELSE Nil
  BY DEF LoadDone
<1>3. BuffersTyped'
  BY <1>1 DEF DataRight, BuffersTyped, keys
<1>4. ASSUME origin' # Nil
      PROVE  \E no \in Nonces, l \in 0 .. MaxLen : BuffersHold(no, l)'
  <2>1. index = len /\ origin' = files[Target].of /\ files[Target].of # Nil
    BY <1>2, <1>4
  <2>2. PICK no \in Nonces, l \in 0 .. MaxLen : FileHolds(files[Target], no, l) /\ Parsed(no, l, files[Target].of)
    BY <1>1, <2>1 DEF DataRight, Loading
  <2>3. BuffersHold(no, l)'
    BY <1>1, <2>1, <2>2 DEF Parsed, FileHolds, BuffersHold
  <2> QED
    BY <2>3
<1>5. \A x \in DOMAIN files' : files'[x].of # Nil =>
        \E no \in Nonces, l \in 0 .. MaxLen : FileHolds(files'[x], no, l)
  BY <1>1 DEF DataRight
<1> QED
  BY <1>1, <1>3, <1>4, <1>5 DEF DataRight, Loading, DecryptedIsOrigin

\* Every choice of the user.
LEMMA DataUser ==
  ASSUME DataRight, User
  PROVE  DataRight'
<1>1. ASSUME NoData PROVE DataRight'
  <2>1. Finish("no_data") /\ UNCHANGED data
    BY <1>1 DEF NoData, data, aead, reading, history
  <2> QED
    BY <2>1, DataEnd
<1>2. ASSUME NEW c, NEW d, NEW n, AskFile(c, d, n) PROVE DataRight'
  <2>1. pc' = "check" /\ UNCHANGED data
    BY <1>2 DEF AskFile, data, aead, reading, history
  <2> QED
    BY <2>1, DataKept
<1>3. ASSUME NEW n, NewName(n) PROVE DataRight'
  <2>1. pc' \in {"check", "write"} /\ UNCHANGED data
    BY <1>3 DEF NewName, data, aead, reading, history
  <2> QED
    BY <2>1, DataKept
<1> QED
  BY <1>1, <1>2, <1>3, DataTypeText, DataDecrypt DEF User

\* The question whether the file is there decides nothing about data.
LEMMA DataCheckSave ==
  ASSUME DataRight, NEW hidden, CheckBeforeSave(hidden)
  PROVE  DataRight'
<1>1. UNCHANGED data
  BY DEF CheckBeforeSave, data, aead, reading, history
<1>2. pc' \in {"check", "write", "new_name"} \/ Finish("exhausted")
  BY DEF CheckBeforeSave
<1> QED
  BY <1>1, <1>2, DataKept, DataEnd

LEMMA DataCheckLoad ==
  ASSUME DataRight, NEW hidden, CheckBeforeLoad(hidden)
  PROVE  DataRight'
<1>1. UNCHANGED data /\ UNCHANGED naming
  BY DEF CheckBeforeLoad, data, aead, reading, history
<1>2. CASE Exists(hidden)
  <2>1. pc' = "open" /\ Target' = Target /\ Target \in DOMAIN files
    BY <1>1, <1>2 DEF CheckBeforeLoad, Exists, Target, naming
  <2>2. BuffersTyped'
    BY <1>1 DEF DataRight, BuffersTyped, data, keys
  <2>3. origin' # Nil => \E no \in Nonces, l \in 0 .. MaxLen : BuffersHold(no, l)'
    BY <1>1 DEF DataRight, BuffersHold, data
  <2>4. /\ Target' \in DOMAIN files'
        /\ \A x \in DOMAIN files' : files'[x].of # Nil =>
             \E no \in Nonces, l \in 0 .. MaxLen : FileHolds(files'[x], no, l)
    BY <1>1, <2>1 DEF DataRight, data
  <2> QED
    BY <2>1, <2>2, <2>3, <2>4 DEF DataRight, Loading, DecryptedIsOrigin
<1>3. CASE ~Exists(hidden)
  <2>1. Finish("not_found")
    BY <1>3 DEF CheckBeforeLoad
  <2> QED
    BY <1>1, <2>1, DataEnd
<1> QED
  BY <1>2, <1>3

\* Every step of the program.
LEMMA DataProgram ==
  ASSUME DataRight, Program
  PROVE  DataRight'
<1>1. ASSUME SaveRefused \/ OpenFailed \/ ReadFailed PROVE DataRight'
  <2>1. UNCHANGED data
    BY <1>1 DEF SaveRefused, OpenFailed, ReadFailed, data, aead, reading, history
  <2>2. Finish("save_error") \/ Finish("load_error")
    BY <1>1 DEF SaveRefused, OpenFailed, ReadFailed
  <2> QED
    BY <2>1, <2>2, DataEnd
<1> QED
  BY <1>1, DataSeal, DataCheckSave, DataCheckLoad, DataSaveFile, DataOpenFile, DataReadNonce,
     DataReadTag, DataReadLength, DataReadCt, DataLoadDone
  DEF Program

(* When the buffers hold a message that was sealed, or that was loaded     *)
(* whole from a file it was saved to, a decryption verifies and shows that *)
(* message (gcm_siv_ui.s:543-811): for every width of nonce, tag and text, *)
(* every message, any number of commands, and every fault of the disk,     *)
(* files not found, reads and writes cut short.                            *)
THEOREM DecryptedSafety == Spec => []DecryptedIsOrigin
<1>1. Init => DataRight
  BY DataInit
<1>2. ASSUME DataRight, [Next]_vars PROVE DataRight'
  <2>1. CASE Next
    BY <1>2, <2>1, DataUser, DataProgram DEF Next
  <2>2. CASE UNCHANGED vars
    <3>1. UNCHANGED <<data, pc, pos, avail, report, shown, naming>>
      BY <2>2 DEF vars, data, aead, reading, history
    <3>2. BuffersTyped' /\ Target' = Target /\ DecryptedIsOrigin'
      BY <1>2, <3>1 DEF DataRight, BuffersTyped, data, keys, Target, naming, DecryptedIsOrigin
    <3>3. origin' # Nil => \E no \in Nonces, l \in 0 .. MaxLen : BuffersHold(no, l)'
      BY <1>2, <3>1 DEF DataRight, BuffersHold, data
    <3>4. pc' \in Loading /\ files[Target].of # Nil =>
            \E no \in Nonces, l \in 0 .. MaxLen :
              FileHolds(files[Target], no, l) /\ Parsed(no, l, files[Target].of)'
      BY <1>2, <3>1, <3>2 DEF DataRight, Parsed, At, data
    <3>5. /\ pc' = "seal" => len' \in 1 .. MaxLen /\ nonce' = ZeroNonce
          /\ pc' \in {"tag", "length", "ct"} => origin' = Nil
          /\ pc' \in {"open"} \cup Loading => Target' \in DOMAIN files'
          /\ \A x \in DOMAIN files' :
               files'[x].of # Nil => \E no \in Nonces, l \in 0 .. MaxLen : FileHolds(files'[x], no, l)
          /\ files' = files
      BY <1>2, <3>1, <3>2 DEF DataRight, data
    <3> QED
      BY <3>2, <3>3, <3>4, <3>5 DEF DataRight
  <2> QED
    BY <1>2, <2>1, <2>2
<1>3. DataRight => DecryptedIsOrigin
  BY DEF DataRight
<1> QED
  BY <1>1, <1>2, <1>3, PTL DEF Spec

-----------------------------------------------------------------------------
(* Names of files *)

\* The buffer holds the k-th of the names that stand for no name.
Numbered(buf, k) ==
  LET l == Len(DefaultName)
  IN  /\ \A i \in 0 .. l - 1 : buf[i] = DefaultName[i + 1]
      /\ k = 0 => buf[l] = Nul
      /\ k # 0 => buf[l] = Digit[k] /\ buf[l + 1] = Nul

\* The part of the invariant about names.
NamesRight ==
  /\ suffix \in 0 .. Len(Digit) /\ faults \in Nat
  /\ pc = "new_name" => default = 0
  /\ \A x \in DOMAIN files : x[1] \in Online
  /\ cmd = "save" /\ default = 1 => Numbered(name, suffix)
  /\ FirstFreeName

\* The bytes of the names, none of them NUL.
LEMMA NameTypes ==
  /\ NameMax \in Nat /\ Len(DefaultName) \in Nat /\ Len(Digit) \in Nat
  /\ Len(DefaultName) < NameMax
  /\ \E S : DefaultName \in Seq(S) /\ Digit \in Seq(S) /\ Nul \notin S
<1> DEFINE S == ({DefaultName[i] : i \in DOMAIN DefaultName} \cup {Digit[i] : i \in DOMAIN Digit})
                  \ {Nul}
<1>1. DefaultName \in Seq(S) /\ Digit \in Seq(S)
  BY DemoAssumption, SeqMonotonic DEF Name
<1>2. Nul \notin S
  OBVIOUS
<1> HIDE DEF S
<1> QED
  BY <1>1, <1>2, DemoAssumption, LenProperties

\* The name in the buffer ends at its first NUL.
LEMMA NameEnds ==
  ASSUME NEW buf, NEW n \in 0 .. NameMax, \A i \in 0 .. n - 1 : buf[i] # Nul,
         n = NameMax \/ buf[n] = Nul
  PROVE  NameOf(buf) = [k \in 1 .. n |-> buf[k - 1]]
<1> DEFINE ends == {i \in 0 .. NameMax : i = NameMax \/ buf[i] = Nul}
           m == CHOOSE i \in ends : \A j \in ends : i <= j
<1>1. NameMax \in Nat
  BY DemoAssumption
<1>2. n \in ends /\ \A j \in ends : n <= j
  BY <1>1
<1>3. \A i \in ends : i \in Nat
  BY <1>1
<1> HIDE DEF ends
<1>4. m \in ends /\ \A j \in ends : m <= j
  BY <1>2
<1>5. m = n
  <2>1. m <= n /\ n <= m /\ m \in Nat /\ n \in Nat
    BY <1>2, <1>3, <1>4
  <2> HIDE DEF m
  <2> QED
    BY <2>1
<1>6. NameOf(buf) = [k \in 1 .. m |-> buf[k - 1]]
  BY DEF NameOf, ends
<1> HIDE DEF m
<1> QED
  BY <1>5, <1>6

\* The default name and one name for every suffix.
LEMMA NamesLength == DOMAIN DefaultNames = 1 .. 1 + Len(Digit)
<1> DEFINE more == [i \in 1 .. Len(Digit) |-> Append(DefaultName, Digit[i])]
           s == <<DefaultName>>
           T == {DefaultName} \cup {more[i] : i \in 1 .. Len(Digit)}
<1>1. Len(Digit) \in Nat
  BY NameTypes
<1>2. more \in Seq(T) /\ Len(more) = Len(Digit) /\ s \in Seq(T) /\ Len(s) = 1
  BY <1>1
<1> HIDE DEF more, s, T
<1>3. s \o more \in Seq(T) /\ Len(s \o more) = Len(s) + Len(more)
  BY <1>2, ConcatProperties
<1>4. s \o more = DefaultNames
  BY DEF s, more, DefaultNames
<1> QED
  BY <1>1, <1>2, <1>3, <1>4

\* The buffer with the k-th suffix spells the k-th further name.
LEMMA NumberedName ==
  ASSUME NEW buf, NEW k \in 0 .. Len(Digit), Numbered(buf, k)
  PROVE  NameOf(buf) = DefaultNames[k + 1] /\ k + 1 \in DOMAIN DefaultNames
<1> DEFINE l == Len(DefaultName)
           more == [i \in 1 .. Len(Digit) |-> Append(DefaultName, Digit[i])]
<1>1. PICK S : DefaultName \in Seq(S) /\ Digit \in Seq(S) /\ Nul \notin S
  BY NameTypes
<1>2. l \in Nat /\ Len(Digit) \in Nat /\ NameMax \in Nat /\ l < NameMax
  BY NameTypes
<1>3. \A i \in 1 .. l : DefaultName[i] \in S
  BY <1>1, ElementOfSeq
<1>4. \A i \in 1 .. Len(Digit) : Digit[i] \in S /\ Append(DefaultName, Digit[i]) \in Seq(S)
  BY <1>1, ElementOfSeq, AppendProperties
<1>5. /\ Len(DefaultNames) = 1 + Len(Digit) /\ DefaultNames \in Seq(Seq(S))
      /\ DefaultNames[1] = DefaultName
      /\ \A i \in 1 .. Len(Digit) : DefaultNames[i + 1] = more[i]
  <2>1. more \in Seq(Seq(S)) /\ Len(more) = Len(Digit)
    BY <1>2, <1>4
  <2>2. <<DefaultName>> \in Seq(Seq(S)) /\ Len(<<DefaultName>>) = 1
    BY <1>1
  <2>3. /\ DefaultNames \in Seq(Seq(S))
        /\ Len(DefaultNames) = Len(<<DefaultName>>) + Len(more)
        /\ \A i \in 1 .. Len(<<DefaultName>>) + Len(more) :
             DefaultNames[i] = IF i <= Len(<<DefaultName>>) THEN <<DefaultName>>[i]
                               ELSE more[i - Len(<<DefaultName>>)]
    <3> HIDE DEF more
    <3>1. /\ <<DefaultName>> \o more \in Seq(Seq(S))
          /\ Len(<<DefaultName>> \o more) = Len(<<DefaultName>>) + Len(more)
          /\ \A i \in 1 .. Len(<<DefaultName>>) + Len(more) :
               (<<DefaultName>> \o more)[i] =
                 IF i <= Len(<<DefaultName>>) THEN <<DefaultName>>[i]
                 ELSE more[i - Len(<<DefaultName>>)]
      <4> DEFINE s == <<DefaultName>>
      <4>1. s \in Seq(Seq(S))
        BY <2>2
      <4> HIDE DEF s
      <4>2. /\ s \o more \in Seq(Seq(S)) /\ Len(s \o more) = Len(s) + Len(more)
            /\ \A i \in 1 .. Len(s) + Len(more) :
                 (s \o more)[i] = IF i <= Len(s) THEN s[i] ELSE more[i - Len(s)]
        BY <2>1, <4>1, ConcatProperties
      <4> QED
        BY <4>2 DEF s
    <3>2. <<DefaultName>> \o more = DefaultNames
      BY DEF more, DefaultNames
    <3> QED
      BY <3>1, <3>2
  <2> HIDE DEF more
  <2> QED
    BY <1>2, <2>1, <2>2, <2>3
<1>6. k + 1 \in DOMAIN DefaultNames
  BY <1>2, <1>5
<1>7. CASE k = 0
  <2>1. NameOf(buf) = [j \in 1 .. l |-> buf[j - 1]]
    <3>1. \A i \in 0 .. l - 1 : buf[i] # Nul
      BY <1>1, <1>2, <1>3 DEF Numbered
    <3>2. buf[l] = Nul /\ l \in 0 .. NameMax
      BY <1>2, <1>7 DEF Numbered
    <3> HIDE DEF l
    <3> QED
      BY <3>1, <3>2, NameEnds
  <2>2. \A j \in 1 .. l : buf[j - 1] = DefaultName[j]
    BY <1>2 DEF Numbered
  <2>3. DefaultName = [j \in 1 .. l |-> DefaultName[j]]
    BY <1>1
  <2> QED
    BY <1>5, <1>6, <1>7, <2>1, <2>2, <2>3
<1>8. CASE k # 0
  <2>0. k \in 1 .. Len(Digit)
    BY <1>2, <1>8
  <2>1. NameOf(buf) = [j \in 1 .. l + 1 |-> buf[j - 1]]
    <3>1. \A i \in 0 .. (l + 1) - 1 : buf[i] # Nul
      BY <1>1, <1>2, <1>3, <1>4, <1>8, <2>0 DEF Numbered
    <3>2. buf[l + 1] = Nul /\ l + 1 \in 0 .. NameMax
      BY <1>2, <1>8 DEF Numbered
    <3> HIDE DEF l
    <3> QED
      BY <3>1, <3>2, NameEnds
  <2>2. /\ Append(DefaultName, Digit[k]) \in Seq(S) /\ Len(Append(DefaultName, Digit[k])) = l + 1
        /\ \A j \in 1 .. l : Append(DefaultName, Digit[k])[j] = DefaultName[j]
        /\ Append(DefaultName, Digit[k])[l + 1] = Digit[k]
    BY <1>1, <1>2, <1>4, <2>0, AppendProperties
  <2>3. \A j \in 1 .. l + 1 : buf[j - 1] = Append(DefaultName, Digit[k])[j]
    <3> TAKE j \in 1 .. l + 1
    <3>1. CASE j \in 1 .. l
      BY <1>2, <2>2, <3>1 DEF Numbered
    <3>2. CASE j = l + 1
      BY <1>2, <1>8, <2>2, <3>2 DEF Numbered
    <3> QED
      BY <1>2, <3>1, <3>2
  <2>4. Append(DefaultName, Digit[k]) = [j \in 1 .. l + 1 |-> Append(DefaultName, Digit[k])[j]]
    BY <2>2
  <2>5. DefaultNames[k + 1] = Append(DefaultName, Digit[k])
    BY <1>5, <2>0
  <2> QED
    BY <1>6, <2>1, <2>3, <2>4, <2>5
<1> QED
  BY <1>7, <1>8

\* The default name, as it is copied into the buffer.
LEMMA DefaultNumbered == Numbered(Default, 0)
BY NameTypes DEF Numbered, Default

\* The next suffix goes behind the default name, before a NUL.
LEMMA IncrementNumbered ==
  ASSUME NamesRight, cmd = "save", default = 1, IncrementFilename
  PROVE  suffix' \in 1 .. Len(Digit) /\ suffix' = suffix + 1 /\ Numbered(name', suffix')
BY NameTypes DEF NamesRight, Numbered, IncrementFilename

\* There is no command yet, and the disk holds one file on a drive.
LEMMA NamesInit == Init => NamesRight
<1> SUFFICES ASSUME Init PROVE NamesRight
  OBVIOUS
<1>1. suffix \in 0 .. Len(Digit) /\ faults \in Nat /\ pc = "menu" /\ cmd = "none"
  BY NameTypes DEF Init
<1>2. \A x \in DOMAIN files : x[1] \in Online
  BY DEF Init
<1>3. report # "exhausted"
  BY DEF Init
<1> QED
  BY <1>1, <1>2, <1>3 DEF NamesRight, FirstFreeName

\* A command that ends otherwise than without a free name.
LEMMA NamesEnd ==
  ASSUME NamesRight, NEW r, Finish(r), r # "exhausted", UNCHANGED <<suffix, files>>, faults' \in Nat
  PROVE  NamesRight'
BY DEF NamesRight, FirstFreeName, Finish

\* A step of a command that leaves names and files alone.
LEMMA NamesKept ==
  ASSUME NamesRight, UNCHANGED <<naming, files, cmd>>, pc' \notin {"new_name", "write", "menu"},
         faults' \in Nat
  PROVE  NamesRight'
BY DEF NamesRight, FirstFreeName, naming

\* With no faults so far, no fault hides a file.
LEMMA FaultType ==
  ASSUME NamesRight, NEW b, Fault(b)
  PROVE  faults' \in Nat /\ (faults' = 0 => faults = 0 /\ ~b)
BY DEF NamesRight, Fault

\* A save without a name starts from the default name.
LEMMA NamesUser ==
  ASSUME NamesRight, User
  PROVE  NamesRight'
<1>0. faults \in Nat
  BY DEF NamesRight
<1>1. ASSUME NEW l \in 0 .. MaxLen, NEW b, TypeText(l, b) PROVE NamesRight'
  <2>1. CASE l = 0
    <3>1. Finish("no_input") /\ UNCHANGED <<suffix, files, faults>>
      BY <1>1, <2>1 DEF TypeText, naming
    <3> QED
      BY <1>0, <3>1, NamesEnd
  <2>2. CASE l # 0
    BY <1>1, <2>2 DEF TypeText, naming, NamesRight, FirstFreeName
  <2> QED
    BY <2>1, <2>2
<1>2. ASSUME Decrypt PROVE NamesRight'
  <2>1. /\ Finish(IF valid' = 1 THEN "verified" ELSE "tag_fail")
        /\ UNCHANGED <<suffix, files, faults>>
    BY <1>2 DEF Decrypt, naming
  <2>2. (IF valid' = 1 THEN "verified" ELSE "tag_fail") # "exhausted"
    OBVIOUS
  <2> QED
    BY <1>0, <2>1, <2>2, NamesEnd
<1>3. ASSUME NoData PROVE NamesRight'
  <2>1. Finish("no_data") /\ UNCHANGED <<suffix, files, faults>>
    BY <1>3 DEF NoData, naming
  <2> QED
    BY <1>0, <2>1, NamesEnd
<1>4. ASSUME NEW c \in {"save", "load"}, NEW d \in Drive, NEW n \in TypedName \cup {<<>>},
             AskFile(c, d, n)
      PROVE  NamesRight'
  <2>1. UNCHANGED <<files, faults>> /\ pc' = "check" /\ cmd' = c
    BY <1>4 DEF AskFile
  <2>2. CASE n = <<>>
    <3>1. name' = Default /\ default' = 1 /\ suffix' = 0
      BY <1>4, <2>2 DEF AskFile
    <3>2. Numbered(name', suffix') /\ suffix' \in 0 .. Len(Digit)
      BY <3>1, DefaultNumbered, NameTypes
    <3>3. NameOf(name') = DefaultNames[suffix' + 1]
      BY <3>2, NumberedName
    <3> QED
      BY <2>1, <3>1, <3>2, <3>3 DEF NamesRight, FirstFreeName
  <2>3. CASE n # <<>>
    <3>1. default' = 0 /\ suffix' = suffix
      BY <1>4, <2>3 DEF AskFile
    <3> QED
      BY <2>1, <3>1 DEF NamesRight, FirstFreeName
  <2> QED
    BY <2>2, <2>3
<1>5. ASSUME NEW n \in TypedName \cup {<<>>}, NewName(n) PROVE NamesRight'
  BY <1>5 DEF NewName, NamesRight, FirstFreeName, count
<1> QED
  BY <1>1, <1>2, <1>3, <1>4, <1>5 DEF User

\* A name that is taken gives way to the next; one that is free is used.
LEMMA NamesCheck ==
  ASSUME NamesRight, NEW hidden \in BOOLEAN, CheckBeforeSave(hidden)
  PROVE  NamesRight'
<1> USE DEF CheckBeforeSave
<1>1. faults' \in Nat /\ (faults' = 0 => faults = 0 /\ ~hidden)
  BY FaultType
<1>2. UNCHANGED <<default, drive, files>> /\ pc = "check" /\ cmd = "save"
  OBVIOUS
<1>3. CASE ~Exists(hidden) /\ pc' = "write" /\ UNCHANGED <<cmd, name, suffix, report>>
  <2>1. Target' = Target /\ (faults' = 0 => Target \notin DOMAIN files)
    <3>1. Target' = Target /\ Target[1] = drive
      BY <1>2, <1>3 DEF Target
    <3> QED
      BY <1>1, <1>3, <3>1 DEF Exists, NamesRight
  <2> QED
    BY <1>1, <1>2, <1>3, <2>1 DEF NamesRight, FirstFreeName
<1>4. CASE Exists(hidden) /\ default = 1 /\ IncrementFilename /\ UNCHANGED <<pc, cmd, report>>
  <2>1. suffix' \in 1 .. Len(Digit) /\ suffix' = suffix + 1 /\ Numbered(name', suffix')
    BY <1>2, <1>4, IncrementNumbered
  <2>2. suffix' \in 0 .. Len(Digit) /\ suffix \in Nat
    BY <2>1, NameTypes DEF NamesRight
  <2>3. NameOf(name') = DefaultNames[suffix' + 1]
    BY <2>1, <2>2, NumberedName
  <2>4. <<drive, DefaultNames[suffix + 1]>> \in DOMAIN files
    BY <1>2, <1>4 DEF Exists, Target, NamesRight, FirstFreeName
  <2>5. \A j \in 1 .. suffix' : j \in 1 .. suffix \/ j = suffix + 1
    BY <2>1, <2>2
  <2>6. \A j \in 1 .. suffix' : <<drive, DefaultNames[j]>> \in DOMAIN files
    BY <1>2, <1>4, <2>4, <2>5 DEF NamesRight, FirstFreeName
  <2> QED
    BY <1>1, <1>2, <1>4, <2>1, <2>2, <2>3, <2>6 DEF NamesRight, FirstFreeName
<1>5. CASE /\ Exists(hidden) /\ default = 1 /\ suffix >= Len(Digit)
           /\ Finish("exhausted") /\ UNCHANGED <<name, suffix>>
  <2>1. <<drive, DefaultNames[suffix + 1]>> \in DOMAIN files
    BY <1>2, <1>5 DEF Exists, Target, NamesRight, FirstFreeName
  <2>2. suffix = Len(Digit) /\ Len(Digit) \in Nat
    BY <1>5, NameTypes DEF NamesRight
  <2>3. \A j \in DOMAIN DefaultNames : j \in 1 .. suffix \/ j = suffix + 1
    BY <2>2, NamesLength
  <2>4. \A j \in DOMAIN DefaultNames : <<drive, DefaultNames[j]>> \in DOMAIN files
    BY <1>2, <1>5, <2>1, <2>3 DEF NamesRight, FirstFreeName
  <2> QED
    BY <1>1, <1>2, <1>5, <2>4 DEF NamesRight, FirstFreeName, Finish
<1>6. CASE Exists(hidden) /\ default = 0 /\ pc' = "new_name" /\ UNCHANGED <<cmd, name, suffix, report>>
  BY <1>1, <1>2, <1>6 DEF NamesRight, FirstFreeName
<1> QED
  BY <1>3, <1>4, <1>5, <1>6

\* Every step of the program.
LEMMA NamesProgram ==
  ASSUME NamesRight, Program
  PROVE  NamesRight'
<1>0. faults \in Nat
  BY DEF NamesRight
<1>1. ASSUME SealText PROVE NamesRight'
  <2>1. Finish("encrypted") /\ UNCHANGED <<suffix, files, faults>>
    BY <1>1 DEF SealText, naming, count
  <2> QED
    BY <1>0, <2>1, NamesEnd
<1>2. ASSUME NEW hidden \in BOOLEAN, CheckBeforeLoad(hidden) PROVE NamesRight'
  <2>1. faults' \in Nat
    BY <1>2, FaultType DEF CheckBeforeLoad
  <2>2. CASE Exists(hidden)
    <3>1. pc' = "open" /\ UNCHANGED <<naming, files, cmd>>
      BY <1>2, <2>2 DEF CheckBeforeLoad
    <3> QED
      BY <2>1, <3>1, NamesKept
  <2>3. CASE ~Exists(hidden)
    <3>1. Finish("not_found") /\ UNCHANGED <<suffix, files>>
      BY <1>2, <2>3 DEF CheckBeforeLoad, naming
    <3> QED
      BY <2>1, <3>1, NamesEnd
  <2> QED
    BY <2>2, <2>3
<1>3. ASSUME NEW n, SaveFile(n) PROVE NamesRight'
  <2>1. faults' \in Nat
    BY <1>3, FaultType DEF SaveFile
  <2>2. /\ DOMAIN files' = DOMAIN files \cup {Target} /\ drive \in Online
        /\ UNCHANGED suffix /\ pc' = "menu" /\ cmd' = "none"
        /\ report' \in {"save_ok", "save_error"}
    BY <1>3 DEF SaveFile, Finish, naming
  <2>3. \A x \in DOMAIN files' : x[1] \in Online
    BY <2>2 DEF Target, NamesRight
  <2> QED
    BY <2>1, <2>2, <2>3 DEF NamesRight, FirstFreeName
<1>4. ASSUME SaveRefused PROVE NamesRight'
  <2>1. Finish("save_error") /\ UNCHANGED <<suffix, files, faults>>
    BY <1>4 DEF SaveRefused, naming, count
  <2> QED
    BY <1>0, <2>1, NamesEnd
<1>5. ASSUME NEW a, OpenFile(a) PROVE NamesRight'
  <2>1. faults' \in Nat
    BY <1>5, FaultType DEF OpenFile
  <2>2. pc' = "nonce" /\ UNCHANGED <<naming, files, cmd>>
    BY <1>5 DEF OpenFile
  <2> QED
    BY <2>1, <2>2, NamesKept
<1>6. ASSUME OpenFailed PROVE NamesRight'
  <2>1. faults' \in Nat
    BY <1>6, FaultType DEF OpenFailed
  <2>2. Finish("load_error") /\ UNCHANGED <<suffix, files>>
    BY <1>6 DEF OpenFailed, naming
  <2> QED
    BY <2>1, <2>2, NamesEnd
<1>7. ASSUME ReadFailed PROVE NamesRight'
  <2>1. Finish("load_error") /\ UNCHANGED <<suffix, files, faults>>
    BY <1>7 DEF ReadFailed, naming, count
  <2> QED
    BY <1>0, <2>1, NamesEnd
<1>8. ASSUME ReadNonce \/ ReadTag \/ ReadLength \/ ReadCt PROVE NamesRight'
  <2>1. UNCHANGED <<naming, files, cmd, faults>>
    BY <1>8 DEF ReadNonce, ReadTag, ReadLength, ReadCt, count
  <2>2. pc' \in {"nonce", "tag", "length", "ct"}
    BY <1>8 DEF ReadNonce, ReadTag, ReadLength, ReadCt, Advance
  <2> QED
    BY <1>0, <2>1, <2>2, NamesKept
<1>9. ASSUME LoadDone PROVE NamesRight'
  <2>1. Finish("load_ok") /\ UNCHANGED <<suffix, files, faults>>
    BY <1>9 DEF LoadDone, naming, count
  <2> QED
    BY <1>0, <2>1, NamesEnd
<1> QED
  BY <1>1, <1>2, <1>3, <1>4, <1>5, <1>6, <1>7, <1>8, <1>9, NamesCheck DEF Program

(* A save without a name takes the first free default name, for any        *)
(* default name, any number of drives, and any saves, loads and faults     *)
(* before it.                                                              *)
THEOREM FirstFreeSafety == Spec => []FirstFreeName
<1>1. Init => NamesRight
  BY NamesInit
<1>2. ASSUME NamesRight, [Next]_vars PROVE NamesRight'
  <2>1. CASE Next
    BY <1>2, <2>1, NamesUser, NamesProgram DEF Next
  <2>2. CASE UNCHANGED vars
    BY <1>2, <2>2 DEF vars, naming, count, NamesRight, FirstFreeName, Target
  <2> QED
    BY <1>2, <2>1, <2>2
<1>3. NamesRight => FirstFreeName
  BY DEF NamesRight
<1> QED
  BY <1>1, <1>2, <1>3, PTL DEF Spec
=============================================================================
