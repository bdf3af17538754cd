-------------------------------- MODULE Demo --------------------------------
(***************************************************************************)
(* The demo program: main_loop.s, gcm_siv_ui.s and disk_io.s under         *)
(* src/src.  Four commands work on the library's buffers: encrypt a typed  *)
(* text, decrypt, save to a disk file, load from one.  gcmsiv_encrypt and  *)
(* gcmsiv_decrypt are the atomic Seal and Open of Aead (GcmSiv implements  *)
(* it).  A command is cut where it meets the disk or the user.             *)
(*                                                                         *)
(* Abstractions: a character of a file is one byte, for its two hex        *)
(* digits, or none, for a blank or a line end; a name is a sequence of     *)
(* characters.  The disk drive and the KERNAL are external: a file is      *)
(* created once (a write to a name in use is refused), the last character  *)
(* of a file comes with the EOF flag, and a fault may hide a file from a   *)
(* check, cut a file short while it is written, or end a read early.       *)
(***************************************************************************)
EXTENDS Integers, Sequences, FiniteSets

CONSTANTS
  MasterKey, MaxLen, Text,                       \* as in Aead
  DerivePiece(_, _, _), Polyval(_, _), Stream(_, _, _),
  TagByte(_, _, _, _),    \* schedule, POLYVAL result, nonce, i -> i-th byte of the tag
  NonceLen, TagLen,       \* 12 and 16 bytes
  Zero, OtherByte,        \* a nonce byte of zero, one of another machine
  Drive, Online,          \* drive numbers, those that answer
  DefaultName, Digit,     \* "AESGCM", and the ten digits that may follow it
  TypedName, NameMax,     \* names the user types, 16
  Nul, Nil,
  MaxCommands, MaxFaults  \* bounds

\* A sequence of characters without a NUL.
Name(n) == n \in Seq({n[i] : i \in DOMAIN n} \ {Nul})

ASSUME DemoAssumption ==
  /\ MaxLen \in Nat \ {0} /\ NonceLen \in Nat \ {0} /\ TagLen \in Nat \ {0}
  /\ Name(DefaultName) /\ Name(Digit)
  /\ NameMax \in Nat /\ Len(DefaultName) < NameMax
  /\ Online \subseteq Drive
  /\ MaxCommands \in Nat /\ MaxFaults \in Nat

VARIABLES
  masterKey, schedule,                           \* the interface of Aead
  nonce, len, pt, ct, dec, tag, valid, ret,
  name,       \* actual_filename
  suffix,     \* filename_suffix
  default,    \* using_default_name
  drive,      \* drive_number
  files,      \* what the disks hold
  pc, cmd,    \* next piece of code, "menu" between commands; the command
  index,      \* read_byte_index
  pos, avail, \* next character of the open file, how many the drive delivers
  report,     \* outcome the last command printed
  shown,      \* plaintext the last decryption printed, Nil for none
  typed,      \* history: the name the user meant
  origin,     \* history: the text sealed in the buffers, Nil when unknown
  sealed,     \* history: all texts sealed
  commands, faults

keys == <<masterKey, schedule>>
aead == <<keys, nonce, len, pt, ct, dec, tag, valid, ret>>
naming == <<name, suffix, default, drive, typed>>
reading == <<index, pos, avail>>
history == <<origin, sealed>>
count == <<commands, faults>>
vars == <<aead, naming, files, pc, cmd, reading, report, shown, history, count>>

TagCipher(e, acc, no) == [i \in 0 .. TagLen - 1 |-> TagByte(e, acc, no, i)]

A == INSTANCE Aead WITH
  Key <- {MasterKey}, Nonce <- {}, Len8 <- {}, ForeignTag <- {},
  key <- masterKey, sched <- schedule

ZeroNonce == [i \in 0 .. NonceLen - 1 |-> Zero]
Message == A!Prefix(ct, len)

-----------------------------------------------------------------------------
(* Files *)

Sep == <<>>

\* save_gcmsiv_to_disk: each byte and a blank.
Bytes(buf, n) == [k \in 1 .. 2 * n |-> IF (k % 2) = 1 THEN <<buf[k \div 2]>> ELSE Sep]

FileText(no, t, l, c) ==
  Bytes(no, NonceLen) \o <<Sep>> \o Bytes(t, TagLen) \o <<Sep>>
    \o <<<<l>>, Sep>> \o Bytes(c, l)

\* A file another machine saved under another nonce.
OtherNonce == [i \in 0 .. NonceLen - 1 |-> OtherByte]
OtherText == [i \in 0 .. MaxLen - 2 |-> {}]
OtherFile ==
  LET e == A!EncKey(MasterKey, OtherNonce)
      t == A!TagFor(MasterKey, OtherNonce, OtherText)
  IN  [data |-> FileText(OtherNonce, t, MaxLen - 1,
                         [i \in 0 .. MaxLen - 2 |-> Stream(e, t, i)]),
       of   |-> OtherText]

\* The name build_read_filename and build_write_filename send to the drive:
\* the characters before the first NUL, at most NameMax.
NameOf(buf) ==
  LET ends == {i \in 0 .. NameMax : i = NameMax \/ buf[i] = Nul}
      n == CHOOSE i \in ends : \A j \in ends : i <= j
  IN  [k \in 1 .. n |-> buf[k - 1]]

Target == <<drive, NameOf(name)>>

\* read_hex_char, twice: the next item that is delivered, 0 for none.  The
\* last character of a file comes with EOF and is dropped.
NextItem ==
  LET data == files[Target].data
      ahead == {q \in pos .. avail : data[q] # Sep}
  IN  IF ahead = {} THEN 0
      ELSE LET q == CHOOSE q \in ahead : \A r \in ahead : q <= r
           IN  IF q = Len(data) THEN 0 ELSE q

-----------------------------------------------------------------------------
Init ==
  /\ masterKey = MasterKey /\ schedule = MasterKey
  /\ nonce = ZeroNonce /\ len = 0
  /\ pt = A!Blank8 /\ ct = A!Blank8 /\ dec = A!Blank8
  /\ tag = [i \in 0 .. TagLen - 1 |-> Zero]
  /\ valid = 0 /\ ret = 0
  /\ name = [i \in 0 .. NameMax |-> Nul]
  /\ suffix = 0 /\ default = 0 /\ drive \in Drive
  /\ files = [x \in {<<d, DefaultName>> : d \in Online} |-> OtherFile]
  /\ pc = "menu" /\ cmd = "none"
  /\ index = 0 /\ pos = 0 /\ avail = 0
  /\ report = "none" /\ shown = Nil
  /\ typed = <<>> /\ origin = Nil /\ sealed = {OtherText}
  /\ commands = 0 /\ faults = 0

Command == pc = "menu" /\ commands < MaxCommands /\ commands' = commands + 1

\* A fault happens when b says so.
Fault(b) ==
  IF b THEN faults < MaxFaults /\ faults' = faults + 1 ELSE UNCHANGED faults

Finish(r) == pc' = "menu" /\ cmd' = "none" /\ report' = r

\* do_gcm_siv_encrypt up to the call: get_gcmsiv_input, then the nonce.
TypeText(l, b) ==
  /\ Command /\ l < MaxLen
  /\ len' = l /\ pt' = [i \in A!Index |-> IF i < l THEN b[i] ELSE {}]
  /\ IF l = 0
     THEN Finish("no_input") /\ UNCHANGED nonce
     ELSE pc' = "seal" /\ cmd' = "encrypt" /\ nonce' = ZeroNonce /\ UNCHANGED report
  /\ origin' = Nil
  /\ UNCHANGED <<keys, ct, dec, tag, valid, ret, naming, files, reading, shown, sealed, faults>>

\* jsr gcmsiv_encrypt; its verdict on the length is not looked at.
SealText ==
  /\ pc = "seal" /\ A!Seal
  /\ Finish("encrypted")
  /\ origin' = A!Prefix(pt, len) /\ sealed' = sealed \cup {origin'}
  /\ UNCHANGED <<naming, files, reading, shown, count>>

\* Variant: the decrypted buffer is printed whatever the verdict.
DecryptUnchecked ==
  /\ Command /\ len # 0 /\ A!Open
  /\ Finish(IF valid' = 1 THEN "verified" ELSE "tag_fail")
  /\ shown' = A!Prefix(pt', len)
  /\ UNCHANGED <<naming, files, reading, history, faults>>

\* do_gcm_siv_decrypt
Decrypt ==
  /\ Command /\ len # 0 /\ A!Open
  /\ Finish(IF valid' = 1 THEN "verified" ELSE "tag_fail")
  /\ shown' = IF valid' = 1 THEN A!Prefix(dec', len) ELSE Nil
  /\ UNCHANGED <<naming, files, reading, history, faults>>

\* Decrypt and save want a message.
NoData ==
  /\ Command /\ len = 0
  /\ Finish("no_data")
  /\ UNCHANGED <<aead, naming, files, reading, shown, history, faults>>

-----------------------------------------------------------------------------
(* File names *)

\* copy_input_to_filename copies no NUL.
Copied(n) == [i \in 0 .. NameMax |-> IF i < Len(n) THEN n[i + 1] ELSE name[i]]

Default == [i \in 0 .. NameMax |->
              IF i < Len(DefaultName) THEN DefaultName[i + 1]
              ELSE IF i = Len(DefaultName) THEN Nul ELSE name[i]]

\* do_save_gcm_siv and do_load_gcm_siv up to @got_filename.
AskFile(c, d, n) ==
  /\ Command
  /\ c = "save" => len # 0
  /\ pc' = "check" /\ cmd' = c /\ drive' = d /\ typed' = n
  /\ IF n = <<>>
     THEN name' = Default /\ default' = 1 /\ suffix' = 0
     ELSE name' = Copied(n) /\ default' = 0 /\ UNCHANGED suffix
  /\ UNCHANGED <<aead, files, reading, report, shown, history, faults>>

\* check_file_exists: whatever goes wrong reads as "no such file".
Exists(hidden) == drive \in Online /\ Target \in DOMAIN files /\ ~hidden

\* Variant: the suffix is advanced after it was written.
IncrementFilenameLate ==
  /\ suffix < Len(Digit)
  /\ suffix' = suffix + 1
  /\ name' = [i \in 0 .. NameMax |->
                IF i = Len(DefaultName) THEN Digit[IF suffix = 0 THEN 1 ELSE suffix]
                ELSE IF i = Len(DefaultName) + 1 THEN Nul ELSE name[i]]

\* Variant: the suffix is not advanced.
IncrementFilenameStuck ==
  /\ suffix < Len(Digit)
  /\ suffix' = suffix
  /\ name' = [i \in 0 .. NameMax |->
                IF i = Len(DefaultName) THEN Digit[1]
                ELSE IF i = Len(DefaultName) + 1 THEN Nul ELSE name[i]]

IncrementFilename ==
  /\ suffix < Len(Digit)
  /\ suffix' = suffix + 1
  /\ name' = [i \in 0 .. NameMax |->
                IF i = Len(DefaultName) THEN Digit[suffix']
                ELSE IF i = Len(DefaultName) + 1 THEN Nul ELSE name[i]]

\* do_save_gcm_siv @got_filename
CheckBeforeSave(hidden) ==
  /\ pc = "check" /\ cmd = "save" /\ Fault(hidden)
  /\ \/ ~Exists(hidden) /\ pc' = "write" /\ UNCHANGED <<cmd, name, suffix, report>>
     \/ Exists(hidden) /\ default = 1 /\ IncrementFilename /\ UNCHANGED <<pc, cmd, report>>
     \/ Exists(hidden) /\ default = 1 /\ suffix >= Len(Digit)
        /\ Finish("exhausted") /\ UNCHANGED <<name, suffix>>
     \/ Exists(hidden) /\ default = 0 /\ pc' = "new_name"
        /\ UNCHANGED <<cmd, name, suffix, report>>
  /\ UNCHANGED <<aead, default, drive, typed, files, reading, shown, history, commands>>

\* @prompt_new_name: no answer means save all the same.
NewName(n) ==
  /\ pc = "new_name"
  /\ IF n = <<>>
     THEN pc' = "write" /\ UNCHANGED <<name, typed>>
     ELSE pc' = "check" /\ name' = Copied(n) /\ typed' = n
  /\ UNCHANGED <<aead, suffix, default, drive, files, cmd, reading, report, shown>>
  /\ UNCHANGED <<history, count>>

\* do_load_gcm_siv @got_filename
CheckBeforeLoad(hidden) ==
  /\ pc = "check" /\ cmd = "load" /\ Fault(hidden)
  /\ IF Exists(hidden)
     THEN pc' = "open" /\ UNCHANGED <<cmd, report>>
     ELSE Finish("not_found")
  /\ UNCHANGED <<aead, naming, files, reading, shown, history, commands>>

-----------------------------------------------------------------------------
(* Saving and loading *)

\* Variant: the status is read before the ciphertext is written.
SaveFileEarlyStatus(n) ==
  /\ pc = "write" /\ drive \in Online /\ Target \notin DOMAIN files
  /\ LET text == FileText(nonce, tag, len, ct)
     IN  /\ n <= Len(text) /\ Fault(n < Len(text))
         /\ files' = [x \in DOMAIN files \cup {Target} |->
              IF x = Target THEN [data |-> SubSeq(text, 1, n), of |-> origin]
              ELSE files[x]]
         /\ Finish(IF n >= Len(text) - 2 * len THEN "save_ok" ELSE "save_error")
  /\ UNCHANGED <<aead, naming, reading, shown, history, commands>>

\* save_gcmsiv_to_disk: n characters reach the file.  The status is read
\* once, at the end; an error stays in it.
SaveFile(n) ==
  /\ pc = "write" /\ drive \in Online /\ Target \notin DOMAIN files
  /\ LET text == FileText(nonce, tag, len, ct)
     IN  /\ n <= Len(text) /\ Fault(n < Len(text))
         /\ files' = [x \in DOMAIN files \cup {Target} |->
              IF x = Target THEN [data |-> SubSeq(text, 1, n), of |-> origin]
              ELSE files[x]]
         /\ Finish(IF n = Len(text) THEN "save_ok" ELSE "save_error")
  /\ UNCHANGED <<aead, naming, reading, shown, history, commands>>

SaveRefused ==
  /\ pc = "write" /\ (drive \notin Online \/ Target \in DOMAIN files)
  /\ Finish("save_error")
  /\ UNCHANGED <<aead, naming, files, reading, shown, history, count>>

\* load_gcmsiv_from_disk opens the file; the drive will deliver a characters.
OpenFile(a) ==
  /\ pc = "open" /\ a <= Len(files[Target].data)
  /\ Fault(a < Len(files[Target].data))
  /\ pc' = "nonce" /\ pos' = 1 /\ avail' = a /\ index' = 0
  /\ UNCHANGED <<aead, naming, files, cmd, report, shown, history, commands>>

OpenFailed ==
  /\ pc = "open" /\ Fault(TRUE)
  /\ Finish("load_error")
  /\ UNCHANGED <<aead, naming, files, reading, shown, history, commands>>

ReadFailed ==
  /\ pc \in {"nonce", "tag", "length"} /\ NextItem = 0
  /\ Finish("load_error")
  /\ UNCHANGED <<aead, naming, files, reading, shown, history, count>>

\* The next item goes to byte index of a buffer of n bytes, then on to l.
Stored(buf) == [i \in DOMAIN buf |-> IF i = index THEN files[Target].data[NextItem][1] ELSE buf[i]]
Advance(n, l) ==
  /\ NextItem # 0 /\ pos' = NextItem + 1
  /\ IF index + 1 = n THEN index' = 0 /\ pc' = l ELSE index' = index + 1 /\ UNCHANGED pc

ReadNonce ==
  /\ pc = "nonce" /\ Advance(NonceLen, "tag")
  /\ nonce' = Stored(nonce) /\ origin' = Nil
  /\ UNCHANGED <<keys, len, pt, ct, dec, tag, valid, ret, naming, files, cmd, avail>>
  /\ UNCHANGED <<report, shown, sealed, count>>

ReadTag ==
  /\ pc = "tag" /\ Advance(TagLen, "length")
  /\ tag' = Stored(tag)
  /\ UNCHANGED <<keys, nonce, len, pt, ct, dec, valid, ret, naming, files, cmd, avail>>
  /\ UNCHANGED <<report, shown, history, count>>

\* Variant: the length is read and not kept.
ReadLengthIgnored ==
  /\ pc = "length" /\ Advance(1, "ct")
  /\ UNCHANGED <<aead, naming, files, cmd, avail, report, shown, history, count>>

ReadLength ==
  /\ pc = "length" /\ Advance(1, "ct")
  /\ len' = files[Target].data[NextItem][1]
  /\ UNCHANGED <<keys, nonce, pt, ct, dec, tag, valid, ret, naming, files, cmd, avail>>
  /\ UNCHANGED <<report, shown, history, count>>

ReadCt ==
  /\ pc = "ct" /\ index < len /\ NextItem # 0
  /\ ct' = Stored(ct) /\ pos' = NextItem + 1 /\ index' = index + 1
  /\ UNCHANGED <<keys, nonce, len, pt, dec, tag, valid, ret, naming, files, pc, cmd, avail>>
  /\ UNCHANGED <<report, shown, history, count>>

\* @ct_done, also reached when the file ends early.
LoadDone ==
  /\ pc = "ct" /\ (index = len \/ NextItem = 0)
  /\ Finish("load_ok")
  /\ origin' = IF index = len THEN files[Target].of ELSE Nil
  /\ UNCHANGED <<aead, naming, files, reading, shown, sealed, count>>

-----------------------------------------------------------------------------
Program ==
  \/ SealText
  \/ \E hidden \in BOOLEAN : CheckBeforeSave(hidden) \/ CheckBeforeLoad(hidden)
  \/ pc = "write" /\ \E n \in 0 .. Len(FileText(nonce, tag, len, ct)) : SaveFile(n)
  \/ SaveRefused
  \/ pc = "open" /\ \E a \in 0 .. Len(files[Target].data) : OpenFile(a)
  \/ OpenFailed \/ ReadFailed
  \/ ReadNonce \/ ReadTag \/ ReadLength \/ ReadCt \/ LoadDone

User ==
  \/ \E l \in 0 .. MaxLen, b \in [A!Index -> Text] : TypeText(l, b)
  \/ Decrypt \/ NoData
  \/ \E c \in {"save", "load"}, d \in Drive, n \in TypedName \cup {<<>>} : AskFile(c, d, n)
  \/ \E n \in TypedName \cup {<<>>} : NewName(n)

Next == Program \/ User

Spec == Init /\ [][Next]_vars
FairSpec == Spec /\ WF_vars(Program)

-----------------------------------------------------------------------------
(* Whatever was saved, half saved or half loaded before, the program never *)
(* prints as verified a text nobody sealed: a mixture of two messages in   *)
(* the buffers fails the tag (gcm_siv_ui.s:274-283).                       *)
OnlySealedShown == shown # Nil => shown \in sealed

(* When the buffers hold a sealed message, from encryption or a whole load *)
(* of a file it was saved to, decryption prints the text that was typed,   *)
(* whatever was typed, saved, loaded or refused in between                 *)
(* (gcm_siv_ui.s:543-811).                                                 *)
DecryptedIsOrigin ==
  pc = "menu" /\ origin # Nil =>
    report # "tag_fail" /\ (report = "verified" => shown = origin)

\* What load_gcmsiv_from_disk can get back from a file.
Recovered(data) == SelectSeq(SubSeq(data, 1, Len(data) - 1), LAMBDA c : c # Sep)
Items(buf, n) == [k \in 1 .. n |-> <<buf[k - 1]>>]

(* "FILE SAVED SUCCESSFULLY." is printed only when the drive has, under a  *)
(* name that was free, every byte of the message, the last one included    *)
(* though a load drops the character that comes with EOF; no other file    *)
(* changed (gcm_siv_ui.s:659-671, disk_io.s:277-284).                      *)
SaveStep ==
  pc = "write" /\ report' = "save_ok" /\ pc' = "menu" =>
    /\ Target \notin DOMAIN files
    /\ Recovered(files'[Target].data) =
         Items(nonce, NonceLen) \o Items(tag, TagLen) \o <<<<len>>>> \o Items(ct, len)
    /\ \A x \in DOMAIN files : files'[x] = files[x]

SavedMeansReadable == [][SaveStep]_vars

DefaultNames ==
  <<DefaultName>> \o [k \in 1 .. Len(Digit) |-> Append(DefaultName, Digit[k])]

(* A save without a name takes the first of the default names that is      *)
(* free, whatever drives were used before, and gives up only when none is; *)
(* a fault that hides a file from the check can only make it stop at a     *)
(* name in use, which the drive refuses (disk_io.s:108-152,                *)
(* gcm_siv_ui.s:375-411).                                                  *)
FirstFreeName ==
  /\ cmd = "save" /\ default = 1 =>
       /\ \A j \in 1 .. suffix : <<drive, DefaultNames[j]>> \in DOMAIN files
       /\ NameOf(name) = DefaultNames[suffix + 1]
       /\ pc = "write" /\ faults = 0 => Target \notin DOMAIN files
  /\ pc = "menu" /\ report = "exhausted" =>
       \A j \in DOMAIN DefaultNames : <<drive, DefaultNames[j]>> \in DOMAIN files

(* A load ends, and so does a save that need not ask for another name: the *)
(* loop over default names, and the skipping of blanks.                    *)
CommandEnds == cmd = "load" \/ (cmd = "save" /\ default = 1) ~> pc = "menu"

-----------------------------------------------------------------------------
(* copy_input_to_filename says it copies filename_buf to actual_filename   *)
(* (disk_io.s:90): the drive would see the name that was typed.            *)
NameAsTyped == pc = "check" /\ default = 0 => NameOf(name) = typed

(* "GCM-SIV DATA LOADED SUCCESSFULLY!" (strings.s:192) would mean that the *)
(* whole ciphertext was read; read_hex_char reports error or EOF with the  *)
(* carry (disk_io.s:275).                                                  *)
LoadedMeansWhole == [][pc = "ct" /\ pc' = "menu" /\ report' = "load_ok" => index = len]_vars
=============================================================================
