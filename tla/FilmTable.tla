------------------------------ MODULE FilmTable -----------------------------
(***************************************************************************)
(* Film tables (flm.py): the bytes of a .FLM file, the FilmTable that      *)
(* load_flm makes of them, what serialize_flm makes of it, and the two     *)
(* master curves.  The state machine is a program that edits one table     *)
(* with _replace and normalize_masters, saves and reloads it, and installs *)
(* it on the recorder.                                                     *)
(*                                                                         *)
(* A file is kept by its regions, not byte by byte: text as bytes, curves  *)
(* as functions of their entries (channel and pixel value), and only those *)
(* bytes of headers that the code looks into.  FilmTableProof shows that   *)
(* the regions do not overlap.                                             *)
(***************************************************************************)
EXTENDS Integers, Sequences, FiniteSets

CONSTANTS
  Entries,               \* 3 channels x CHANNEL_ENTRIES
  MaxWord,               \* 0xFFFF, the largest stored value
  NameSize, InternalSize,\* 24 and 8, the text fields of the header
  Files,                 \* the files that may be on disk at first
  Names, Curves, Scales, \* what an edit may put into a table
  Donors,                \* sets that an edit may copy over another
  MaxEdits,              \* bound on the number of edits
  None                   \* Python's None

Word  == 0..MaxWord
Curve == [Entries -> Word]

ASSUME FilmTableAssumption ==
  /\ MaxWord \in Nat /\ NameSize \in Nat \ {0} /\ InternalSize \in Nat
  /\ Curves \subseteq Curve /\ Donors \subseteq 0..9 /\ MaxEdits \in Nat
  /\ None \notin Scales

-----------------------------------------------------------------------------
(* Layout of the file, in bytes.                                           *)
FLM_FILE_SIZE    == 15639
FILE_HEADER_SIZE == 189
LUT_DATA_SIZE    == 1536
SET_HEADER_SIZE  == 10
CHANNEL_ENTRIES  == 256

LutSets == 0..9

(* _lut_set_offsets: set 0 follows the file header without one of its own. *)
HeaderOffset(i) ==
  FILE_HEADER_SIZE + LUT_DATA_SIZE + (i - 1) * (SET_HEADER_SIZE + LUT_DATA_SIZE)
DataOffset(i) ==
  IF i = 0 THEN FILE_HEADER_SIZE ELSE HeaderOffset(i) + SET_HEADER_SIZE
SetOffset(i) == IF i = 0 THEN DataOffset(i) ELSE HeaderOffset(i)
ChannelOffset(i, c) == DataOffset(i) + c * CHANNEL_ENTRIES * 2

-----------------------------------------------------------------------------
(* Text: a byte is NUL, ASCII, or above 0x7F; a character of a Python      *)
(* string is ASCII or not, U+FFFD being what decoding makes of a byte that *)
(* is not ASCII.                                                           *)
NUL   == "NUL"
Ascii == {"a", "b", "?"}
Bytes == Ascii \cup {NUL, "0xE9"}
Characters == Ascii \cup {"U+FFFD", "U+00E9"}

(* The number of bytes before the first NUL, one for each prefix without.  *)
Until(field) ==
  Cardinality({n \in 1..Len(field) : \A k \in 1..n : field[k] # NUL})
Decode(field) ==
  [k \in 1..Until(field) |-> IF field[k] \in Ascii THEN field[k] ELSE "U+FFFD"]

(* encode("ascii", errors="replace"), cut to n bytes, padded with NUL.     *)
Encode(text, n, size) ==
  [k \in 1..size |-> IF k > n \/ k > Len(text) THEN NUL
                     ELSE IF text[k] \in Ascii THEN text[k] ELSE "?"]

-----------------------------------------------------------------------------
(* The flags byte: bit 4, bits 2-3, and the others together.               *)
FlagBytes == [bw : BOOLEAN, filter : 0..3, others : {0, 1}]

(* A decrypted file.  `extended` is the extended header with the internal  *)
(* name and the scales of set 0 in it; the headers of sets 1-9 are kept by *)
(* their scales.  The rest of each is copied as it is.                     *)
File == [name : [1..NameSize -> Bytes], flags : FlagBytes,
         extended : [internal : [1..InternalSize -> Bytes], scale : Scales],
         headers : [1..9 -> Scales], curves : [LutSets -> Curve]]

ASSUME FilesAssumption == Files \subseteq File /\ Names \subseteq Seq(Characters)

(* The cipher as a constructor with its inverse.                           *)
Encrypt(file) == [encrypted |-> file]
Decrypt(raw)  == raw.encrypted
Raw == [encrypted : File]

(* load_flm of the bytes of a file of the right size.                      *)
Parse(raw) ==
  LET dec == Decrypt(raw)
  IN  [name           |-> Decode(dec.name),
       internal_name  |-> Decode(dec.extended.internal),
       is_bw          |-> dec.flags.bw,
       bw_filter      |-> IF dec.flags.bw THEN dec.flags.filter ELSE 0,
       flags          |-> dec.flags,
       raw_extended   |-> dec.extended,
       lut_sets       |-> [i \in LutSets |->
          [values |-> dec.curves[i],
           scale  |-> IF i = 0 THEN dec.extended.scale ELSE dec.headers[i],
           header |-> IF i = 0 THEN None ELSE dec.headers[i]]],
       encrypted_data |-> raw]

(* serialize_flm raises ValueError for a table it cannot lay out.          *)
Serializable(table) == \A i \in 1..9 : table.lut_sets[i].header # None

(* Mutants: no room for the NUL; a mask that is off by one; the header of  *)
(* the next set.                                                           *)
NameFieldFull(text) == Encode(text, NameSize, NameSize)
StoredWordShort(value) == value % MaxWord
HeaderFieldNext(table, i) == table.lut_sets[IF i = 9 THEN 9 ELSE i + 1].header

(* A name leaves room for the NUL that the firmware stops at.              *)
NameField(text) == Encode(text, NameSize - 1, NameSize)
InternalField(text) == Encode(text, InternalSize, InternalSize)

FlagsByte(table) ==
  IF table.is_bw THEN [bw |-> TRUE, filter |-> table.bw_filter, others |-> 0]
                 ELSE table.flags

StoredWord(value) == value % (MaxWord + 1)

(* Scales are written with the headers, as they were read.                 *)
HeaderField(table, i) == table.lut_sets[i].header

Serialize(table) ==
  Encrypt(
    [name     |-> NameField(table.name),
     flags    |-> FlagsByte(table),
     extended |-> [table.raw_extended EXCEPT
                     !.internal = InternalField(table.internal_name)],
     headers  |-> [i \in 1..9 |-> HeaderField(table, i)],
     curves   |-> [i \in LutSets |->
                    [e \in Entries |->
                       StoredWord(table.lut_sets[i].values[e])]]])

-----------------------------------------------------------------------------
(* The master curves: sets 7 and 9.                                        *)
MasterACopies == {0, 2, 4, 6, 7}
MasterAHalves == {1, 3, 5}

CeilHalf(values) == [e \in Entries |-> (values[e] + 1) \div 2]
(* Mutant: 2 x Master B without the clamp.                                 *)
DoubleUnclamped(values) == [e \in Entries |-> values[e] * 2]

DoubleClamped(values) ==
  [e \in Entries |-> IF values[e] * 2 < MaxWord THEN values[e] * 2 ELSE MaxWord]

(* What normalize_masters gives set i, and validate_masters compares with. *)
Derived(sets, i) ==
  CASE i \in MasterACopies -> sets[7].values
    [] i \in MasterAHalves -> CeilHalf(sets[7].values)
    [] i = 8               -> DoubleClamped(sets[9].values)
    [] i = 9               -> sets[9].values

Normalize(table) ==
  [table EXCEPT !.lut_sets =
     [i \in LutSets |-> [@[i] EXCEPT !.values = Derived(table.lut_sets, i)]]]

(* The sets validate_masters reports.                                      *)
Issues(table) ==
  {i \in LutSets : table.lut_sets[i].values # Derived(table.lut_sets, i)}
=============================================================================
