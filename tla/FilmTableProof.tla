--------------------------- MODULE FilmTableProof ---------------------------
(***************************************************************************)
(* Theorems about film tables, for every number of curve entries, word     *)
(* size, field size and set of files.                                      *)
(***************************************************************************)
EXTENDS FilmEditor, FiniteSetTheorems, TLAPS

(* The regions _lut_set_offsets computes follow one another without gap or *)
(* overlap from the end of the file header to the end of the file, and the *)
(* three channels fill the data of a set (flm.py 171-222).                 *)
THEOREM Layout ==
  /\ SetOffset(0) = FILE_HEADER_SIZE
  /\ \A i \in 0..8 : DataOffset(i) + LUT_DATA_SIZE = SetOffset(i + 1)
  /\ DataOffset(9) + LUT_DATA_SIZE = FLM_FILE_SIZE
  /\ \A i \in LutSets : /\ ChannelOffset(i, 0) = DataOffset(i)
                        /\ ChannelOffset(i, 3) = DataOffset(i) + LUT_DATA_SIZE
BY SMT DEF SetOffset, DataOffset, HeaderOffset, ChannelOffset, FILE_HEADER_SIZE,
   LUT_DATA_SIZE, SET_HEADER_SIZE, FLM_FILE_SIZE, CHANNEL_ENTRIES, LutSets

-----------------------------------------------------------------------------
(* Operators of the master curves stay within 16-bit curves.               *)
LEMMA CurveFacts ==
  ASSUME NEW v \in Curve
  PROVE  /\ CeilHalf(v) \in Curve
         /\ DoubleClamped(v) \in Curve
         /\ \A e \in Entries : StoredWord(v[e]) = v[e]
<1>1. MaxWord \in Nat
  BY FilmTableAssumption
<1>2. \A w \in Word : w * 2 \in Nat /\ (w + 1) \div 2 \in Word /\ w % (MaxWord + 1) = w
  BY <1>1, SMT DEF Word
<1>3. \A e \in Entries : v[e] \in Word
  BY DEF Curve
<1>4. CeilHalf(v) \in Curve
  BY <1>2, <1>3 DEF CeilHalf, Curve
<1>5. \A w \in Word : (IF w * 2 < MaxWord THEN w * 2 ELSE MaxWord) \in Word
  BY <1>1, SMT DEF Word
<1>6. DoubleClamped(v) \in Curve
  BY <1>3, <1>5 DEF DoubleClamped, Curve
<1>7. QED
  BY <1>2, <1>3, <1>4, <1>6 DEF StoredWord

LEMMA DerivedIsCurve ==
  ASSUME NEW sets \in [LutSets -> LutSet], NEW i \in LutSets
  PROVE  Derived(sets, i) \in Curve
<1>1. sets[7].values \in Curve /\ sets[9].values \in Curve
  BY DEF LutSets, LutSet
<1>2. i \in MasterACopies \/ i \in MasterAHalves \/ i = 8 \/ i = 9
  BY DEF LutSets, MasterACopies, MasterAHalves
<1>3. QED
  BY <1>1, <1>2, CurveFacts DEF Derived, MasterACopies, MasterAHalves

(* Text fields: what is decoded is text, what is encoded fills its field.  *)
LEMMA DecodeType ==
  ASSUME NEW size \in Nat, NEW field \in [1..size -> Bytes]
  PROVE  Decode(field) \in Seq(Characters)
<1>1. field \in Seq(Bytes) /\ Len(field) = size
  OBVIOUS
<1> DEFINE P == {n \in 1..Len(field) : \A k \in 1..n : field[k] # NUL}
<1>2. IsFiniteSet(1..size) /\ Cardinality(1..size) = size
  BY FS_Interval
<1>3. P \subseteq 1..size
  BY <1>1
<1>4. Cardinality(P) \in Nat /\ Cardinality(P) =< size
  BY <1>2, <1>3, FS_Subset, FS_CardinalityType
<1>5. Until(field) \in 0..size
  BY <1>4 DEF Until
<1>6. \A k \in 1..Until(field) :
        (IF field[k] \in Ascii THEN field[k] ELSE "U+FFFD") \in Characters
  BY DEF Characters
<1>7. QED
  BY <1>5, <1>6 DEF Decode

LEMMA EncodeType ==
  ASSUME NEW size, NEW n, NEW text
  PROVE  Encode(text, n, size) \in [1..size -> Bytes]
BY DEF Encode, Bytes, Ascii, NUL

LEMMA ParseType ==
  ASSUME NEW raw \in Raw
  PROVE  Parse(raw) \in FilmTables
<1> DEFINE dec == raw.encrypted
<1>1. dec \in File
  BY DEF Raw
<1>2. /\ dec.name \in [1..NameSize -> Bytes]
      /\ dec.flags \in FlagBytes
      /\ dec.extended \in [internal : [1..InternalSize -> Bytes], scale : Scales]
      /\ dec.headers \in [1..9 -> Scales]
      /\ dec.curves \in [LutSets -> Curve]
  BY <1>1 DEF File
<1>3. /\ dec.extended.internal \in [1..InternalSize -> Bytes]
      /\ dec.extended.scale \in Scales
  BY <1>2
<1>4. Decode(dec.name) \in Seq(Characters)
  BY <1>2, DecodeType, FilmTableAssumption
<1>5. Decode(dec.extended.internal) \in Seq(Characters)
  BY <1>3, DecodeType, FilmTableAssumption
<1>6. /\ dec.flags.bw \in BOOLEAN
      /\ (IF dec.flags.bw THEN dec.flags.filter ELSE 0) \in 0..3
  BY <1>2 DEF FlagBytes
<1> DEFINE sets == [i \in LutSets |->
             [values |-> dec.curves[i],
              scale  |-> IF i = 0 THEN dec.extended.scale ELSE dec.headers[i],
              header |-> IF i = 0 THEN None ELSE dec.headers[i]]]
<1>7. ASSUME NEW i \in LutSets
      PROVE  sets[i] \in LutSet
  <2>1. i # 0 => i \in 1..9
    BY DEF LutSets
  <2>2. dec.curves[i] \in Curve
    BY <1>2
  <2>3. (IF i = 0 THEN dec.extended.scale ELSE dec.headers[i]) \in Scales
    BY <1>2, <1>3, <2>1
  <2>4. (IF i = 0 THEN None ELSE dec.headers[i]) \in Scales \cup {None}
    BY <1>2, <2>1
  <2>5. QED
    BY <2>2, <2>3, <2>4 DEF LutSet
<1>8. sets \in [LutSets -> LutSet]
  BY <1>7
<1>9. QED
  BY <1>2, <1>4, <1>5, <1>6, <1>8 DEF Parse, Decrypt, FilmTables

LEMMA SerializeType ==
  ASSUME NEW t \in FilmTables, Serializable(t)
  PROVE  Serialize(t) \in Raw
<1>1. /\ t.name \in Seq(Characters) /\ t.internal_name \in Seq(Characters)
      /\ t.raw_extended \in [internal : [1..InternalSize -> Bytes], scale : Scales]
      /\ t.lut_sets \in [LutSets -> LutSet]
      /\ t.flags \in FlagBytes /\ t.is_bw \in BOOLEAN /\ t.bw_filter \in 0..3
  BY DEF FilmTables
<1>2. NameField(t.name) \in [1..NameSize -> Bytes]
  BY EncodeType DEF NameField
<1>3. InternalField(t.internal_name) \in [1..InternalSize -> Bytes]
  BY EncodeType DEF InternalField
<1>4. FlagsByte(t) \in FlagBytes
  BY <1>1 DEF FlagsByte, FlagBytes
<1>5. [t.raw_extended EXCEPT !.internal = InternalField(t.internal_name)]
        \in [internal : [1..InternalSize -> Bytes], scale : Scales]
  BY <1>1, <1>3
<1>6. \A i \in LutSets : t.lut_sets[i].values \in Curve
                       /\ t.lut_sets[i].header \in Scales \cup {None}
  BY <1>1 DEF LutSet
<1>7. \A i \in 1..9 : HeaderField(t, i) \in Scales
  BY <1>6 DEF HeaderField, Serializable, LutSets
<1>8. \A i \in LutSets :
        [e \in Entries |-> StoredWord(t.lut_sets[i].values[e])] \in Curve
  BY <1>6, CurveFacts DEF Curve
<1>9. QED
  BY <1>2, <1>4, <1>5, <1>7, <1>8 DEF Serialize, Encrypt, Raw, File

LEMMA NormalizeType ==
  ASSUME NEW t \in FilmTables
  PROVE  /\ Normalize(t) \in FilmTables
         /\ Normalize(t).lut_sets =
              [i \in LutSets |->
                 [t.lut_sets[i] EXCEPT !.values = Derived(t.lut_sets, i)]]
<1>1. t.lut_sets \in [LutSets -> LutSet]
  BY DEF FilmTables
<1> DEFINE sets == [i \in LutSets |->
                     [t.lut_sets[i] EXCEPT !.values = Derived(t.lut_sets, i)]]
<1>2. sets \in [LutSets -> LutSet]
  <2> SUFFICES ASSUME NEW i \in LutSets PROVE sets[i] \in LutSet
    OBVIOUS
  <2>1. Derived(t.lut_sets, i) \in Curve
    BY <1>1, DerivedIsCurve
  <2>2. t.lut_sets[i] \in LutSet
    BY <1>1
  <2>3. QED
    BY <2>1, <2>2 DEF LutSet
<1>3. Normalize(t) = [t EXCEPT !.lut_sets = sets]
  BY DEF Normalize
<1>4. QED
  BY <1>2, <1>3 DEF FilmTables

-----------------------------------------------------------------------------
(* The tables and files of the editor.                                     *)
LEMMA EditedIsTable ==
  ASSUME TypeOK, table # None,
         NEW t, Become(t), NormalizeMasters \/ Replace, t \in FilmTables
  PROVE  TypeOK'
<1>1. edits' \in 0..MaxEdits
  BY FilmTableAssumption DEF TypeOK, Become
<1>2. QED
  BY <1>1 DEF TypeOK, Become

LEMMA ReplaceType ==
  ASSUME TypeOK, Replace
  PROVE  TypeOK'
<1>1. table # None /\ table \in FilmTables
  BY DEF TypeOK, Replace
<1>2. table.lut_sets \in [LutSets -> LutSet]
  BY <1>1 DEF FilmTables
<1>3. ASSUME NEW n \in Names
      PROVE  /\ [table EXCEPT !.name = n] \in FilmTables
             /\ [table EXCEPT !.internal_name = n] \in FilmTables
  BY <1>1, FilesAssumption DEF FilmTables
<1>4. ASSUME NEW bw \in BOOLEAN, NEW f \in 0..3
      PROVE  [table EXCEPT !.is_bw = bw, !.bw_filter = f] \in FilmTables
  BY <1>1 DEF FilmTables
<1>5. ASSUME NEW i \in LutSets, NEW set \in LutSet
      PROVE  [table EXCEPT !.lut_sets[i] = set] \in FilmTables
  <2>1. [table.lut_sets EXCEPT ![i] = set] \in [LutSets -> LutSet]
    BY <1>2
  <2>2. QED
    BY <1>1, <2>1 DEF FilmTables
<1>6. ASSUME NEW i \in LutSets, NEW c \in Curves
      PROVE  [table EXCEPT !.lut_sets[i].values = c] \in FilmTables
  <2>1. table.lut_sets[i] \in LutSet /\ c \in Curve
    BY <1>2, FilmTableAssumption
  <2>2. [table.lut_sets[i] EXCEPT !.values = c] \in LutSet
    BY <2>1 DEF LutSet
  <2>3. QED
    BY <1>5, <2>2
<1>7. ASSUME NEW i \in LutSets, NEW s \in Scales
      PROVE  [table EXCEPT !.lut_sets[i].scale = s] \in FilmTables
  <2>1. table.lut_sets[i] \in LutSet
    BY <1>2
  <2>2. [table.lut_sets[i] EXCEPT !.scale = s] \in LutSet
    BY <2>1 DEF LutSet
  <2>3. QED
    BY <1>5, <2>2
<1>8. ASSUME NEW i \in LutSets, NEW j \in Donors
      PROVE  [table EXCEPT !.lut_sets[i] = table.lut_sets[j]] \in FilmTables
  <2>1. table.lut_sets[j] \in LutSet
    BY <1>2, FilmTableAssumption DEF LutSets
  <2>2. QED
    BY <1>5, <2>1
<1>9. \E t \in FilmTables : Become(t)
  BY <1>3, <1>4, <1>6, <1>7, <1>8 DEF Replace
<1>10. QED
  BY <1>1, <1>9, EditedIsTable

LEMMA TypeStep ==
  ASSUME TypeOK, [Next]_vars
  PROVE  TypeOK'
<1>1. CASE LoadFlm
  <2>1. disk \in Raw
    BY <1>1 DEF TypeOK, LoadFlm
  <2>2. table' \in FilmTables
    BY <1>1, <2>1, ParseType DEF LoadFlm
  <2>3. QED
    BY <1>1, <2>2 DEF TypeOK, LoadFlm
<1>2. CASE Replace
  BY <1>2, ReplaceType
<1>3. CASE NormalizeMasters
  <2>1. table # None /\ table \in FilmTables /\ Become(Normalize(table))
    BY <1>3 DEF TypeOK, NormalizeMasters
  <2>2. QED
    BY <1>3, <2>1, NormalizeType, EditedIsTable
<1>4. CASE SaveFlm
  <2>1. table # None /\ table \in FilmTables /\ Serializable(table)
    BY <1>4 DEF TypeOK, SaveFlm
  <2>2. Serialize(table) \in Raw
    BY <2>1, SerializeType
  <2>3. QED
    BY <1>4, <2>1, <2>2 DEF TypeOK, SaveFlm
<1>5. CASE Install
  <2>1. table \in FilmTables
    BY <1>5 DEF TypeOK, Install
  <2>2. table.encrypted_data \in Raw
    BY <2>1 DEF FilmTables
  <2>3. QED
    BY <1>5, <2>2 DEF TypeOK, Install
<1>6. CASE UNCHANGED vars
  BY <1>6 DEF TypeOK, vars
<1>7. QED
  BY <1>1, <1>2, <1>3, <1>4, <1>5, <1>6 DEF Next

LEMMA TypeInit ==
  ASSUME Init
  PROVE  TypeOK
<1>1. \A f \in Files : Encrypt(f) \in Raw
  BY FilesAssumption DEF Encrypt, Raw
<1>2. disk \in Raw
  BY <1>1 DEF Init
<1>3. edits \in 0..MaxEdits
  BY FilmTableAssumption DEF Init
<1>4. QED
  BY <1>2, <1>3 DEF Init, TypeOK

(* No sequence of loads, edits, normalisations and saves makes a curve     *)
(* value that does not fit its 16 bits, a header of another kind, or a     *)
(* flags byte out of range.                                                *)
THEOREM TablesAreTables == Spec => []TypeOK
<1>1. Init => TypeOK
  BY TypeInit
<1>2. TypeOK /\ [Next]_vars => TypeOK'
  BY TypeStep
<1>3. QED
  BY <1>1, <1>2, PTL DEF Spec

-----------------------------------------------------------------------------
(* What load_flm finds in the bytes serialize_flm made.                    *)
LEMMA CurvesReturn ==
  ASSUME NEW t \in FilmTables
  PROVE  Values(Parse(Serialize(t))) = Values(t)
<1>1. t.lut_sets \in [LutSets -> LutSet]
  BY DEF FilmTables
<1>2. ASSUME NEW i \in LutSets
      PROVE  Parse(Serialize(t)).lut_sets[i].values = t.lut_sets[i].values
  <2>1. t.lut_sets[i].values \in Curve
    BY <1>1 DEF LutSet
  <2>2. [e \in Entries |-> StoredWord(t.lut_sets[i].values[e])] = t.lut_sets[i].values
    BY <2>1, CurveFacts DEF Curve
  <2>3. QED
    BY <2>2 DEF Parse, Serialize, Encrypt, Decrypt
<1>3. QED
  BY <1>2 DEF Values

(* The masters stay, and the derived sets are functions of them alone.     *)
LEMMA NormalizeFacts ==
  ASSUME NEW t \in FilmTables
  PROVE  /\ Issues(Normalize(t)) = {}
         /\ Normalize(Normalize(t)) = Normalize(t)
         /\ Normalize(t).lut_sets[7] = t.lut_sets[7]
         /\ Normalize(t).lut_sets[9] = t.lut_sets[9]
<1> DEFINE n == Normalize(t)
<1>1. n \in FilmTables
  BY NormalizeType
<1>2. /\ t.lut_sets \in [LutSets -> LutSet]
      /\ n.lut_sets \in [LutSets -> LutSet]
  BY <1>1 DEF FilmTables
<1>3. ASSUME NEW i \in LutSets
      PROVE  n.lut_sets[i] = [t.lut_sets[i] EXCEPT !.values = Derived(t.lut_sets, i)]
  BY NormalizeType
<1>4. ASSUME NEW i \in LutSets
      PROVE  n.lut_sets[i].values = Derived(t.lut_sets, i)
  <2>1. t.lut_sets[i] \in LutSet
    BY <1>2
  <2>2. QED
    BY <1>3, <2>1 DEF LutSet
<1>5. /\ Derived(t.lut_sets, 7) = t.lut_sets[7].values
      /\ Derived(t.lut_sets, 9) = t.lut_sets[9].values
  BY DEF Derived, MasterACopies, MasterAHalves
<1>6. 7 \in LutSets /\ 9 \in LutSets
  BY DEF LutSets
<1>7. n.lut_sets[7] = t.lut_sets[7]
  <2>1. t.lut_sets[7] \in LutSet
    BY <1>2, <1>6
  <2>2. QED
    BY <1>3, <1>5, <1>6, <2>1 DEF LutSet
<1>8. n.lut_sets[9] = t.lut_sets[9]
  <2>1. t.lut_sets[9] \in LutSet
    BY <1>2, <1>6
  <2>2. QED
    BY <1>3, <1>5, <1>6, <2>1 DEF LutSet
<1>9. \A i \in LutSets : Derived(n.lut_sets, i) = Derived(t.lut_sets, i)
  BY <1>7, <1>8 DEF Derived
<1>10. Issues(n) = {}
  BY <1>4, <1>9 DEF Issues
<1>11. ASSUME NEW i \in LutSets
       PROVE  [n.lut_sets[i] EXCEPT !.values = Derived(n.lut_sets, i)] = n.lut_sets[i]
  <2>1. n.lut_sets[i] \in LutSet
    BY <1>2
  <2>2. n.lut_sets[i].values = Derived(n.lut_sets, i)
    BY <1>4, <1>9
  <2>3. QED
    BY <2>1, <2>2 DEF LutSet
<1>12. Normalize(n).lut_sets = n.lut_sets
  <2>1. Normalize(n).lut_sets =
          [i \in LutSets |-> [n.lut_sets[i] EXCEPT !.values = Derived(n.lut_sets, i)]]
    BY <1>1, NormalizeType
  <2>2. QED
    BY <1>2, <1>11, <2>1
<1>13. Normalize(n) = [n EXCEPT !.lut_sets = n.lut_sets]
  <2>1. [i \in LutSets |-> [n.lut_sets[i] EXCEPT !.values = Derived(n.lut_sets, i)]]
          = n.lut_sets
    BY <1>2, <1>11
  <2>2. QED
    BY <2>1 DEF Normalize
<1>14. Normalize(n) = n
  BY <1>1, <1>13 DEF FilmTables
<1>15. QED
  BY <1>7, <1>8, <1>10, <1>14

LEMMA IssuesOfValues ==
  ASSUME NEW t, NEW u, Values(t) = Values(u)
  PROVE  Issues(t) = Issues(u)
<1>1. \A i \in LutSets : t.lut_sets[i].values = u.lut_sets[i].values
  BY DEF Values
<1>2. t.lut_sets[7].values = u.lut_sets[7].values
      /\ t.lut_sets[9].values = u.lut_sets[9].values
  BY <1>1 DEF LutSets
<1>3. \A i \in LutSets : Derived(t.lut_sets, i) = Derived(u.lut_sets, i)
  BY <1>2 DEF Derived
<1>4. QED
  BY <1>1, <1>3 DEF Issues

(* Whatever was edited, a normalised table validates, in memory and after  *)
(* a save and a load; normalising keeps both masters and is idempotent     *)
(* (normalize_masters against validate_masters and serialize_flm).         *)
THEOREM NormalizeTheorem == Spec => []NormalizeConforms
<1>1. ASSUME TypeOK PROVE NormalizeConforms
  <2> SUFFICES ASSUME table # None
               PROVE  NormalizeConforms
    BY DEF NormalizeConforms
  <2> DEFINE n == Normalize(table)
  <2>1. table \in FilmTables
    BY <1>1 DEF TypeOK
  <2>2. n \in FilmTables
    BY <2>1, NormalizeType
  <2>3. Issues(Parse(Serialize(n))) = Issues(n)
    BY <2>2, CurvesReturn, IssuesOfValues
  <2>4. QED
    BY <2>1, <2>3, NormalizeFacts DEF NormalizeConforms
<1>2. QED
  BY <1>1, TablesAreTables, PTL

-----------------------------------------------------------------------------
(* The bytes a table carries along are its own until it is changed.        *)
Fresh ==
  table # None /\ ~changed => Values(Parse(table.encrypted_data)) = Values(table)

(* install uploads the bytes that were loaded: they hold the table's       *)
(* curves as long as nobody made a changed copy of it.                     *)
THEOREM InstallTheorem == Spec => LoadedIsInstalled
<1>1. Init => Fresh
  BY DEF Init, Fresh
<1>2. ASSUME Fresh, [Next]_vars PROVE Fresh'
  <2>1. CASE LoadFlm
    <3>1. table' = Parse(disk)
      BY <2>1 DEF LoadFlm
    <3>2. table'.encrypted_data = disk
      BY <3>1 DEF Parse
    <3>3. QED
      BY <3>1, <3>2 DEF Fresh, Values
  <2>2. CASE Replace
    BY <2>2 DEF Replace, Become, Fresh
  <2>3. CASE NormalizeMasters
    BY <2>3 DEF NormalizeMasters, Become, Fresh
  <2>4. CASE SaveFlm \/ Install \/ UNCHANGED vars
    BY <1>2, <2>4 DEF SaveFlm, Install, vars, Fresh, Values
  <2>5. QED
    BY <1>2, <2>1, <2>2, <2>3, <2>4 DEF Next
<1>3. Fresh /\ [Next]_vars =>
        [Install /\ ~changed => Values(Parse(slot')) = Values(table)]_vars
  BY DEF Fresh, Install
<1>4. QED
  BY <1>1, <1>2, <1>3, PTL DEF Spec, LoadedIsInstalled

-----------------------------------------------------------------------------
(* Text fields survive the disk.                                           *)
LEMMA FieldFacts ==
  ASSUME NEW size \in Nat, NEW n \in 0..size, NEW text \in Seq(Characters),
         NEW L \in Nat, L = (IF Len(text) < n THEN Len(text) ELSE n)
  PROVE  /\ Decode(Encode(text, n, size)) =
              [k \in 1..L |-> IF text[k] \in Ascii THEN text[k] ELSE "?"]
         /\ Encode(Decode(Encode(text, n, size)), n, size) = Encode(text, n, size)
<1> DEFINE field == Encode(text, n, size)
           back  == [k \in 1..L |-> IF text[k] \in Ascii THEN text[k] ELSE "?"]
           P     == {m \in 1..Len(field) : \A k \in 1..m : field[k] # NUL}
<1>1. Len(text) \in Nat /\ L =< n /\ L =< Len(text) /\ L =< size
  OBVIOUS
<1>2. field \in Seq(Bytes) /\ Len(field) = size
  BY EncodeType
<1>3. ASSUME NEW k \in 1..L
      PROVE  field[k] = back[k] /\ back[k] \in Ascii /\ field[k] # NUL
  <2>1. field[k] = back[k]
    BY <1>1 DEF Encode
  <2>2. back[k] \in Ascii
    BY DEF Ascii
  <2>3. QED
    BY <2>1, <2>2 DEF Ascii, NUL
<1>4. ASSUME NEW k \in 1..size, k > L
      PROVE  field[k] = NUL
  BY <1>1, <1>4 DEF Encode
<1>5. P = 1..L
  <2>1. ASSUME NEW m \in 1..L PROVE m \in P
    <3>1. m \in 1..Len(field) /\ \A k \in 1..m : k \in 1..L
      BY <1>1, <1>2
    <3> HIDE DEF field
    <3>2. QED
      BY <1>3, <3>1
  <2>2. ASSUME NEW m \in P PROVE m \in 1..L
    <3>1. m \in 1..size /\ field[m] # NUL
      BY <1>2
    <3>2. QED
      BY <1>4, <3>1
  <2>3. QED
    BY <2>1, <2>2
<1>6. Until(field) = L
  <2>1. Cardinality(1..L) = L
    BY FS_Interval
  <2>2. QED
    BY <1>5, <2>1 DEF Until
<1>7. Decode(field) = back
  <2>1. \A k \in 1..L :
          (IF field[k] \in Ascii THEN field[k] ELSE "U+FFFD") = back[k]
    BY <1>3
  <2> HIDE DEF field
  <2>2. QED
    BY <1>6, <2>1 DEF Decode
<1>8. Encode(back, n, size) = field
  <2>1. Len(back) = L
    OBVIOUS
  <2>2. ASSUME NEW k \in 1..size
        PROVE  Encode(back, n, size)[k] = field[k]
    <3>1. CASE k =< L
      <4>1. k \in 1..L /\ ~(k > n) /\ ~(k > Len(back))
        BY <1>1, <2>1, <3>1
      <4> HIDE DEF back, field
      <4>2. Encode(back, n, size)[k] = IF back[k] \in Ascii THEN back[k] ELSE "?"
        BY <4>1 DEF Encode
      <4>3. QED
        BY <1>3, <4>1, <4>2
    <3>2. CASE k > L
      <4>1. k > n \/ k > Len(back)
        BY <2>1, <3>2
      <4>2. Encode(back, n, size)[k] = NUL
        <5> HIDE DEF back
        <5>1. QED
          BY <4>1 DEF Encode
      <4>3. QED
        BY <1>4, <3>2, <4>2
    <3>3. QED
      BY <1>1, <3>1, <3>2
  <2>3. Encode(back, n, size) \in [1..size -> Bytes] /\ field \in [1..size -> Bytes]
    BY EncodeType
  <2> HIDE DEF back, field
  <2>4. QED
    BY <2>2, <2>3
<1>9. QED
  BY <1>7, <1>8

LEMMA TextReturns ==
  ASSUME NEW size \in Nat, NEW n \in 0..size, NEW text \in Seq(Characters),
         Len(text) =< n, InAscii(text)
  PROVE  Decode(Encode(text, n, size)) = text
<1>1. Len(text) \in Nat /\ Len(text) = (IF Len(text) < n THEN Len(text) ELSE n)
  OBVIOUS
<1>2. Decode(Encode(text, n, size)) =
        [k \in 1..Len(text) |-> IF text[k] \in Ascii THEN text[k] ELSE "?"]
  BY <1>1, FieldFacts
<1>3. \A k \in 1..Len(text) : text[k] \in Ascii
  BY DEF InAscii
<1>4. QED
  BY <1>2, <1>3

(* A file saved whole is the serialised table, of which the rest follows.  *)
DiskIsSaved == IsSaved => Serializable(saved) /\ disk = Serialize(saved)

THEOREM DiskTheorem == Spec => [](TypeOK /\ DiskIsSaved)
<1>1. Init => DiskIsSaved
  BY DEF Init, DiskIsSaved, IsSaved
<1>2. ASSUME DiskIsSaved, [Next]_vars PROVE DiskIsSaved'
  <2>1. CASE SaveFlm
    BY <1>2, <2>1 DEF SaveFlm, DiskIsSaved, IsSaved
  <2>2. CASE UNCHANGED <<disk, saved>>
    BY <1>2, <2>2 DEF DiskIsSaved, IsSaved
  <2>3. QED
    BY <1>2, <2>1, <2>2 DEF Next, vars, LoadFlm, Replace, NormalizeMasters,
       Become, Install
<1>3. QED
  BY <1>1, <1>2, TablesAreTables, PTL DEF Spec

(* Every edit that fits its field comes back from disk.                    *)
THEOREM SaveTheorem == Spec => []SavedIsLoaded
<1>1. ASSUME TypeOK, DiskIsSaved PROVE SavedIsLoaded
  <2> SUFFICES ASSUME IsSaved PROVE SavedIsLoaded
    BY DEF SavedIsLoaded
  <2> DEFINE t == Parse(disk)
  <2>1. saved \in FilmTables /\ disk = Serialize(saved)
    BY <1>1 DEF TypeOK, DiskIsSaved, IsSaved
  <2>2. saved.name \in Seq(Characters) /\ saved.internal_name \in Seq(Characters)
        /\ saved.is_bw \in BOOLEAN /\ saved.bw_filter \in 0..3
    BY <2>1 DEF FilmTables
  <2>3. Values(t) = Values(saved)
    BY <2>1, CurvesReturn
  <2>4. ASSUME InAscii(saved.name), Len(saved.name) < NameSize
        PROVE  t.name = saved.name
    <3>1. NameSize \in Nat /\ NameSize - 1 \in 0..NameSize
          /\ Len(saved.name) =< NameSize - 1
      BY <2>2, <2>4, FilmTableAssumption
    <3>2. Decode(NameField(saved.name)) = saved.name
      BY <2>2, <2>4, <3>1, TextReturns DEF NameField
    <3>3. t.name = Decode(NameField(saved.name))
      BY <2>1 DEF Parse, Serialize, Encrypt, Decrypt
    <3>4. QED
      BY <3>2, <3>3
  <2>5. ASSUME InAscii(saved.internal_name), Len(saved.internal_name) =< InternalSize
        PROVE  t.internal_name = saved.internal_name
    <3>1. InternalSize \in Nat /\ InternalSize \in 0..InternalSize
      BY FilmTableAssumption
    <3>2. Decode(InternalField(saved.internal_name)) = saved.internal_name
      BY <2>2, <2>5, <3>1, TextReturns DEF InternalField
    <3>3. t.internal_name = Decode(InternalField(saved.internal_name))
      <4>1. saved.raw_extended \in [internal : [1..InternalSize -> Bytes], scale : Scales]
        BY <2>1 DEF FilmTables
      <4>2. [saved.raw_extended EXCEPT !.internal = InternalField(saved.internal_name)].internal
              = InternalField(saved.internal_name)
        BY <4>1
      <4>3. QED
        BY <2>1, <4>2 DEF Parse, Serialize, Encrypt, Decrypt
    <3>4. QED
      BY <3>2, <3>3
  <2>6. saved.is_bw => t.is_bw /\ t.bw_filter = saved.bw_filter
    BY <2>1, <2>2 DEF Parse, Serialize, Encrypt, Decrypt, FlagsByte
  <2>7. QED
    BY <2>3, <2>4, <2>5, <2>6 DEF SavedIsLoaded
<1>2. QED
  BY <1>1, DiskTheorem, PTL

(* The name of a saved file always ends inside its field.                  *)
THEOREM NameTheorem == Spec => []NameEnds
<1>1. ASSUME DiskIsSaved PROVE NameEnds
  <2> SUFFICES ASSUME IsSaved PROVE \E k \in 1..NameSize : Decrypt(disk).name[k] = NUL
    BY DEF NameEnds
  <2>1. Decrypt(disk).name = NameField(saved.name)
    BY <1>1 DEF DiskIsSaved, Serialize, Encrypt, Decrypt
  <2>2. NameSize \in 1..NameSize /\ NameSize > NameSize - 1
    BY FilmTableAssumption
  <2>3. NameField(saved.name)[NameSize] = NUL
    BY <2>2 DEF NameField, Encode
  <2>4. QED
    BY <2>1, <2>2, <2>3
<1>2. QED
  BY <1>1, DiskTheorem, PTL

-----------------------------------------------------------------------------
(* A serialised table is a fixed point of loading and serialising.         *)
LEMMA SerializedIsStable ==
  ASSUME NEW s \in FilmTables, Serializable(s), s.flags.bw => s.is_bw
  PROVE  Serialize(Parse(Serialize(s))) = Serialize(s)
<1> DEFINE f == Decrypt(Serialize(s))
           t == Parse(Serialize(s))
<1>1. /\ s.name \in Seq(Characters) /\ s.internal_name \in Seq(Characters)
      /\ s.raw_extended \in [internal : [1..InternalSize -> Bytes], scale : Scales]
      /\ s.flags \in FlagBytes /\ s.is_bw \in BOOLEAN /\ s.bw_filter \in 0..3
      /\ s.lut_sets \in [LutSets -> LutSet]
  BY DEF FilmTables
<1>2. /\ f.name = NameField(s.name)
      /\ f.flags = FlagsByte(s)
      /\ f.extended = [s.raw_extended EXCEPT !.internal = InternalField(s.internal_name)]
      /\ f.headers = [i \in 1..9 |-> HeaderField(s, i)]
      /\ f.curves = [i \in LutSets |->
                      [e \in Entries |-> StoredWord(s.lut_sets[i].values[e])]]
  BY DEF Serialize, Encrypt, Decrypt
<1>3. /\ t.name = Decode(f.name) /\ t.internal_name = Decode(f.extended.internal)
      /\ t.is_bw = f.flags.bw
      /\ t.bw_filter = IF f.flags.bw THEN f.flags.filter ELSE 0
      /\ t.flags = f.flags /\ t.raw_extended = f.extended
  BY DEF Parse
<1>4. NameField(t.name) = NameField(s.name)
  <2>1. NameSize \in Nat /\ NameSize - 1 \in 0..NameSize
    BY FilmTableAssumption
  <2>2. PICK L \in Nat :
          L = IF Len(s.name) < NameSize - 1 THEN Len(s.name) ELSE NameSize - 1
    BY <1>1, <2>1
  <2>3. QED
    BY <1>1, <1>2, <1>3, <2>1, <2>2, FieldFacts DEF NameField
<1>5. f.extended.internal = InternalField(s.internal_name)
  BY <1>1, <1>2
<1>6. InternalField(t.internal_name) = InternalField(s.internal_name)
  <2>1. InternalSize \in Nat /\ InternalSize \in 0..InternalSize
    BY FilmTableAssumption
  <2>2. PICK L \in Nat :
          L = IF Len(s.internal_name) < InternalSize
              THEN Len(s.internal_name) ELSE InternalSize
    BY <1>1, <2>1
  <2>3. QED
    BY <1>1, <1>3, <1>5, <2>1, <2>2, FieldFacts DEF InternalField
<1>7. FlagsByte(t) = f.flags
  <2>1. CASE s.is_bw
    BY <1>2, <1>3, <2>1 DEF FlagsByte
  <2>2. CASE ~s.is_bw
    BY <1>1, <1>2, <1>3, <2>2 DEF FlagsByte
  <2>3. QED
    BY <2>1, <2>2
<1>8. [t.raw_extended EXCEPT !.internal = InternalField(t.internal_name)] = f.extended
  <2>1. [[s.raw_extended EXCEPT !.internal = InternalField(s.internal_name)]
           EXCEPT !.internal = InternalField(s.internal_name)]
          = [s.raw_extended EXCEPT !.internal = InternalField(s.internal_name)]
    BY <1>1
  <2>2. QED
    BY <1>2, <1>3, <1>6, <2>1
<1>9. ASSUME NEW i \in 1..9 PROVE HeaderField(t, i) = HeaderField(s, i)
  BY <1>2 DEF Parse, HeaderField, LutSets
<1>10. ASSUME NEW i \in LutSets, NEW e \in Entries
       PROVE  StoredWord(t.lut_sets[i].values[e]) = StoredWord(s.lut_sets[i].values[e])
  <2>1. t.lut_sets[i].values = s.lut_sets[i].values
    BY CurvesReturn DEF Values
  <2>2. QED
    BY <2>1
<1>11. QED
  <2>1. [i \in 1..9 |-> HeaderField(t, i)] = [i \in 1..9 |-> HeaderField(s, i)]
    BY <1>9
  <2>2. [i \in LutSets |-> [e \in Entries |-> StoredWord(t.lut_sets[i].values[e])]]
        = [i \in LutSets |-> [e \in Entries |-> StoredWord(s.lut_sets[i].values[e])]]
    BY <1>10
  <2> HIDE DEF t, f
  <2>3. Serialize(t) = Encrypt([name |-> NameField(s.name), flags |-> FlagsByte(s),
          extended |-> [s.raw_extended EXCEPT !.internal = InternalField(s.internal_name)],
          headers |-> [i \in 1..9 |-> HeaderField(s, i)],
          curves |-> [i \in LutSets |->
                       [e \in Entries |-> StoredWord(s.lut_sets[i].values[e])]]])
    BY <1>2, <1>4, <1>7, <1>8, <2>1, <2>2 DEF Serialize
  <2>4. QED
    BY <2>3 DEF Serialize, t

(* A file that was saved once is reproduced byte by byte by every later    *)
(* load and save.                                                          *)
THEOREM StableTheorem == Spec => []SavedIsStable
<1>1. ASSUME TypeOK, DiskIsSaved PROVE SavedIsStable
  <2> SUFFICES ASSUME IsSaved, saved.flags.bw => saved.is_bw
               PROVE  Serialize(Parse(disk)) = disk
    BY DEF SavedIsStable
  <2>1. saved \in FilmTables /\ Serializable(saved) /\ disk = Serialize(saved)
    BY <1>1 DEF TypeOK, DiskIsSaved, IsSaved
  <2>2. QED
    BY <2>1, SerializedIsStable
<1>2. QED
  BY <1>1, DiskTheorem, PTL
=============================================================================
