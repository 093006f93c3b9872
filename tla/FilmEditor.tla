------------------------------ MODULE FilmEditor ----------------------------
(***************************************************************************)
(* A program that works on one film table: it loads a file, builds changed *)
(* copies with _replace (README, "Writing film tables") and                *)
(* normalize_masters, saves, loads again, and installs what it holds.      *)
(* Saving may be cut short.                                                *)
(***************************************************************************)
EXTENDS FilmTable

CONSTANT Torn   \* what a write that was cut short leaves on disk

VARIABLES
  disk,     \* the file
  table,    \* the FilmTable the program holds, None before the first load
  changed,  \* it is no longer what was loaded
  edits,    \* number of edits so far
  slot,     \* the bytes in the recorder's slot
  saved     \* history: the table last saved, None if the file is older

vars == <<disk, table, changed, edits, slot, saved>>

LutSet == [values : Curve, scale : Scales, header : Scales \cup {None}]
FilmTables ==
  [name : Seq(Characters), internal_name : Seq(Characters), is_bw : BOOLEAN,
   bw_filter : 0..3, flags : FlagBytes,
   raw_extended : [internal : [1..InternalSize -> Bytes], scale : Scales],
   lut_sets : [LutSets -> LutSet], encrypted_data : Raw]

TypeOK ==
  /\ disk = Torn \/ disk \in Raw
  /\ table = None \/ table \in FilmTables
  /\ changed \in BOOLEAN
  /\ edits \in 0..MaxEdits
  /\ slot = None \/ slot \in Raw
  /\ saved = None \/ saved \in FilmTables

Init ==
  /\ disk \in {Encrypt(f) : f \in Files}
  /\ table = None /\ changed = FALSE /\ edits = 0
  /\ slot = None /\ saved = None

(* Mutant: a reload that keeps the bytes of the first load.                *)
LoadFlmOnce ==
  /\ disk # Torn
  /\ table' = IF table = None THEN Parse(disk)
              ELSE [Parse(disk) EXCEPT !.encrypted_data = table.encrypted_data]
  /\ changed' = FALSE
  /\ UNCHANGED <<disk, edits, slot, saved>>

(* load_flm; it raises ValueError for a file of another size.              *)
LoadFlm ==
  /\ disk # Torn
  /\ table' = Parse(disk)
  /\ changed' = FALSE
  /\ UNCHANGED <<disk, edits, slot, saved>>

Become(t) ==
  /\ edits < MaxEdits
  /\ edits' = edits + 1
  /\ changed' = TRUE
  /\ table' = t
  /\ UNCHANGED <<disk, slot, saved>>

Replace ==
  /\ table # None
  /\ \/ \E n \in Names : Become([table EXCEPT !.name = n])
     \/ \E n \in Names : Become([table EXCEPT !.internal_name = n])
     \/ \E bw \in BOOLEAN, f \in 0..3 :
          Become([table EXCEPT !.is_bw = bw, !.bw_filter = f])
     \/ \E i \in LutSets, c \in Curves :
          Become([table EXCEPT !.lut_sets[i].values = c])
     \/ \E i \in LutSets, s \in Scales :
          Become([table EXCEPT !.lut_sets[i].scale = s])
     \/ \E i \in LutSets, j \in Donors :
          Become([table EXCEPT !.lut_sets[i] = table.lut_sets[j]])

NormalizeMasters == table # None /\ Become(Normalize(table))

(* save_flm serialises first: a table that cannot be laid out (ValueError) *)
(* leaves the file alone.  A write that fails half-way does not.           *)
SaveFlm ==
  /\ table # None /\ Serializable(table)
  /\ \/ disk' = Serialize(table) /\ saved' = table
     \/ disk' = Torn /\ UNCHANGED saved
  /\ UNCHANGED <<table, changed, edits, slot>>

(* Device.install, and Device.expose for its scratch slot.                 *)
Install ==
  /\ table # None
  /\ slot' = table.encrypted_data
  /\ UNCHANGED <<disk, table, changed, edits, saved>>

Next == LoadFlm \/ Replace \/ NormalizeMasters \/ SaveFlm \/ Install

Spec == Init /\ [][Next]_vars
-----------------------------------------------------------------------------
Values(t) == [i \in LutSets |-> t.lut_sets[i].values]
IsSaved == saved # None /\ disk # Torn
InAscii(text) == \A k \in 1..Len(text) : text[k] \in Ascii

(* What was edited and saved is what the next load gives: all curves, the  *)
(* texts that fit their fields, and a black-and-white film's filter        *)
(* (serialize_flm against load_flm).                                       *)
SavedIsLoaded ==
  IsSaved =>
    LET t == Parse(disk)
    IN  /\ Values(t) = Values(saved)
        /\ InAscii(saved.name) /\ Len(saved.name) < NameSize
             => t.name = saved.name
        /\ InAscii(saved.internal_name) /\ Len(saved.internal_name) =< InternalSize
             => t.internal_name = saved.internal_name
        /\ saved.is_bw => t.is_bw /\ t.bw_filter = saved.bw_filter

(* Saving is a projection: a file that was saved once is reproduced byte   *)
(* by byte ever after, whatever the file before it held.  The exception is *)
(* a black-and-white table turned to colour: its flags byte is kept, and   *)
(* rebuilt only by the second save.                                        *)
SavedIsStable ==
  IsSaved /\ (saved.flags.bw => saved.is_bw) => Serialize(Parse(disk)) = disk

(* The firmware reads the name of a saved file as a C string and does not  *)
(* run on into the camera type (the comment at flm.py 335-339).            *)
NameEnds ==
  IsSaved => \E k \in 1..NameSize : Decrypt(disk).name[k] = NUL

(* Whatever was edited, normalize_masters makes a table that conforms, and *)
(* still does when it comes back from disk as 16-bit values; it leaves     *)
(* both masters as they were edited and does nothing the second time.      *)
NormalizeConforms ==
  table # None =>
    LET n == Normalize(table)
    IN  /\ Issues(n) = {} /\ Issues(Parse(Serialize(n))) = {}
        /\ Normalize(n) = n
        /\ n.lut_sets[7] = table.lut_sets[7] /\ n.lut_sets[9] = table.lut_sets[9]

(* A table that was not touched since it was loaded is installed as it is. *)
LoadedIsInstalled ==
  [][Install /\ ~changed => Values(Parse(slot')) = Values(table)]_vars

-----------------------------------------------------------------------------
(* What documents say and the code does not do.                            *)

(* README, "Writing film tables": build modified copies with _replace and  *)
(* write them back with save_flm; its example sets scale_r.                *)
EditIsSaved ==
  IsSaved => LET t == Parse(disk)
             IN  /\ \A i \in LutSets : t.lut_sets[i].scale = saved.lut_sets[i].scale
                 /\ t.is_bw = saved.is_bw

(* Device.install: "Upload an FLM film table to a device slot."            *)
TableIsInstalled ==
  [][Install => Values(Parse(slot')) = Values(table)]_vars
=============================================================================
