--------------------------- MODULE SenseDispatch ---------------------------
(***************************************************************************)
(* Sense data and the exceptions made of them (_exception_class_for_asc    *)
(* and _raise_check_condition of transport.py, errors.py).                 *)
(***************************************************************************)
EXTENDS Integers

Codes   == 0..65535
Classes == {"SCSIError", "ParameterError", "HardwareError",
            "CalibrationError", "FilmTableError"}

FilmTableCodes   == {\h2575, \h2576} \cup (\h255A..\h255C) \cup (\h2580..\h2588)
CalibrationCodes == \h2420..\h2428
HardwareCodes    == (\h2400..\h24FF) \cup (\h2560..\h2572)
ParameterCodes   == (\h2500..\h250D) \cup (\h2540..\h255F)

(* Mutant: no class for a code outside all ranges.                         *)
ExceptionClassPartial(asc) ==
  CASE asc \in FilmTableCodes -> "FilmTableError"
    [] asc \in HardwareCodes -> "HardwareError"
    [] OTHER -> "None"

(* The first range that has the code wins.                                 *)
ExceptionClass(asc) ==
  IF asc \in FilmTableCodes THEN "FilmTableError"
  ELSE IF asc \in CalibrationCodes THEN "CalibrationError"
  ELSE IF asc \in HardwareCodes THEN "HardwareError"
  ELSE IF asc \in ParameterCodes THEN "ParameterError"
  ELSE "SCSIError"

(* The sense keys the driver looks at or the recorder gives; "unknown" is  *)
(* 0xFF, for sense data too short to have one.                             *)
SenseKeys == {"none", "illegal", "hardware", "attention", "unknown"}
SenseData == [key : SenseKeys, asc : Codes]
Sense(key, asc) == [key |-> key, asc |-> asc]
NoSense   == Sense("none", 0)
Attention == Sense("attention", 0)
NoData    == Sense("unknown", 0)

(* What a call of execute ends with: an answer, an exception with sense    *)
(* data (CHECK CONDITION), an SCSIError without, an OSError, or            *)
(* subprocess.TimeoutExpired.                                              *)
Kinds   == {"none", "ok", "check", "scsi", "os", "expired"}
Results == [kind : Kinds, sense : SenseData, class : Classes]

Result(kind)          == [kind |-> kind, sense |-> NoSense, class |-> "SCSIError"]
CheckCondition(sense) == [kind |-> "check", sense |-> sense,
                          class |-> ExceptionClass(sense.asc)]

-----------------------------------------------------------------------------
(* What errors.py says of the classes.                                     *)
DocumentedHardware    == (\h2400..\h241F) \cup (\h2560..\h2572)
DocumentedCalibration == \h2420..\h2428
DocumentedParameter   == (\h2500..\h250D) \cup (\h2540..\h255F)
DocumentedFilmTable   == (\h255A..\h255C) \cup (\h2575..\h2576) \cup (\h2580..\h2588)

(* Codes between the calibration's and 0x2500: the table of messages has   *)
(* none, errors.py does not mention them, and the code calls them hardware *)
(* faults.                                                                 *)
Undocumented == \h2429..\h24FF
=============================================================================
