----------------------------- MODULE MCExposure -----------------------------
(* Small instances of Exposure: see the configurations.                    *)
EXTENDS ExposureProgress
=============================================================================
