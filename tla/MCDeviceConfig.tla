---------------------------- MODULE MCDeviceConfig ----------------------------
(***************************************************************************)
(* DeviceConfig with small sets of configuration entries.                  *)
(***************************************************************************)
EXTENDS DeviceConfig

(* The entry of a HAP lidar, one of a Mid-360 as in config/, and one that   *)
(* names no option.                                                        *)
UsualEntries ==
  {[o \in {"dataType", "scanPattern", "blindSpot"} |->
      CASE o = "dataType" -> 1 [] o = "scanPattern" -> 0 [] OTHER -> 50],
   [o \in {"dataType", "scanPattern"} |-> IF o = "dataType" THEN 1 ELSE 0],
   [o \in {} |-> 0],
   NoEntry}
=============================================================================
