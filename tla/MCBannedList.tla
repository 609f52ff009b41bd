---------------------------- MODULE MCBannedList ----------------------------
(* Small instances of BannedList.  An hour more or less is what a reload   *)
(* may make of a ban.                                                      *)
EXTENDS BannedList

HourOff == {-1, 0, 1}
=============================================================================
