------------------------- MODULE MCWakeSchedules -------------------------
EXTENDS WakeSchedules

TwoZones == {0, 1}

(* Two zones an hour apart.                                                *)
ZoneOffset == [z \in Zones |-> z]

(* In the second one the hour is missing on one day.                       *)
OneGap == [z \in Zones |-> IF z = 1 THEN {3} ELSE {}]

(* Two zones a day and an hour apart, the second one behind UTC.           *)
FarOffset == [z \in Zones |-> IF z = 1 THEN -1 ELSE Day]
NoGap == [z \in Zones |-> {}]
=============================================================================
