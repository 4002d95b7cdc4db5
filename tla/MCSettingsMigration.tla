--------------------------- MODULE MCSettingsMigration ---------------------------
(* Small instances of SettingsMigration for TLC. *)
EXTENDS SettingsMigration

CONSTANTS fresh, other, portal, calibration

\* The portal record has a main value that beta27's importer does not carry
\* over; the calibration changes the LED roles alone.
MCSourceValues ==
  [s \in Sources |->
     [main |-> IF s = portal THEN other ELSE fresh,
      ext |-> [led |-> s = calibration, steps |-> DefaultSteps]]]
MCHistoricalMain == [m \in MainValues |-> fresh]
=============================================================================
