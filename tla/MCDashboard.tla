---------------------------- MODULE MCDashboard ----------------------------
(* Small instance of Dashboard for TLC.                                    *)
EXTENDS Dashboard

CONSTANTS front, ring, more

Settings == [name : {front}, keypad : {ring, Null, None}, rest : {Plain, more}]
=============================================================================
