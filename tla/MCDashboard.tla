---------------------------- MODULE MCDashboard ----------------------------
(* A share listed before a local volume, one document and one terminal,    *)
(* and widths on both sides of every break of the layout.                  *)
EXTENDS Dashboard

CONSTANTS share, volume, document, terminal, setting

MCDriveOrder == <<share, volume>>
MCWidths     == {300, 320, 409, 410, 599, 600, 840, 899, 900, 1080, 1081, 1400}
=============================================================================
