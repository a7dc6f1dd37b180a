---------------------------- MODULE MCVersionLog ----------------------------
(* Model-checking instances of VersionLog; the constants are set in the    *)
(* configurations.                                                         *)
EXTENDS VersionLog

====
