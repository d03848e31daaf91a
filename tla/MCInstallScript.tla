--------------------------- MODULE MCInstallScript ---------------------------
(* The instance of InstallScript that TLC checks: two versions and four runs *)
(* of which two are broken off, so that a version is put away, taken out and *)
(* put away again, and the other after a run that ended half-way.            *)
EXTENDS InstallScript
=============================================================================
