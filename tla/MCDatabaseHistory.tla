------------------------- MODULE MCDatabaseHistory --------------------------
(* The instances of MCDatabase, with the history.                          *)
EXTENDS MCDatabase, DatabaseHistory
=============================================================================
