--------------------------- MODULE MCConfigReload ---------------------------
(***************************************************************************)
(* Instances of ConfigReload for TLC: two good contents of the file, so    *)
(* that one can be put back after the other, one that does not decode and  *)
(* a time without a file, so that a reload can meet a bad file in either   *)
(* of its two reads.                                                       *)
(***************************************************************************)
EXTENDS ConfigReload

Contents == {"first", "second", "misspelt", "missing"}
Misspelt == {"misspelt"}
Missing == {"missing"}
=============================================================================
