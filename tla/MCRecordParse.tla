----------------------------- MODULE MCRecordParse -----------------------------
(* RecordParse on a list of five domains, two of which begin with a digit.  *)
EXTENDS RecordParse

Heads == <<"a", "0", "a", "0", "a">>
================================================================================
