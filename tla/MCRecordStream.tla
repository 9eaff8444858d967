---- MODULE MCRecordStream ----
(* Small instances of RecordStream. *)
EXTENDS RecordStream
====
