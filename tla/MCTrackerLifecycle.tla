---- MODULE MCTrackerLifecycle ----
(* Small instances of TrackerLifecycle. *)
EXTENDS TrackerLifecycle
====
