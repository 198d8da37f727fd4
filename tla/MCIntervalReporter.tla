---- MODULE MCIntervalReporter ----
(* Small instances of IntervalReporter. *)
EXTENDS IntervalReporter
====
