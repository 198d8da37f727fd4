----------------------------- MODULE MCResults -----------------------------
(* Small instances of Results: every test without an omitted period, and    *)
(* with one every test of one stream per direction (on UDP of one stream);  *)
(* batches of one, and of two on tests of one stream.                      *)
EXTENDS Results

MCTests == {t \in TestParams :
              /\ t.omit => t.parallel = 1 /\ ~(t.udp /\ t.bidir)
              /\ t.batch > 1 => t.parallel = 1 /\ ~t.omit /\ ~t.bidir}
=============================================================================
