-------------------------- MODULE MCTeamEnrichment --------------------------
(* Small instances of TeamEnrichment for TLC. *)
EXTENDS TeamEnrichment

\* A team with a person's value in every field, on record: written before a run
\* that found it there, or over what a run and the judge had promoted.  It may have
\* been marked again.  To begin there spares the requests that lead to it.
EditedInit ==
  /\ \E d \in {[cand |-> {}, judge |-> "none"], [cand |-> Fields, judge |-> "Judged"]} :
       LET edited == [status |-> "Enriched", should |-> FALSE, ai |-> d.cand # {},
                      judge |-> d.judge, field |-> [f \in Fields |-> "ChangedByUser"]]
       IN doc \in {edited, Marked(edited)} /\ cand = d.cand
  /\ team = [f \in Fields |-> "user"]
  /\ aged = FALSE
  /\ task = [p \in Procs |-> NewTask]
  /\ crashes = 0

EditedSpec == EditedInit /\ [][Next]_vars /\ Fairness

=============================================================================
