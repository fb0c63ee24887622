---------------------------- MODULE Publication -----------------------------
(***************************************************************************)
(* What the batch pipeline promises the readers of                         *)
(* curated/publication/current.json: the pointer names complete runs only, *)
(* each run at most once, and what a run published never changes.          *)
(***************************************************************************)
EXTENDS Sequences

CONSTANTS Run, Data

VARIABLES log,    \* the runs the pointer has named, in order
          tables  \* what each of them published

Named == {log[i] : i \in DOMAIN log}

PublicationInit ==
    /\ log = <<>>
    /\ tables = [r \in {} |-> Data]

Publish(r, silver, gold) ==
    /\ r \notin Named
    /\ log' = Append(log, r)
    /\ tables' = [s \in Named \cup {r} |->
                    IF s = r THEN [silver |-> silver, gold |-> gold]
                             ELSE tables[s]]

PublicationNext ==
    \E r \in Run : \E silver, gold \in Data : Publish(r, silver, gold)

PublicationSpec == PublicationInit /\ [][PublicationNext]_<<log, tables>>

=============================================================================
