--------------------------- MODULE MCBatchClassify --------------------------
(***************************************************************************)
(* BatchClassify for TLC: up to four deliveries of three events from two   *)
(* raw objects.  Event 1 comes in every form: repeated, conflicting, with  *)
(* an extra field, out of the window, invalid, with schema_version 1.0 and *)
(* with a word for its pressure, which Spark nulls; event 2 may conflict   *)
(* across the two objects, event 3 within one.                             *)
(***************************************************************************)
EXTENDS BatchClassify

CONSTANTS ok, other, late, plain, tagged

Plain(source, event, fields) ==
    [source |-> source, event |-> event, fields |-> fields, extra |-> plain,
     broken |-> {}, mistyped |-> {}]

MCDelivery ==
    {Plain(s, 1, f) : s \in Source, f \in {ok, other}}
    \cup {Plain(s, 2, ok) : s \in Source}
    \cup {Plain(2, 2, other), Plain(1, 3, ok), Plain(1, 3, other)}
    \cup {Plain(2, 1, late), [Plain(1, 1, ok) EXCEPT !.extra = tagged],
          [Plain(1, 1, ok) EXCEPT !.broken = {4, 9}],
          [Plain(1, 1, ok) EXCEPT !.mistyped = {SchemaVersion}],
          [Plain(2, 1, other) EXCEPT !.mistyped = {OptionalNumber}]}

=============================================================================
