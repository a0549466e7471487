------------------------------ MODULE ChatFilters ------------------------------
(***************************************************************************)
(* The filters of a chat query: how a request is validated                 *)
(* (phase4/validation.py), what Qdrant is asked for (phase4/adapters.py),  *)
(* and the two tests its answers are put to, on the rows of Postgres       *)
(* (phase4/persistence.py) and on payloads and rows in Python              *)
(* (phase4/service.py).                                                    *)
(*                                                                         *)
(* tags, ontology_terms and taxonomy_tags are three lists under the same   *)
(* code: a label is <<field, word, spelling>>, and lower() forgets the     *)
(* spelling.  A date is a text of a form: "extended" is YYYY-MM-DD,        *)
(* "compact" is YYYYMMDD, and "other" is what no date can be parsed from.  *)
(* The day of a date is that of its year.                                  *)
(***************************************************************************)
EXTENDS Naturals

CONSTANT Nothing  \* None

Forms == {"extended", "compact", "other"}

\* date.fromisoformat, of Python 3.11 and later.
Parses(d) == d.form # "other"
Day(d) == d.year * 500 + d.day

\* What orders the texts: '-' sorts before any digit, so that the extended
\* dates of a year sort before its compact ones; letters sort last.
Text(d) ==
    IF d.form = "other" THEN 10000000
    ELSE d.year * 1000 + (IF d.form = "compact" THEN 500 ELSE 0) + d.day

\* Dates whose texts are in the order of their days.
Comparable(dates) ==
    \A d, e \in dates : Parses(d) /\ (d.year = e.year => d.form = e.form)

Lower(labels) == {<<l[1], l[2]>> : l \in labels}

NoLimits(f) == f.from = Nothing /\ f.to = Nothing

-----------------------------------------------------------------------------
(* Validation.                                                             *)

\* Of labels that differ in spelling only, the first of the list stays; here,
\* one of them.
Cleaned(labels) ==
    {s \in SUBSET labels :
        /\ Lower(s) = Lower(labels)
        /\ \A l, m \in s : Lower({l}) = Lower({m}) => l = m}

Rejected(f) ==
    \/ \E d \in {f.from, f.to} \ {Nothing} : ~Parses(d)
    \/ f.from # Nothing /\ f.to # Nothing /\ Day(f.from) > Day(f.to)
    \/ f.project = Nothing /\ f.labels = {} /\ ~NoLimits(f)

-----------------------------------------------------------------------------
(* The tests of a record: a payload of Qdrant, or a row of Postgres.       *)

\* Qdrant: the project, and of each field any label, spelled like that.
SearchAccepts(r, f) ==
    /\ f.project # Nothing => r.project = f.project
    /\ \A l \in f.labels : \E m \in f.labels \cap r.labels : m[1] = l[1]

\* Python: the project, and every label in any spelling.
Labelled(r, f) ==
    /\ f.project # Nothing => r.project = f.project
    /\ Lower(f.labels) \subseteq Lower(r.labels)

\* _matches_filters, on the rows of a list.
RowAccepted(r, f) ==
    /\ Labelled(r, f)
    /\ NoLimits(f) \/ (r.date # Nothing /\ Parses(r.date))
    /\ f.from # Nothing => Day(r.date) >= Day(f.from)
    /\ f.to # Nothing => Day(r.date) <= Day(f.to)

\* Mutant: the upper limit is left out.
NoUpperLimit(r, f) ==
    /\ Labelled(r, f)
    /\ NoLimits(f) \/ r.date # Nothing
    /\ f.from # Nothing => Text(r.date) >= Text(f.from)

\* _payload_matches_filters and _memory_matches_filters compare texts.
TextAccepted(r, f) ==
    /\ Labelled(r, f)
    /\ NoLimits(f) \/ r.date # Nothing
    /\ f.from # Nothing => Text(r.date) >= Text(f.from)
    /\ f.to # Nothing => Text(r.date) <= Text(f.to)
=============================================================================
