--------------------------- MODULE MCOntologyReview ---------------------------
(* Three ontology terms and a tag, one ingestion and two reviewers.          *)
EXTENDS OntologyReview, TLC

CONSTANTS a, b, c, g, h1, h2, i, p, q

\* The matcher takes c for a.
MCSimilar == {<<c, a>>}

\* A tagged project that mentions another name, a note that mentions one, and a
\* note that writes the name of the project in another way.
MCExtractions ==
    {[project |-> <<a, "plain">>, entities |-> {<<b, "plain">>}, tags |-> {<<g, "plain">>}],
     [project |-> Nothing, entities |-> {<<c, "plain">>}, tags |-> {}],
     [project |-> Nothing, entities |-> {<<a, "capital">>}, tags |-> {}]}

Symmetry == Permutations(Reviewers) \cup Permutations(Hashes)
=============================================================================
