---------------------------- MODULE MCMapScrape ----------------------------
(* Four keys in a map with room for three: one that the decoders skip, two   *)
(* whose different labels join to the same text, and one of its own.        *)
EXTENDS MapScrape, TLC

CONSTANTS k1, k2, k3, k4, skip

Web == << <<"w">>, <<"x", "|", "y">> >>
Lookalike == << <<"w", "|", "x">>, <<"y">> >>
Db == << <<"d">>, <<"y">> >>

MCOrder == <<k1, k2, k3, k4>>
MCLabelsOf == (k1 :> Web) @@ (k2 :> skip) @@ (k3 :> Lookalike) @@ (k4 :> Db)

=============================================================================
