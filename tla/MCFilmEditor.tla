---------------------------- MODULE MCFilmEditor ----------------------------
EXTENDS FilmEditor

MCEntries == {<<"R", 0>>, <<"B", 255>>}
MCCurves == {[e \in MCEntries |-> IF e[1] = "R" THEN 3 ELSE 7]}
MCNames == {<<"a", "b">>, <<"U+00E9", "b", "a", "b">>}

FloorHalf(values) == [e \in MCEntries |-> values[e] \div 2]

(* A file after the authoring convention, with masters a and b.            *)
Authored(name, internal, flags, a, b) ==
  [name |-> name, flags |-> flags,
   extended |-> [internal |-> internal, scale |-> 1],
   headers |-> [i \in 1..9 |-> IF i < 5 THEN 2 ELSE 1],
   curves |-> [i \in LutSets |->
                CASE i \in MasterACopies -> a
                  [] i \in MasterAHalves -> CeilHalf(a)
                  [] i = 8 -> b
                  [] i = 9 -> FloorHalf(b)]]

Color == [bw |-> FALSE, filter |-> 0, others |-> 0]
Ramp  == [e \in MCEntries |-> IF e[1] = "R" THEN 0 ELSE 5]
Even  == [e \in MCEntries |-> IF e[1] = "R" THEN 2 ELSE 4]

(* A plain colour film; a green-filter one with a full internal name; one  *)
(* whose text fields are full, or hold bytes past the NUL, and whose flags *)
(* have other bits; and one of odd master values.                          *)
MCFiles ==
  {Authored(<<"a", NUL, NUL>>, <<"a", NUL>>, Color, Ramp, Even),
   Authored(<<"a", "b", NUL>>, <<"a", "b">>,
            [bw |-> TRUE, filter |-> 1, others |-> 0], Even, Even),
   Authored(<<"a", "b", "a">>, <<"0xE9", NUL>>,
            [bw |-> TRUE, filter |-> 3, others |-> 1], Ramp, Ramp),
   Authored(<<"0xE9", NUL, "b">>, <<NUL, "b">>,
            [bw |-> FALSE, filter |-> 2, others |-> 1], Even, Ramp)}
=============================================================================
