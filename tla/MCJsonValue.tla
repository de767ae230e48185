----------------------------- MODULE MCJsonValue -----------------------------
(* JsonValue and JsonConvert with small leaves and the types to convert: one *)
(* of each class, the variants in both orders, and a class within a class.   *)
EXTENDS JsonConvert, JsonDump

MCLeaves == {Null, <<"string", "">>, <<"string", "red">>, <<"number", "1">>, <<"number", "1.5">>}

MCSymmetry == Permutations(Vars)

MCReads ==
  [int    |-> [s \in {"0", "1", "70000"} |-> s],
   short  |-> [s \in {"0", "1"} |-> s],
   double |-> [s \in {"0", "1", "70000", "1.5", "1e-9"} |-> s] @@
              ("0.000000" :> "0" @@ "1.000000" :> "1" @@ "70000.000000" :> "70000" @@
               "1.500000" :> "1.5")]
MCWrites ==
  [int    |-> MCReads.int,
   short  |-> MCReads.short,
   double |-> [s \in {"0", "1e-9"} |-> "0.000000"] @@
              ("1" :> "1.000000" @@ "70000" :> "70000.000000" @@ "1.5" :> "1.500000")]
MCLower == [s \in {"Red", "RED", "red"} |-> "red"] @@ ("" :> "")

Whole32 == <<"int">>
Colour  == <<"enum", << <<"1", "Red">> >> >>
Cases   == <<"enum", << <<"0", "RED">>, <<"1", "Red">> >> >>
Double  == <<"double">>
Text    == <<"string">>
Shape  == <<"struct", << <<"s", Whole32>>, <<"MEO_OPT">>, <<"MEO_KEY", "t">>, <<"label", <<"vector", Text>> >> >> >>
Scene  == <<"struct", << <<"MEO_OPT">>, <<"s", <<"nullable", Shape>> >>,
                         <<"MEO_OPT">>, <<"t", <<"variant", <<Whole32, Double>> >> >> >> >>

MCTypes ==
  {<<"value">>, <<"boolean">>, <<"null">>, Text, Whole32, <<"short">>, Double, Colour, Cases,
   <<"array">>, <<"object">>, <<"cv", 2>>, <<"vector", Whole32>>, <<"vector", <<"vector", Whole32>> >>,
   <<"set", Whole32>>, <<"fixed", Whole32, 2>>, <<"tuple", <<Whole32, Text>> >>,
   <<"nullable", Whole32>>, <<"nullable", <<"nullable", Whole32>> >>,
   <<"variant", <<Whole32, Double>> >>, <<"variant", <<Double, Whole32>> >>,
   <<"variant", <<Colour, Text>> >>, <<"variant", <<Scene, Whole32>> >>,
   <<"map", Whole32>>, <<"map", <<"value">> >>, Shape, Scene}
=============================================================================
