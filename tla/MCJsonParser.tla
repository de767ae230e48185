---------------------------- MODULE MCJsonParser ----------------------------
(* The texts JsonParser is checked on: every document of up to MaxMore       *)
(* lexemes, those that go on after a first member or a first element, so     *)
(* that a second one fits within the bound, and likewise strings that go on  *)
(* after surrogates and numbers that go on after a fraction or an e.         *)
EXTENDS JsonParser

MCStarts ==
  [document |-> {<<>>, <<"{", "s", ":", "v">>, <<"[", "[", "v">>,
                 <<"[", "{", "s", ":", "v", "}">>},
   string   |-> {<<>>, <<"plain", "high">>, <<"high", "low", "plain">>},
   number   |-> {<<"1">>, <<"0">>, <<"-">>, <<"1", ".", "1">>, <<"-", "1", ".", "0", "e">>}]
=============================================================================
