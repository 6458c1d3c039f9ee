---------------------------- MODULE MCAssessment ----------------------------
(* Three rows of history are what tells the largest from the average:      *)
(* 1, 1 and 10 have the mean 4, so that 18 is four times the usual and not *)
(* twice the largest.                                                      *)
EXTENDS Assessment

MCKeyworded == <<"groceries", "income">>
MCAmounts   == {-18, -10, -1, 0, 12}
MCRuneTexts == {<<1, 2>>, <<2, 2>>, <<1, 2, 1>>}

=============================================================================
