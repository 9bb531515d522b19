---------------------------- MODULE MCParseArgs ----------------------------
(***************************************************************************)
(* Model-checking instance of ParseArgs: clusters of options that override *)
(* one another, a wrong option, a lone dash, "--" alone and with a word.   *)
(***************************************************************************)
EXTENDS ParseArgs

MCArgument ==
  {<<"-", "t">>, <<"-", "f", "R">>, <<"-", "f", "t", "g">>, <<"-", "q">>, <<"-">>,
   <<"-", "-">>, <<"-", "-", "q">>, <<"q">>, << >>}
=============================================================================
