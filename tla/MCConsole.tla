------------------------------ MODULE MCConsole ------------------------------
(***************************************************************************)
(* Console for TLC.  A run uses the keyboard, with a little of the screen,  *)
(* or the screen alone: they share nothing but the processes.              *)
(***************************************************************************)
EXTENDS Console

KeyBudgets ==
    {[scans |-> 3, symbols |-> 0, calls |-> 2],
     [scans |-> 1, symbols |-> 1, calls |-> 1]}

ScreenBudgets == {[scans |-> 0, symbols |-> 4, calls |-> 0]}

SomeBudgets == KeyBudgets \cup ScreenBudgets

SomeTexts ==
    {<<"a">>, <<"a", "a">>, <<"a", "\n">>, <<"\n", "back">>, <<"\r", "bell">>,
     <<"back", "clear">>, <<"unknown escape", "a">>, <<"broken sequence", "a">>,
     <<"style">>, <<"colour", "cut">>}
=============================================================================
