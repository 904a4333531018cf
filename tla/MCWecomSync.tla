---------------------------- MODULE MCWecomSync ----------------------------
(***************************************************************************)
(* Instances of WecomSync for TLC: two sheets whose IDs and two names that *)
(* differ in case only, so that rows of one sheet and of both compete for  *)
(* a Probe, with a target each by which the winner can be told.            *)
(***************************************************************************)
EXTENDS WecomSync

TwoSheets == <<"a", "A">>

\* Every text is one word.
Words == [x \in {"a", "A", "n", "N", "m", "t", "u"} |->
            CASE x = "A" -> <<"a">> [] x = "N" -> <<"n">> [] OTHER -> <<x>>]

\* Two rows that compete, a row with another name for the target of the first,
\* and the first one disabled.
FourContents ==
  {[name |-> "n", target |-> "t", on |-> TRUE],
   [name |-> "N", target |-> "u", on |-> TRUE],
   [name |-> "m", target |-> "t", on |-> TRUE],
   [name |-> "n", target |-> "t", on |-> FALSE]}

\* The first sheet has two pages, and an edit may bring a third.
TwoAndOne == [s \in Sheets |-> IF s = "a" THEN 2 ELSE 1]

\* A Probe that somebody made by hand, under a name a row may ask for as well,
\* and one under a name no row has.
ByHandTwo == {<<"a", "n">>, <<"other">>}
=============================================================================
