-------------------------- MODULE MCQueryResponse --------------------------
(***************************************************************************)
(* Instances of QueryResponse for TLC: lists of up to three entries and    *)
(* servers that say too little, enough, too much and something else.       *)
(***************************************************************************)
EXTENDS QueryResponse

Plain == [expect |-> None, bytes |-> <<>>, send |-> "", labels |-> FALSE, starttls |-> FALSE]

Expect(b) == [Plain EXCEPT !.expect = b]
Bytes(s) == [Plain EXCEPT !.bytes = s]

MCAlphabet == {"a", "b", Newline, Hello}

\* No expect_bytes reads behind a scanner.
Separable == {
  <<>>,
  <<[Expect("a") EXCEPT !.send = "rest"], Expect("b")>>,
  <<[Plain EXCEPT !.send = "quit"], Bytes(<<"a", "b">>)>>,
  <<Bytes(<<"a">>), [Expect("b") EXCEPT !.labels = TRUE, !.send = "rest"]>>,
  <<[Expect("a") EXCEPT !.starttls = TRUE, !.send = "starttls"],
    [Expect("b") EXCEPT !.send = "rest"]>>,
  <<[Expect("a") EXCEPT !.starttls = TRUE], Bytes(<<"b">>)>>,
  <<[Expect("a") EXCEPT !.labels = TRUE], [Expect("b") EXCEPT !.labels = TRUE]>> }

Greetings == {
  <<"a", "b", Newline, "b", "a", Newline>>,
  <<"a", Newline, "b">>,
  <<"a", "b", "b", "a", Newline>>,
  <<"b", "a", Newline, "b", Newline, Hello, "a", Newline>>,
  <<"a", Newline, Hello, "b", "a", Newline>>,
  <<"a", Newline, "b", Newline, Hello, "b">> }

\* The lists are those for which the properties hold.
ASSUME ListsReadApart == ReadsApart
=============================================================================
