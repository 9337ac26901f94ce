------------------------------ MODULE MCParts -------------------------------
(* A small instance of Parts for TLC.                                      *)
EXTENDS Parts

\* The power's name is that of its file, which has two schedules.
MCNameOf == [p \in Powers |-> p]
MCSchedules == [p \in Powers |-> 2]

\* One paper, and another one of its title; and the same under another title, with a
\* second one after it.
MCAnswers ==
  LET first    == [ext |-> "a", fp |-> "one"]
      retitled == [ext |-> "a", fp |-> "two"]
      second   == [ext |-> "b", fp |-> "three"]
      namesake == [ext |-> "c", fp |-> "one"]
  IN {<<first, namesake>>, <<retitled, second>>}

\* Every text of up to seven bytes, of which a message takes four.
MCTexts == {s \in UNION {[1..n -> Bytes] : n \in 1..7} : \E i \in DOMAIN s : s[i] = "x"}

\* The other parts need not be checked once for every text.
MCInit == Init /\ (part # "reply" => text = <<"x">>)
MCSpec == MCInit /\ [][Next]_vars

=============================================================================
