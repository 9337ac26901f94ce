------------------------------ MODULE MCPapers ------------------------------
(* Small instances of Papers for TLC.                                      *)
EXTENDS Papers

\* One paper, and the same under another title with a second one after it.
MCAnswers ==
  LET first   == [ext |-> "a", fp |-> "one"]
      retitled == [ext |-> "a", fp |-> "two"]
      second  == [ext |-> "b", fp |-> "three"]
  IN {<<first>>, <<retitled, second>>}
=============================================================================
