-------------------------------- MODULE MCBoot --------------------------------
(* Every command line of up to three words, and longer ones that fill the    *)
(* arguments of init.                                                        *)
EXTENDS Boot

A == Word("arg", "a")
B == Word("arg", "b")
I == Word("init", "i")
D == Word("--", "")
X == Word("env", "X")
Words ==
  {A, B, I, D, X, Word("env", "HOME"), Word("env", "Y"), Word("module", "m"),
   Word("early", "e"), Word("rdinit", "r"), Word("blacklist", "f1")}

Lines ==
  UNION {[1 .. n -> Words] : n \in 0 .. 3}
  \cup {<<A, B, I, A>>, <<A, I, B, D, A>>, <<A, B, A, I>>, <<D, A, I, B>>, <<A, D, B, X, A>>}

MCLevels == <<<<"f0">>, <<"f1", "f2">>, <<"f3">>>>
MCFollowed == {<< >>}
MCWeights == {-1, 0, 1}
=============================================================================
