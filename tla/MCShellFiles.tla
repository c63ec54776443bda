----------------------------- MODULE MCShellFiles -----------------------------
(* Command lines with one redirection, up to three commands in pipes, fare   *)
(* with overlapping occurrences, and cd.                                     *)
EXTENDS ShellFiles

Builtin == [op |-> "builtin"]
External == [op |-> "external"]
Bar == [op |-> "|"]
And == [op |-> "&"]
Into == [op |-> ">"]
Name == [op |-> "name"]
Fare(old, new) == [op |-> "fare", old |-> old, new |-> new]

Lines ==
  {<<External, And>>, <<Builtin, Into, Name>>, <<Bar, External>>,
   <<External, Bar, External, Into, Into, Name>>,
   <<Builtin, Into, Name, Into, Into, Name, Bar, External>>,
   <<Builtin, Bar, And, External>>, <<External, Bar, Builtin, And>>,
   <<External, Bar, External, Bar, External>>,
   <<External, Bar, External, Bar, And, External>>,
   <<External, Bar, And, External, Bar, And, External>>,
   <<Fare(<<"a", "a">>, <<"b">>)>>, <<Fare(<<"a", "b">>, <<"a", "a", "b">>)>>}
  \cup {<<[op |-> "cd", to |-> to]>> : to \in Dirs \cup {"-"}}

MCTexts == {<<"a", "a", "a", "b">>, <<"b", "a", "b", "a">>}
=============================================================================
