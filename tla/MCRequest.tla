------------------------------ MODULE MCRequest ------------------------------
(* Requests with and without headers, with something after the empty line,    *)
(* incomplete ones, lines that do not fit and one whose first part fits      *)
(* exactly.                                                                  *)
EXTENDS Request

End == <<"r", "n">>
MCStreams ==
  {<< >>, <<"G">>, End, <<"G", "s">> \o End, <<"G", "s">> \o End \o <<"x">>,
   <<"P", "s">> \o End \o End, <<"G", "u">> \o End \o End,
   <<"G", "s">> \o End \o <<"x">> \o End \o End,
   <<"G", "s">> \o End \o End \o <<"x">> \o End \o End,
   <<"G", "c">> \o End \o <<"x">> \o End \o End \o <<"x">>,
   <<"G", "s">> \o End \o <<"x", "x", "x", "x">> \o End \o <<"x">> \o End \o End}
=============================================================================
