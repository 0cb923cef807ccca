----------------------------- MODULE MCFrontEnd -----------------------------
(***************************************************************************)
(* Images of every kind: raw, hybrid, extractable only, UDF without an ISO *)
(* tree, UDF behind the descriptors that are scanned or behind an unknown  *)
(* one, and nothing of the kind.  One relaunch that works, and two of an   *)
(* escalator that gives no rights.                                         *)
(***************************************************************************)
EXTENDS FrontEnd

MCScanLimit == 2
MCMaxDepth  == 2

MCImages ==
    [boot : {"marked", "plain"},
     ids  : {<<>>, <<"CD001">>, <<"BEA01", "NSR">>, <<"other", "NSR">>,
             <<"BEA01", "BEA01", "NSR">>}]
=============================================================================
