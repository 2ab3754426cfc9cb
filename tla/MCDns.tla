------------------------------- MODULE MCDns --------------------------------
(***************************************************************************)
(* A zone "com" that may have a smaller zone "ex.com" in it, names in the  *)
(* smaller one, and wildcards in either, one of them an alias that may     *)
(* close a loop.                                                           *)
(***************************************************************************)
EXTENDS Dns

com == <<"com">>
exCom == <<"ex", "com">>
wwwExCom == <<"www", "ex", "com">>

Row(name, type) == [name |-> name, type |-> type, target |-> NoName]
Alias(name, target) == [name |-> name, type |-> "CNAME", target |-> target]

MCLabels == {"*", "www", "ex", "com"}
MCCandidates ==
    {Row(wwwExCom, "A"), Alias(wwwExCom, exCom), Row(exCom, "A"),
     Row(<<"*", "ex", "com">>, "TXT"), Alias(<<"*", "com">>, wwwExCom),
     Row(<<"*", "com">>, "TXT")}
MCDomains == {com, exCom}
MCQuestions ==
    {[name |-> wwwExCom, type |-> t] : t \in {"A", "TXT", "CNAME"}}
        \cup {[name |-> exCom, type |-> "TXT"]}

\* A zone with an alias, to ask for its TXT records.
AliasCandidates == {Alias(wwwExCom, exCom), Row(exCom, "A"), Row(exCom, "TXT")}
=============================================================================
