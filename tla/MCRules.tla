------------------------------ MODULE MCRules ------------------------------
(***************************************************************************)
(* Four modules that share no state: the deltas of a meter, the contracts  *)
(* and the splitting of scripts, each over the inputs it builds, and the   *)
(* promotion of reference data.  Only one of them moves in a behaviour.    *)
(***************************************************************************)
EXTENDS Contracts, Statements, Deltas, Reference

VARIABLE rule   \* the one that moves

\* Letters of marks and words, and lone signs; literals with a semicolon, a
\* comment's mark and a pair of quotes; blocks of which the second contains the
\* mark of the first; a comment that ends with its line and one without an end.
MCChar == {"x", "t", "blank", "\n", "'", "$", "semicolon", "-"}
MCLetters == {"x", "t"}
MCWord == {<<"x">>, <<"-">>, <<"$">>}
MCLiteral == {<<"'", "semicolon", "'">>, <<"'", "'", "'", "semicolon", "'">>,
              <<"'", "\n", "-", "-", "'">>}
MCBlock == {<<"$", "$", "'", "semicolon", "$", "$">>,
            <<"$", "t", "$", "$", "$", "semicolon", "$", "t", "$">>}
MCComment == {<<"-", "-", "'", "semicolon", "\n">>, <<"-", "-", "semicolon">>}

MCNudge == {-3, 3}

\* What Truthful asks of the instance.
ASSUME MCSteps == StepsAreSmall(2, 3, MaxMissed + 1)

\* A site whose assignment changes and a tariff that loses a band; a site that
\* names its tariff only later, and its meter; two observations of a station.
MCRow ==
  {[source |-> "sites", key |-> "s", version |-> v,
    assigned |-> [from |-> v, tariff |-> "t"]] : v \in {1, 2}}
  \cup
  {[source |-> "sites", key |-> "u", version |-> 1,
    assigned |-> [from |-> 1, tariff |-> Null]],
   [source |-> "sites", key |-> "u", version |-> 2,
    assigned |-> [from |-> 1, tariff |-> "r"]],
   [source |-> "tariffs", key |-> "r", version |-> 1, bands |-> {"day"}],
   [source |-> "meters", key |-> "m", version |-> 1, site |-> "u"]}
  \cup
  {[source |-> "tariffs", key |-> "t", version |-> 1, bands |-> {"day", "night"}],
   [source |-> "tariffs", key |-> "t", version |-> 2, bands |-> {"day"}],
   [source |-> "weather", key |-> "w1", version |-> 1, station |-> "w"],
   [source |-> "weather", key |-> "w2", version |-> 2, station |-> "w"]}

\* No foreign key connects these parts.
Delivered ==
  [tariffs |-> {w \in Row : w.key \in {"s", "t"}},
   meters  |-> {w \in Row : w.key \in {"u", "r", "m"}},
   weather |-> {w \in Row : w.key \in {"w1", "w2"}}]

Init ==
  /\ rule \in {"deltas", "contracts", "statements"} \cup DOMAIN Delivered
  /\ RecordInit
  /\ ScriptInit
  /\ MeterInit
  /\ ReferenceInit
  /\ rule # "contracts" => source = CHOOSE s \in Source : TRUE
  /\ rule # "deltas" => base = CHOOSE r \in StartRegister : TRUE

Next ==
  /\ UNCHANGED rule
  /\ \/ rule = "contracts" /\ RecordNext /\ UNCHANGED <<scriptVars, meterVars, referenceVars>>
     \/ rule = "statements" /\ ScriptNext /\ UNCHANGED <<recordVars, meterVars, referenceVars>>
     \/ rule = "deltas" /\ MeterNext /\ UNCHANGED <<recordVars, scriptVars, referenceVars>>
     \/ /\ rule \in DOMAIN Delivered
        /\ ReferenceNext(Delivered[rule])
        /\ UNCHANGED <<recordVars, scriptVars, meterVars>>

Spec == Init /\ [][Next]_<<rule, recordVars, scriptVars, meterVars, referenceVars>>
=============================================================================
