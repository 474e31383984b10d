--------------------------- MODULE MCPricingEditor ---------------------------
(* PricingEditor for TLC. *)
EXTENDS PricingEditor

MCTier(conds, price) == [conds |-> conds, price |-> price]
MCRule == <<[conds |-> <<"plain">>, mult |-> 2]>>
MCCompoundRule == <<[conds |-> <<"compound">>, mult |-> 2]>>
MCQuotedRule == <<[conds |-> <<"quoted">>, mult |-> 2]>>
MCFlat == <<MCTier({}, 1)>>
MCTwo  == <<MCTier({1}, 0), MCTier({}, 1)>>

\* No expression, a flat price, the same under a rule that compares with a
\* quoted number, two tiers spaced by hand under a rule, and a hand-written one.
MCStored == {Empty, Text("chain", MCFlat, <<>>), Text("chain", MCFlat, <<MCQuotedRule>>),
             Text("spaced", MCTwo, <<MCRule>>),
             Text("other", <<>>, <<MCRule>>)}

\* A hand-written expression only.
MCHandWritten == {Text("other", <<>>, <<MCRule>>)}

MCRaw == {Empty, Text("chain", MCTwo, <<MCRule>>), Text("other", <<>>, <<>>),
          Text("other", <<>>, <<MCQuotedRule>>),
          Text("chain", MCFlat, <<MCCompoundRule>>)}

MCPresets == {[tiers |-> MCTwo, groups |-> MCRule],
              [tiers |-> MCFlat, groups |-> MCCompoundRule]}
=============================================================================
