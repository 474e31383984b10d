--------------------------- MODULE PricingEditor ----------------------------
(***************************************************************************)
(* The editor of tiered prices in the web client: the dialog of a model's  *)
(* price (system-settings/models/model-ratio-dialog.tsx), the visual and   *)
(* raw editor inside it (tiered-pricing-editor.tsx), the translation       *)
(* between price expressions and what the editor shows                     *)
(* (pricing/lib/tier-expr.ts, billing-expr.ts) and the meaning the server  *)
(* gives a stored expression (pkg/billingexpr/run.go).                     *)
(*                                                                         *)
(* The dialog owns the two halves of the price, billing and rule; the      *)
(* editor owns a copy of them in another form, and four effects keep the   *)
(* copies together.  A click or a keystroke is one action; the effects     *)
(* that follow it run, a round per render, in the action Flush, and the    *)
(* user acts again when they have come to rest.                            *)
(*                                                                         *)
(* An expression is a chain of tiers (or something the visual editor has   *)
(* no form for) under layers of request rules: combineBillingExpr adds a   *)
(* layer, splitBillingExprAndRequestRules takes one away.                  *)
(***************************************************************************)
EXTENDS Integers, Sequences, SequencesExt, FiniteSetsExt

CONSTANTS Models,
          Prices,      \* the unit costs of a tier
          Bounds,      \* the thresholds of tier conditions, len < b
          DefaultBound,\* the threshold the editor gives a new condition
          StoredTexts, \* the expressions a model may be stored with
          RawTexts,    \* the expressions typed into the raw editor
          Presets,     \* the presets: tiers and rule groups
          MaxTiers,    \* a bound: the tiers of the visual editor
          MaxGroups,   \* a bound: the rule groups of the visual editor
          MaxActs      \* a bound: what the user does in open dialogs

VARIABLES stored,  \* billing_setting.billing_expr, by model
          dialog,  \* the dialog: model, editData, pricingMode, the two halves
          ed,      \* the state of the editor
          initRef, \* initRef.current
          seen,    \* the values the effects of the editor last ran with
          fresh,   \* the editor is mounted and its effects have not run yet
          renamed, \* a model name was typed that the editor was not given yet
          acts,    \* what the user did in open dialogs
          meant    \* history: the expression the user last loaded or entered,
                   \* if that was not Torn

vars == <<stored, dialog, ed, initRef, seen, fresh, renamed, acts, meant>>

None == "none"

\* A tier holds when its conditions do; its price is a factor of the usage.
Tier == [conds: SUBSET Bounds, price: Prices]

\* A condition of a rule group: blank when it is not filled in, plain when it
\* is one comparison, compound when it is written "param != nil && ...".
Cond == {"blank", "plain", "compound"}
Group == [conds: Seq(Cond), mult: {0, 2}]  \* 0: no multiplier typed

\* A condition as it is written.  quoted is a comparison with a string that
\* reads like a boolean or a number, == "true" or == "5", or that has blanks
\* around it.
Test == {"plain", "quoted", "compound"}

\* A rule as it is written: factors with conditions and a multiplier.
Factor == [conds: Seq(Test) \ {<<>>}, mult: {2}]
Rule == Seq(Factor)

\* Expressions.  zero is 'p * 0 + c * 0'; spaced is a chain of tiers that is
\* not spaced as the generator spaces it, other is hand-written.
Text(kind, tiers, layers) == [kind |-> kind, tiers |-> tiers, layers |-> layers]
Empty == Text("empty", <<>>, <<>>)
Zero  == Text("zero", <<>>, <<>>)

\* A chain has a tier, and of several the last has no condition: anything else
\* is not what the generator makes of its tiers, and the parser compares.
Texts == {t \in [kind: {"empty", "zero", "chain", "spaced", "other"},
                 tiers: Seq(Tier), layers: Seq(Rule \ {<<>>})] :
            /\ t.kind = "empty" => t = Empty
            /\ t.kind \in {"chain", "spaced"} =>
                  /\ t.tiers # <<>>
                  /\ Len(t.tiers) > 1 => Last(t.tiers).conds = {}}

ASSUME PricesAssumption == Prices \subseteq Nat /\ 0 \in Prices
ASSUME BoundsAssumption == Bounds \subseteq Nat /\ DefaultBound \in Bounds
ASSUME TextsAssumption == StoredTexts \cup RawTexts \subseteq Texts
ASSUME PresetsAssumption ==
    \A p \in Presets : Text("chain", p.tiers, <<>>) \in Texts /\ p.groups \in Seq(Group)
ASSUME MaxAssumption == MaxTiers \in Nat /\ MaxGroups \in Nat /\ MaxActs \in Nat
ASSUME NoneAssumption == None \notin Models

\* SelectSeq and a product, as recursive functions.
Kept(s, good) ==
    LET kept[n \in 0 .. Len(s)] ==
            IF n = 0 THEN <<>>
            ELSE IF s[n] \in good THEN Append(kept[n - 1], s[n]) ELSE kept[n - 1]
    IN  kept[Len(s)]

Product(s) ==
    LET product[n \in 0 .. Len(s)] ==
            IF n = 0 THEN 1 ELSE product[n - 1] * s[n]
    IN  product[Len(s)]

-----------------------------------------------------------------------------
(* pricing/lib/billing-expr.ts *)

\* buildRuleGroupFactor: the conditions that are filled in, joined by &&.
Written(g) == Kept(g.conds, Cond \ {"blank"})

Filled == {g \in Group : g.mult # 0 /\ Written(g) # <<>>}

buildRequestRuleExpr(groups) ==
    LET filled == Kept(groups, Filled)
    IN  [i \in DOMAIN filled |-> [conds |-> Written(filled[i]),
                                  mult  |-> filled[i].mult]]

\* tryParseRuleGroupFactor splits at every && before it parses: the second
\* half of a compound condition is no condition, and the group fails.
Parses(factor) == "compound" \notin Range(factor.conds)

\* The quotes of "true" and "5" are dropped, and buildExprLiteral writes such
\* a value without quotes (and trims it): the group is another comparison than
\* the text.
parseExprLiteral(test) == IF test = "quoted" THEN "plain" ELSE test

ParsedGroup(factor) ==
    [conds |-> [k \in DOMAIN factor.conds |-> parseExprLiteral(factor.conds[k])],
     mult  |-> factor.mult]

ParsedGroups(rule) == [i \in DOMAIN rule |-> ParsedGroup(rule[i])]

\* tryParseRequestRuleExpr, with {} for null.
tryParseRequestRuleExpr(rule) ==
    IF \A i \in DOMAIN rule : Parses(rule[i]) THEN {ParsedGroups(rule)} ELSE {}

\* tryParseRequestRuleExpr(rule) || []
GroupsOf(rule) ==
    IF tryParseRequestRuleExpr(rule) = {} THEN <<>> ELSE ParsedGroups(rule)

combineBillingExpr(base, rule) ==
    IF base.kind = "empty" \/ rule = <<>> THEN base
    ELSE [base EXCEPT !.layers = Append(@, rule)]

\* All factors but the base must parse, or the text is left whole.
splitBillingExprAndRequestRules(t) ==
    IF /\ t.layers # <<>>
       /\ tryParseRequestRuleExpr(Last(t.layers)) # {}
    THEN [billingExpr |-> [t EXCEPT !.layers = Front(@)],
          requestRuleExpr |-> Last(t.layers)]
    ELSE [billingExpr |-> t, requestRuleExpr |-> <<>>]

-----------------------------------------------------------------------------
(* pricing/lib/tier-expr.ts; <<>> is the config null *)

\* Mutant of createDefaultVisualConfig: a price that marks "not set".
createDefaultUnset == <<[conds |-> {}, price |-> -1]>>

createDefaultVisualConfig == <<[conds |-> {}, price |-> 0]>>

normalizeVisualConfig(config) ==
    IF config = <<>> THEN createDefaultVisualConfig ELSE config

\* Mutant of generateExprFromVisualConfig: every tier keeps its conditions.
generateExprAllConditions(config) ==
    IF config = <<>> THEN Zero ELSE Text("chain", config, <<>>)

\* The conditions of the last of several tiers are not written.
generateExprFromVisualConfig(config) ==
    IF config = <<>> THEN Zero
    ELSE IF Len(config) = 1 THEN Text("chain", config, <<>>)
    ELSE Text("chain", [config EXCEPT ![Len(config)].conds = {}], <<>>)

tryParseVisualConfig(t) ==
    IF t.kind \in {"chain", "spaced"} /\ t.layers = <<>> THEN t.tiers ELSE <<>>

-----------------------------------------------------------------------------
(* pkg/billingexpr/run.go: the value of an expression for a request of      *)
(* length len and the rule conditions that hold of it.  An expression that  *)
(* does not compile has no value.                                           *)

Usages == [len: {0} \cup Bounds, holds: SUBSET Test]

Holds(conds, u) == \A b \in conds : u.len < b

\* cond ? tier : cond ? tier : tier; a lone tier may have a condition (its
\* alternative is zero), a tier in the middle must have one.
Compiles(t) ==
    \/ t.kind \in {"zero", "other"}
    \/ /\ t.kind \in {"chain", "spaced"}
       /\ \A i \in 1 .. Len(t.tiers) - 1 : t.tiers[i].conds # {}

ChainPrice(tiers, u) ==
    LET first == SelectInSeq(tiers, LAMBDA tier : Holds(tier.conds, u))
    IN  IF first = 0 THEN 0 ELSE tiers[first].price

LeafPrice(t, u) == CASE t.kind = "zero"  -> 0
                     [] t.kind = "other" -> 1
                     [] OTHER            -> ChainPrice(t.tiers, u)

Multiplier(factor, u) == IF Range(factor.conds) \subseteq u.holds
                         THEN factor.mult ELSE 1

LayerMultiplier(layer, u) ==
    Product([i \in DOMAIN layer |-> Multiplier(layer[i], u)])

LayersMultiplier(layers, u) ==
    Product([i \in DOMAIN layers |-> LayerMultiplier(layers[i], u)])

Price(t, u) == LeafPrice(t, u) * LayersMultiplier(t.layers, u)

SamePrice(s, t) == \/ s.kind = "empty" /\ t.kind = "empty"
                   \/ /\ Compiles(s) /\ Compiles(t)
                      /\ \A u \in Usages : Price(s, u) = Price(t, u)
                   \/ /\ s.kind \notin {"empty"} /\ t.kind \notin {"empty"}
                      /\ ~Compiles(s) /\ ~Compiles(t)

-----------------------------------------------------------------------------
(* tiered-pricing-editor.tsx: the editor *)

Mounted == dialog.model # None /\ dialog.tiered

\* The initial values of the editor's state.
Mount(billing, rule) ==
    [mode   |-> "visual",
     visual |-> tryParseVisualConfig(billing),
     raw    |-> combineBillingExpr(billing, rule),
     groups |-> GroupsOf(rule)]

Unmounted == [mode |-> "visual", visual |-> <<>>, raw |-> Empty, groups |-> <<>>]

effectiveExpr ==
    IF ed.mode = "visual" THEN generateExprFromVisualConfig(ed.visual)
    ELSE splitBillingExprAndRequestRules(ed.raw).billingExpr

canUseVisualRules == tryParseRequestRuleExpr(dialog.rule) # {}

Settled ==
    Mounted => /\ ~fresh
               /\ seen = <<dialog.billing, dialog.rule>>
               /\ effectiveExpr = dialog.billing
               /\ ed.mode = "visual" =>
                     buildRequestRuleExpr(ed.groups) = dialog.rule

\* Mutant of InitEditor: the rule groups are not set again.
InitEditorNoRules ==
    LET parsed == tryParseVisualConfig(dialog.billing)
        known  == [Mount(dialog.billing, dialog.rule) EXCEPT !.groups = <<>>]
    IN  IF parsed # <<>> THEN known
        ELSE IF dialog.billing.kind # "empty"
        THEN [known EXCEPT !.mode = "raw"]
        ELSE [known EXCEPT !.mode = ed.mode, !.visual = createDefaultVisualConfig]

\* The first effect: what it makes of the state of the editor.
InitEditor ==
    LET parsed == tryParseVisualConfig(dialog.billing)
        known  == Mount(dialog.billing, dialog.rule)
    IN  IF parsed # <<>> THEN known
        ELSE IF dialog.billing.kind # "empty"
        THEN [known EXCEPT !.mode = "raw"]
        ELSE [known EXCEPT !.mode = ed.mode, !.visual = createDefaultVisualConfig]

\* Mutant of Flush: the first effect does not mark that it has run.
FlushUnmarked ==
    /\ ~Settled
    /\ LET init == fresh \/ seen # <<dialog.billing, dialog.rule>>
       IN  ed' = IF init THEN InitEditor ELSE ed
    /\ initRef' = FALSE
    /\ renamed' = FALSE
    /\ dialog' = [dialog EXCEPT
                    !.billing = effectiveExpr,
                    !.rule = IF ed.mode = "visual"
                             THEN buildRequestRuleExpr(ed.groups) ELSE @]
    /\ seen' = <<dialog.billing, dialog.rule>>
    /\ fresh' = FALSE
    /\ UNCHANGED <<stored, acts, meant>>

\* One round of the effects, all with the values of one render: initialise
\* unless initRef says it was done, forget that on a new model name, push the
\* price to the dialog, push the rules to the dialog.  The dialog reads the
\* name only when it renders, which a change of its two halves makes it do.
Flush ==
    /\ ~Settled
    /\ LET news == seen # <<dialog.billing, dialog.rule>>
           init == ~initRef /\ (fresh \/ news)
       IN  /\ ed' = IF init THEN InitEditor ELSE ed
           /\ initRef' = (~(fresh \/ (renamed /\ news)) /\ (initRef \/ init))
           /\ renamed' = (renamed /\ ~news)
    /\ dialog' = [dialog EXCEPT
                    !.billing = effectiveExpr,
                    !.rule = IF ed.mode = "visual"
                             THEN buildRequestRuleExpr(ed.groups) ELSE @]
    /\ seen' = <<dialog.billing, dialog.rule>>
    /\ fresh' = FALSE
    /\ UNCHANGED <<stored, acts, meant>>

\* What the user does in the mounted editor.
Act(means) ==
    /\ Mounted /\ Settled
    /\ acts < MaxActs
    /\ acts' = acts + 1
    /\ meant' = means
    /\ UNCHANGED <<stored, initRef, seen, fresh>>

OnDisplay(config, groups) ==
    combineBillingExpr(generateExprFromVisualConfig(config),
                       buildRequestRuleExpr(groups))

EditVisual(config) ==
    /\ Act({OnDisplay(config, ed.groups)})
    /\ ed.mode = "visual"
    /\ ed' = [ed EXCEPT !.visual = config]
    /\ UNCHANGED <<dialog, renamed>>

Shown == normalizeVisualConfig(ed.visual)

\* handlePriceChange and handleConditionChange: any new price, any new bounds
\* for the conditions there are.
HandleTierChange(i, tier) ==
    /\ i \in DOMAIN Shown
    /\ tier.price = Shown[i].price \/ tier.conds = Shown[i].conds
    /\ Cardinality(tier.conds) = Cardinality(Shown[i].conds)
    /\ EditVisual([Shown EXCEPT ![i] = tier])

\* A catch-all that is no longer the last tier gets a condition.
HandleAddTier ==
    /\ Len(Shown) < MaxTiers
    /\ LET n     == Len(Shown)
           tiers == IF Shown[n].conds = {}
                    THEN [Shown EXCEPT ![n].conds = {DefaultBound}] ELSE Shown
       IN  EditVisual(Append(tiers, [conds |-> {}, price |-> 0]))

HandleRemoveTier(i) ==
    /\ i \in DOMAIN Shown
    /\ Len(Shown) > 1
    /\ EditVisual(RemoveAt(Shown, i))

HandleAddCondition(i) ==
    /\ i \in DOMAIN Shown
    /\ DefaultBound \notin Shown[i].conds
    /\ Cardinality(Shown[i].conds) < 2
    /\ EditVisual([Shown EXCEPT ![i].conds = @ \cup {DefaultBound}])

HandleConditionRemove(i, b) ==
    /\ i \in DOMAIN Shown
    /\ b \in Shown[i].conds
    /\ EditVisual([Shown EXCEPT ![i].conds = @ \ {b}])

\* The rule groups, hidden behind a notice when the rule does not parse.
HandleRuleGroupsChange(groups) ==
    /\ Act({OnDisplay(ed.visual, groups)})
    /\ ed.mode = "visual"
    /\ canUseVisualRules
    /\ ed' = [ed EXCEPT !.groups = groups]
    /\ UNCHANGED <<dialog, renamed>>

AddRuleGroup ==
    /\ Len(ed.groups) < MaxGroups
    /\ HandleRuleGroupsChange(Append(ed.groups, [conds |-> <<"blank">>, mult |-> 0]))

RemoveRuleGroup(i) ==
    /\ i \in DOMAIN ed.groups
    /\ HandleRuleGroupsChange(RemoveAt(ed.groups, i))

ChangeRuleCondition(i, c) ==
    /\ i \in DOMAIN ed.groups
    /\ ed.groups[i].conds # <<>>
    /\ HandleRuleGroupsChange(
          [ed.groups EXCEPT ![i].conds = [@ EXCEPT ![Len(@)] = c]])

AddRuleCondition(i) ==
    /\ i \in DOMAIN ed.groups
    /\ Len(ed.groups[i].conds) < 2
    /\ HandleRuleGroupsChange([ed.groups EXCEPT ![i].conds = Append(@, "blank")])

RemoveRuleCondition(i) ==
    /\ i \in DOMAIN ed.groups
    /\ ed.groups[i].conds # <<>>
    /\ HandleRuleGroupsChange([ed.groups EXCEPT ![i].conds = Front(@)])

ChangeMultiplier(i) ==
    /\ i \in DOMAIN ed.groups
    /\ ed.groups[i].mult = 0
    /\ HandleRuleGroupsChange([ed.groups EXCEPT ![i].mult = 2])

\* The handlers that set both halves of the price set the rules at once and
\* leave the tiers to an effect.  While initRef is false the first effect
\* then reads the new rules with the old tiers, and restores the old tiers.
Torn(billing, rule) == ~initRef /\ billing # dialog.billing /\ rule # dialog.rule

\* What t, entered as these halves, leaves of what the user means.
Entered(billing, rule, t) == IF Torn(billing, rule) THEN {} ELSE {t}

\* A keystroke in the raw editor: the price follows by an effect, the rules
\* at once.
HandleRawChange(t) ==
    LET split == splitBillingExprAndRequestRules(t)
    IN  /\ Act(Entered(split.billingExpr, split.requestRuleExpr, t))
        /\ ed.mode = "raw"
        /\ ed' = [ed EXCEPT !.raw = t]
        /\ dialog' = [dialog EXCEPT !.rule = split.requestRuleExpr]
        /\ UNCHANGED renamed

HandleModeChangeToVisual ==
    LET split  == splitBillingExprAndRequestRules(ed.raw)
        parsed == tryParseVisualConfig(split.billingExpr)
        groups == GroupsOf(split.requestRuleExpr)
    IN  /\ ed.mode = "raw"
        /\ Act(IF parsed # <<>> THEN meant
               ELSE Entered(generateExprFromVisualConfig(createDefaultVisualConfig),
                            split.requestRuleExpr,
                            OnDisplay(createDefaultVisualConfig, groups)))
        /\ ed' = [ed EXCEPT !.mode = "visual",
                            !.visual = normalizeVisualConfig(parsed),
                            !.groups = groups]
        /\ dialog' = [dialog EXCEPT !.rule = split.requestRuleExpr]
        /\ UNCHANGED renamed

HandleModeChangeToRaw ==
    /\ ed.mode = "visual"
    /\ Act(meant)
    /\ ed' = [ed EXCEPT !.mode = "raw", !.raw = OnDisplay(ed.visual, ed.groups)]
    /\ UNCHANGED <<dialog, renamed>>

ApplyPreset(p) ==
    LET expr == Text("chain", p.tiers, <<>>)
        rule == buildRequestRuleExpr(p.groups)
    IN  /\ Act(Entered(expr, rule, OnDisplay(p.tiers, p.groups)))
        /\ ed' = [mode |-> "visual", visual |-> tryParseVisualConfig(expr),
                  raw |-> combineBillingExpr(expr, rule), groups |-> p.groups]
        /\ dialog' = [dialog EXCEPT !.rule = rule]
        /\ UNCHANGED renamed

\* The name of a model that is being added is typed (or typed again) while
\* the editor is there: the second effect runs at the next render of the dialog.
TypeName ==
    /\ dialog.adding
    /\ ~renamed
    /\ Act(meant)
    /\ renamed' = TRUE
    /\ UNCHANGED <<dialog, ed>>

-----------------------------------------------------------------------------
(* model-ratio-visual-editor.tsx, model-ratio-dialog.tsx: the dialog *)

Closed == [model |-> None, adding |-> FALSE, tiered |-> FALSE,
           billing |-> Empty, rule |-> <<>>]

\* The editor appears with the state useState gives it.
Show(d) ==
    /\ dialog' = d
    /\ ed' = IF d.tiered THEN Mount(d.billing, d.rule) ELSE Unmounted
    /\ initRef' = FALSE
    /\ seen' = <<Empty, <<>>>>
    /\ fresh' = d.tiered
    /\ renamed' = FALSE

\* handleEdit and handleAdd: the row of the model, its expression split, is
\* copied into the dialog, whose effect sets the halves of the price before
\* the portal of the dialog mounts the editor.
OpenDialog(m, adding) ==
    /\ dialog.model = None
    /\ adding => stored[m] = Empty
    /\ LET row == splitBillingExprAndRequestRules(stored[m])
       IN  Show([model |-> m, adding |-> adding, tiered |-> stored[m] # Empty,
                 billing |-> row.billingExpr, rule |-> row.requestRuleExpr])
    /\ meant' = {stored[m]}
    /\ UNCHANGED <<stored, acts>>

\* The radio buttons of the pricing mode unmount and mount the editor.
SetPricingMode ==
    /\ dialog.model # None
    /\ Settled
    /\ acts < MaxActs
    /\ Show([dialog EXCEPT !.tiered = ~@])
    /\ acts' = acts + 1
    /\ UNCHANGED <<stored, meant>>

\* handleSubmit and handleSave
HandleSave ==
    /\ dialog.model # None
    /\ Settled
    /\ stored' = [stored EXCEPT ![dialog.model] =
                    IF dialog.tiered
                    THEN combineBillingExpr(dialog.billing, dialog.rule)
                    ELSE Empty]
    /\ Show(Closed)
    /\ UNCHANGED <<acts, meant>>

HandleCancel ==
    /\ dialog.model # None
    /\ Settled
    /\ Show(Closed)
    /\ UNCHANGED <<stored, acts, meant>>

Init ==
    /\ stored \in [Models -> StoredTexts]
    /\ dialog = Closed
    /\ ed = Unmounted
    /\ initRef = FALSE
    /\ seen = <<Empty, <<>>>>
    /\ fresh = FALSE
    /\ renamed = FALSE
    /\ acts = 0
    /\ meant = {}

EditTiers ==
    \/ HandleAddTier
    \/ \E i \in 1 .. MaxTiers :
          \/ \E tier \in Tier : HandleTierChange(i, tier)
          \/ HandleRemoveTier(i)
          \/ HandleAddCondition(i)
          \/ \E b \in Bounds : HandleConditionRemove(i, b)

EditRules ==
    \/ AddRuleGroup
    \/ \E i \in 1 .. MaxGroups :
          \/ RemoveRuleGroup(i)
          \/ \E c \in Cond : ChangeRuleCondition(i, c)
          \/ AddRuleCondition(i)
          \/ RemoveRuleCondition(i)
          \/ ChangeMultiplier(i)

Next ==
    \/ \E m \in Models, adding \in BOOLEAN : OpenDialog(m, adding)
    \/ SetPricingMode
    \/ HandleSave
    \/ HandleCancel
    \/ Flush
    \/ EditTiers
    \/ EditRules
    \/ \E t \in RawTexts : HandleRawChange(t)
    \/ HandleModeChangeToVisual
    \/ HandleModeChangeToRaw
    \/ \E p \in Presets : ApplyPreset(p)
    \/ TypeName

Spec == Init /\ [][Next]_vars

\* React runs the effects of every render it commits.
FairSpec == Spec /\ WF_vars(Flush)

-----------------------------------------------------------------------------
(* Properties *)

TypeOK ==
    /\ stored \in [Models -> Texts]
    /\ dialog \in [model: Models \cup {None}, adding: BOOLEAN, tiered: BOOLEAN,
                   billing: Texts, rule: Rule]
    /\ ed \in [mode: {"visual", "raw"}, visual: Seq(Tier), raw: Texts,
               groups: Seq(Group)]
    /\ initRef \in BOOLEAN
    /\ seen \in Texts \X Rule
    /\ fresh \in BOOLEAN
    /\ renamed \in BOOLEAN
    /\ acts \in 0 .. MaxActs
    /\ meant \in SUBSET Texts

Saved == combineBillingExpr(dialog.billing, dialog.rule)

\* The visual editor has a form for the expression, and its rules read back as
\* they are written: a compound condition does not parse, and a quoted one
\* comes back without its quotes, as another comparison.
Visual(t) ==
    /\ t.kind \in {"chain", "spaced"}
    /\ Len(t.layers) <= 1
    /\ \A i \in DOMAIN t.layers : tryParseRequestRuleExpr(t.layers[i]) = {t.layers[i]}

\* What the user loaded or entered last is what a save would store, if it is
\* Visual and was not Torn when it was entered: neither the first effect, which
\* overwrites the editor with the dialog's older copy, nor a change of mode,
\* nor a switch of the pricing mode that mounts the editor anew, loses or
\* repeats a part of the price.  It says nothing of the others: a rule with
\* == "true" or == "5" is stored unquoted once the visual editor has shown it,
\* and of an entry that changed both halves while initRef was false the first
\* effect restores the old tiers under the new rules.
EditsStick ==
    Mounted /\ Settled => \A t \in meant : Visual(t) => SamePrice(Saved, t)

\* The same as EditsStick for opening any expression: the doc of the price
\* expressions says that in raw mode the string itself is edited.
OpenKeepsPrice ==
    Mounted /\ Settled /\ acts = 0 => SamePrice(Saved, stored[dialog.model])

\* The price the table of the visual editor states: the first tier whose
\* conditions hold, else the last, the catch-all; nothing when a lone tier
\* has conditions that fail; times the multipliers of the rules that match.
RuleFactor(g, u) ==
    IF /\ Written(g) # <<>>
       /\ Range(Written(g)) \subseteq u.holds
       /\ g.mult # 0
    THEN g.mult ELSE 1

TablePrice(u) ==
    LET n    == Len(Shown)
        hits == {i \in 1 .. n : Holds(Shown[i].conds, u) \/ (i = n /\ n > 1)}
    IN  (IF hits = {} THEN 0 ELSE Shown[Min(hits)].price)
          * Product([i \in DOMAIN ed.groups |-> RuleFactor(ed.groups[i], u)])

\* The server charges for a saved price what the table on the screen states,
\* whenever the expression compiles.
ChargesWhatTheTableSays ==
    Mounted /\ Settled /\ ed.mode = "visual" /\ Compiles(Saved) =>
        \A u \in Usages : Price(Saved, u) = TablePrice(u)

\* The effects come to rest: none of them undoes for ever what another did.
EffectsSettle == ~Settled ~> Settled
=============================================================================
