----------------------------- MODULE MCContracts -----------------------------
\* Replies for TLC: for each validator a few it accepts, and for each of its
\* checks one that fails it.
EXTENDS Contracts

J(kind, value) == [kind |-> kind, value |-> value]
Ints(S) == {J("int", v) : v \in S}
True == J("bool", 1)

MCProblems ==
    {[problem_type |-> t, success_metric |-> "rmse", signals |-> s] :
        t \in {"regression", "blank"}, s \in {{}, {"nlp"}}}

MCFoldConfigs ==
    {[n_folds |-> n, seed |-> J("int", 42), fold_indices |-> folds] :
        n \in {J("int", 1), J("int", 2), True},
        folds \in {<<[train |-> {0}, val |-> {1}]>>, <<[train |-> {0, 1}, val |-> {1}]>>,
                   <<[train |-> {0}, val |-> {1}], [train |-> {1}, val |-> {0}]>>,
                   <<[train |-> {-1}, val |-> {}], [train |-> {1}, val |-> {0}]>>}}

MCLeakages ==
    {[severity |-> s, blocks_progression |-> b] :
        s \in {"high", "blank"}, b \in {True, J("text", 0)}}

MCBaselines ==
    {[model |-> "ridge", target |-> "y", features |-> f] : f \in {{}, {"x"}, {"x", "y"}}}

Gbm == <<"xgboost", "XGBoost">>
Mlp == <<"mlp", "mlp">>
MCPlans ==
    {[model_families |-> <<Gbm, Mlp>>, order |-> o, ensembling_strategy |-> e,
      target_score |-> J("float", 1), signals |-> s] :
        o \in {<<Gbm, Mlp>>, <<Mlp, <<"xgboost", "xgboost">>>>, <<Mlp>>, <<Mlp, Mlp>>},
        e \in {"some", "no", "blank"},
        s \in {{}, {"timeseries", "nlp"}, {"deep_learning"}}}

MCFittedAs == [target_encode |-> {"target encoding"}, ratio |-> {}]
Feature(c, o, scope) ==
    [columns |-> c, operation |-> o, params |-> <<>>, fit_scope |-> scope]
MCSpecs ==
    LET ab == Feature(<<"a", "b">>, "ratio", "global")
    IN  {<<>>, <<ab>>, <<ab, Feature(<<"b", "a">>, "ratio", "global")>>, <<ab, ab>>,
         <<Feature(<<"a", "a">>, "ratio", "global")>>,
         <<Feature(<<"a">>, "target_encode", "per_fold")>>,
         <<Feature(<<"a">>, "target_encode", "global")>>}

NumericParam(type, low, high, log, step) ==
    [type |-> type, low |-> low, high |-> high, log |-> log, step |-> step,
     choices |-> <<>>]
NumericParams ==
    {NumericParam("int", J("int", l), J("int", h), g, s) :
        l \in {0, 1}, h \in {0, 2, 3}, g \in {Absent, True, J("bool", 0)},
        s \in {Absent} \cup Ints({0, 1, 3, 4})}
      \cup {NumericParam("int", J("int", 0), J("int", h), J("text", 0), Absent) : h \in {2, 10}}
      \cup {NumericParam("float", l, h, Absent, s) :
              l \in {J("float", -1), J("int", 0), True},
              h \in {J("float", 1), J("nan", 0)}, s \in {Absent, J("float", 1)}}
Choices == {J("int", 1), True, J("float", 1), J("text", 0), J("nan", 0)}
CategoricalParams ==
    {[type |-> "categorical", low |-> Absent, high |-> Absent, log |-> Absent,
      step |-> Absent, choices |-> c] :
        c \in {<<>>} \cup {<<a, b>> : a \in Choices, b \in Choices}}

Reply(families, keys, space, fixed) ==
    [model_family |-> families, keys |-> keys, space |-> space, fixed |-> fixed,
     preprocessing |-> {"step"}]

Depth == [type |-> "int", low |-> J("int", 1), high |-> J("int", 3), log |-> Absent,
          step |-> Absent, choices |-> <<>>]
Names == {"max_depth", "n_folds", "lambda()"}
MCDesigns ==
    {Reply({"any"}, {}, [n \in {"max_depth"} |-> p], [n \in {} |-> <<>>]) :
        p \in NumericParams \cup CategoricalParams}
      \cup {Reply(f, k, [n \in s |-> Depth], [n \in x |-> <<J("int", v)>>]) :
              f \in {{"any"}, {"any", "other"}}, k \in {{}, {"cv"}},
              s \in SUBSET Names, x \in SUBSET {"max_depth", "min_leaf"}, v \in {1, 99}}

Specialists == {"timeseries_specialist", "nlp_specialist", "deep_learning_specialist",
                "classical_ml_specialist", "ensemble_specialist"}
MCFamilies == [s \in Specialists |-> {"any", "other"}]
MCUsableNames == {"max_depth", "min_leaf", "n_folds"}
MCForbiddenCvKeys == {"cv", "n_folds"}

MCDiagnoses ==
    {[root_cause |-> r, confidence |-> c, evidence |-> n] :
        r \in {"overfitting", "other"},
        c \in {J("int", 1), J("float", 2), True, J("nan", 0)}, n \in {0, 1}}

Lists(entries) ==
    {<<a>> : a \in entries} \cup {<<a, b>> : a \in entries, b \in entries}
MCHypothesisLists ==
    Lists({[id |-> i, rank |-> k, impact |-> "high"] :
             i \in {<<"h1", "H1">>, <<"h1", "h1">>, <<"h2", "h2">>}, k \in 0..3})
MCChangeLists == Lists({[target |-> t, rank |-> k] : t \in {"data", "other"}, k \in 0..3})
=============================================================================
