------------------------------- MODULE Policies -------------------------------
(***************************************************************************)
(* A policy read token by token, with what it means kept beside it: the    *)
(* sets of identities that satisfy it.  There are two readings, each a     *)
(* stack of open groups: by the grammar that the package documents,        *)
(*     expr = term { "&" term }    term = factor { "|" factor }            *)
(* in which "|" binds tighter, and from left to right.  They share nothing *)
(* with the parser, which is run on every sequence of tokens reached.      *)
(***************************************************************************)
EXTENDS Expression

CONSTANT MaxTokens   \* bound: the length of an expression

ASSUME PolicyAssumption == MaxTokens \in Nat

VARIABLES
    expr,    \* the tokens so far
    after,   \* the kind of token read last: "operand", "operator" or "bad"
    terms,   \* by the grammar: the open groups, innermost last, each with the
             \* meaning of its finished terms, that of its last term so far,
             \* and the operators between its terms and factors
    mixed,   \* whether some group has both operators
    groups   \* from left to right: meaning so far and last operator

vars == <<expr, after, terms, mixed, groups>>

\* A group without a term yet.
NoTerm == [all |-> SUBSET Ids, any |-> {}, ops |-> {}]

\* A factor joins the last term of the innermost group.
AddFactor(ts, means) == [ts EXCEPT ![Len(ts)].any = @ \cup means]

\* "&" ends a term.
AddOperator(g, op) ==
    [all |-> IF op = "&" THEN g.all \cap g.any ELSE g.all,
     any |-> IF op = "&" THEN {} ELSE g.any,
     ops |-> g.ops \cup {op}]

\* What a group means by the grammar.
Grammar(g) == g.all \cap g.any

\* A group without a meaning yet: whatever comes first is its meaning.
Open == [means |-> SUBSET Ids, op |-> "&"]

Combined(group, means) ==
    IF group.op = "&" THEN group.means \cap means ELSE group.means \cup means

Init ==
    /\ expr = <<>>
    /\ groups = <<Open>>
    /\ terms = <<NoTerm>>
    /\ mixed = FALSE
    /\ after = "operator"

Top == groups[Len(groups)]

LastTerm == terms[Len(terms)]

\* The innermost group takes in an operand that is satisfied by means.
TakeIn(gs, means) == [gs EXCEPT ![Len(gs)].means = Combined(gs[Len(gs)], means)]

ReadId(i) ==
    /\ after = "operator"
    /\ groups' = TakeIn(groups, {V \in SUBSET Ids : i \in V})
    /\ terms' = AddFactor(terms, {V \in SUBSET Ids : i \in V})
    /\ after' = "operand"
    /\ UNCHANGED mixed

ReadOperator(op) ==
    /\ after = "operand"
    /\ groups' = [groups EXCEPT ![Len(groups)].op = op]
    /\ terms' = [terms EXCEPT ![Len(terms)] = AddOperator(@, op)]
    /\ mixed' = (mixed \/ LastTerm.ops \cup {op} = Operators)
    /\ after' = "operator"

ReadOpen ==
    /\ after = "operator"
    /\ groups' = Append(groups, Open)
    /\ terms' = Append(terms, NoTerm)
    /\ after' = "operator"
    /\ UNCHANGED mixed

ReadClose ==
    /\ after = "operand"
    /\ Len(groups) > 1
    /\ groups' = TakeIn(SubSeq(groups, 1, Len(groups) - 1), Top.means)
    /\ terms' = AddFactor(SubSeq(terms, 1, Len(terms) - 1), Grammar(LastTerm))
    /\ after' = "operand"
    /\ UNCHANGED mixed

Misplaced(t) ==
    /\ \/ after = "bad"
       \/ t \in Ids \cup {"("} /\ after = "operand"
       \/ t \in Operators \cup {")"} /\ after = "operator"
       \/ t = ")" /\ Len(groups) = 1
    /\ groups' = <<Open>>
    /\ terms' = <<NoTerm>>
    /\ after' = "bad"
    /\ UNCHANGED mixed

Next ==
    \E t \in Tokens :
        /\ Len(expr) < MaxTokens
        /\ expr' = Append(expr, t)
        /\ \/ t \in Ids /\ ReadId(t)
           \/ t \in Operators /\ ReadOperator(t)
           \/ t = "(" /\ ReadOpen
           \/ t = ")" /\ ReadClose
           \/ Misplaced(t)

Spec == Init /\ [][Next]_vars

-----------------------------------------------------------------------------
(* Properties *)

\* The expression may end here.
Complete == after = "operand" /\ Len(groups) = 1

\* Evaluate answers an error exactly on what is no expression, and on one in
\* which no group mixes the operators it answers what the documented grammar
\* means, for every set of valid identities: the parser's recursion, its loop
\* and its way of giving up on a token lose nothing.
EvaluatesMeaning ==
    \A V \in SUBSET Ids :
        /\ Evaluate(expr, V) = "error" <=> ~Complete
        /\ Complete /\ ~mixed => (Evaluate(expr, V) = "true" <=> V \in Grammar(LastTerm))

\* What it answers on every expression: the value from left to right.
EvaluatesLeftToRight ==
    \A V \in SUBSET Ids :
        Evaluate(expr, V) = IF ~Complete THEN "error"
                            ELSE IF V \in Top.means THEN "true" ELSE "false"

\* A policy never turns false because more identities sign: evalExpr may be
\* given every valid signature of a request.
MoreSignersNeverHurt ==
    \A V, W \in SUBSET Ids :
        V \subseteq W /\ Evaluate(expr, V) = "true" => Evaluate(expr, W) = "true"

\* "expr = term, [ '&', term ]*  term = factor, [ '|', factor ]*", and
\* "darc:a & ed25519:b | ed25519:c" means that "darc:a" and one of the others
\* must sign: the value of an expression is that of the grammar.  A run
\* refutes it.
EvaluatesGrammar ==
    \A V \in SUBSET Ids :
        Complete => (Evaluate(expr, V) = "true" <=> V \in Grammar(LastTerm))

=============================================================================
