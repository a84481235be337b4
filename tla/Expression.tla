------------------------------ MODULE Expression ------------------------------
(***************************************************************************)
(* The policy language of darcs (omniledger/darc/expression).  An          *)
(* expression is a sequence of tokens: identities, operators, parentheses. *)
(* The parser evaluates while it parses:                                   *)
(*     sum   -> value (("&" | "|") value)*                                 *)
(*     value -> id | "(" sum ")"                                           *)
(* The operators have one precedence and associate to the left.  Blanks    *)
(* only separate tokens, and a character that starts no token fails like   *)
(* any misplaced one.                                                      *)
(***************************************************************************)
EXTENDS Naturals, Sequences

CONSTANT Ids   \* identities that may occur in an expression

\* An identity starts with its type and is none of the other tokens.
ASSUME IdsAssumption == Ids \cap {"&", "|", "(", ")", ""} = {}

Operators == {"&", "|"}

Tokens == Ids \cup Operators \cup {"(", ")"}

\* Mutant of sumNode: "|" refuses when both sides hold.
sumNodeExclusive(op, val, n) == IF op = "&" THEN val /\ n ELSE val # n

\* One round of the loop of sumNode.
sumNode(op, val, n) == IF op = "&" THEN val /\ n ELSE val \/ n

\* What a parser answers: whether it matched, the value, where it stopped.
Match(val, next) == [ok |-> TRUE, val |-> val, next |-> next]

NoMatch == [ok |-> FALSE, val |-> FALSE, next |-> 0]

Kinds == {"sum", "prodK", "value"}

\* The token at i, and none behind the last.
Token(expr, i) == IF i \in DOMAIN expr THEN expr[i] ELSE ""

\* The parsers of InitParser; p[<<kind, i, val>>] is what a parser answers at i.
value(p, expr, valid, i) ==
    IF Token(expr, i) \in Ids THEN Match(Token(expr, i) \in valid, i + 1)
    ELSE IF Token(expr, i) # "(" THEN NoMatch
    ELSE LET s == p[<<"sum", i + 1, FALSE>>]
         IN  IF s.ok /\ Token(expr, s.next) = ")" THEN Match(s.val, s.next + 1) ELSE NoMatch

sum(p, i) ==
    LET v == p[<<"value", i, FALSE>>]
    IN  IF v.ok THEN p[<<"prodK", v.next, v.val>>] ELSE NoMatch

\* The Kleene loop over (operator value), with the value so far; it stops in
\* front of an operator that no value follows.
prodK(p, expr, i, val) ==
    LET v == IF Token(expr, i) \in Operators THEN p[<<"value", i + 1, FALSE>>] ELSE NoMatch
    IN  IF v.ok THEN p[<<"prodK", v.next, sumNode(Token(expr, i), val, v.val)>>] ELSE Match(val, i)

parse(p, expr, valid, kind, i, val) ==
    IF kind = "value" THEN value(p, expr, valid, i)
    ELSE IF kind = "sum" THEN sum(p, i)
    ELSE prodK(p, expr, i, val)

\* InitParser applied to expr, when exactly the identities in valid check out.
InitParser(expr, valid) ==
    LET p[x \in Kinds \X (1..Len(expr) + 1) \X BOOLEAN] == parse(p, expr, valid, x[1], x[2], x[3])
    IN  p[<<"sum", 1, FALSE>>]

\* Mutant of Evaluate: the scanner may have tokens left.
EvaluatePrefix(expr, valid) ==
    LET r == InitParser(expr, valid)
    IN  IF ~r.ok THEN "error" ELSE IF r.val THEN "true" ELSE "false"

\* "true", "false", or "error": the parser did not match, or tokens are left.
Evaluate(expr, valid) ==
    LET r == InitParser(expr, valid)
    IN  IF ~r.ok \/ r.next # Len(expr) + 1 THEN "error"
        ELSE IF r.val THEN "true" ELSE "false"

\* The identities with the operator between them.
Joined(ids, op) ==
    [i \in 1..(IF ids = <<>> THEN 0 ELSE 2 * Len(ids) - 1) |->
        IF i % 2 = 1 THEN ids[(i + 1) \div 2] ELSE op]

InitAndExpr(ids) == Joined(ids, "&")

InitOrExpr(ids) == Joined(ids, "|")

=============================================================================
