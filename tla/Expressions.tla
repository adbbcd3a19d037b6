---------------------------- MODULE Expressions ----------------------------
(***************************************************************************)
(* The expressions of FILTER and BIND (pkg/sparql/evaluator) over one row  *)
(* of variable bindings, next to the three-valued logic that SPARQL        *)
(* defines for them.  A row is a function from the bound variables to      *)
(* terms.  What a literal says is given by constants: its effective        *)
(* boolean value, its number, the rank of its text; and so is what the     *)
(* functions and the arithmetic operators make of the values of their      *)
(* arguments.                                                              *)
(***************************************************************************)
EXTENDS Quads, Integers

CONSTANTS
  VarName,        \* the variables of a query
  True, False,    \* the boolean literals
  Truthy, Falsy,  \* the terms with a boolean value; the others have none
  Numeric,        \* the numeric literals
  Number,         \* their values
  Rank,           \* the position of a term's String() in string order
  Applied(_, _),  \* what a function or an arithmetic operator returns
  Defined(_, _)   \* and what SPARQL says it does

ASSUME ExpressionAssumption ==
  /\ VarName \cap (Term \cup {Var, Nil}) = {}
  /\ True \in Truthy /\ False \in Falsy
  /\ Truthy \cap Falsy = {}
  /\ Truthy \cup Falsy \subseteq Term
  /\ Numeric \subseteq Term
  /\ Number \in [Numeric -> Nat]
  /\ Rank \in [Term -> Nat]

Error == [kind |-> "error"]

Bool(b) == IF b THEN True ELSE False

(* The forms of an expression. *)
VarExpr(x) == [op |-> "var", var |-> x]
Lit(t) == [op |-> "lit", term |-> t]
Call(fn, args) == [op |-> "call", fn |-> fn, args |-> args]
Bound(x) == Call("BOUND", <<VarExpr(x)>>)
Exists == [op |-> "exists"]
NoExpression == [op |-> "none"]
Negation(e) == [op |-> "not", arg |-> e]
BinaryExpr(op, e1, e2) == [op |-> op, left |-> e1, right |-> e2]
InExpr(e, list, negated) == [op |-> "in", arg |-> e, list |-> list, negated |-> negated]

Logical == {"and", "or"}
Comparison == {"=", "!=", "<", "<=", ">", ">="}
Arithmetic == {"+", "-", "*", "/"}

OfVariable(e) == Len(e.args) = 1 /\ e.args[1].op = "var"

EffectiveBooleanValue(t) ==
  IF t \in Truthy THEN True ELSE IF t \in Falsy THEN False ELSE Error

(* Numbers compare as numbers, anything else by its text. *)
CompareTerms(t1, t2) ==
  LET sign(m, n) == IF m < n THEN -1 ELSE IF m > n THEN 1 ELSE 0
  IN  IF {t1, t2} \subseteq Numeric THEN sign(Number[t1], Number[t2])
      ELSE sign(Rank[t1], Rank[t2])

Compare(op, t1, t2) ==
  CASE op = "="  -> Bool(t1 = t2)
    [] op = "!=" -> Bool(t1 # t2)
    [] op = "<"  -> Bool(CompareTerms(t1, t2) < 0)
    [] op = "<=" -> Bool(CompareTerms(t1, t2) <= 0)
    [] op = ">"  -> Bool(CompareTerms(t1, t2) > 0)
    [] op = ">=" -> Bool(CompareTerms(t1, t2) >= 0)

-----------------------------------------------------------------------------
(* The evaluator.                                                          *)

EvaluateAnd(t1, t2) ==
  LET left == EffectiveBooleanValue(t1)
  IN  IF left = True THEN EffectiveBooleanValue(t2) ELSE left

(* Mutant of EvaluateOr: an error on the left counts as false. *)
EvaluateOrIgnoring(t1, t2) ==
  IF EffectiveBooleanValue(t1) = True THEN True ELSE EffectiveBooleanValue(t2)

EvaluateOr(t1, t2) ==
  LET left == EffectiveBooleanValue(t1)
      right == EffectiveBooleanValue(t2)
  IN  IF left = False THEN right
      ELSE IF left = Error /\ right # True THEN Error
      ELSE True

EvaluateNot(t) ==
  LET value == EffectiveBooleanValue(t)
  IN  IF value = Error THEN Error ELSE Bool(value = False)

(* Both operands of a binary operator are evaluated first, and an error of *)
(* either is the result; IN skips the values that fail; what a function    *)
(* makes of an argument that fails is its own affair.                      *)
RECURSIVE Evaluate(_, _)
Evaluate(e, row) ==
  CASE e.op = "var"    -> IF e.var \in DOMAIN row THEN row[e.var] ELSE Error
    [] e.op = "lit"    -> e.term
    [] e.op = "exists" -> Error
    [] e.op = "call"   ->
         LET values == [i \in DOMAIN e.args |-> Evaluate(e.args[i], row)]
         IN  IF e.fn = "BOUND"
             THEN IF OfVariable(e) THEN Bool(e.args[1].var \in DOMAIN row) ELSE Error
             ELSE Applied(e.fn, values)
    [] e.op = "not"    -> LET value == Evaluate(e.arg, row)
                          IN  IF value = Error THEN Error ELSE EvaluateNot(value)
    [] e.op = "in"     ->
         LET value == Evaluate(e.arg, row)
             found == \E i \in DOMAIN e.list : Evaluate(e.list[i], row) = value
         IN  IF value = Error THEN Error ELSE Bool(found # e.negated)
    [] e.op \in Logical \cup Comparison \cup Arithmetic ->
         LET left == Evaluate(e.left, row)
             right == Evaluate(e.right, row)
         IN  IF Error \in {left, right} THEN Error
             ELSE IF e.op = "and" THEN EvaluateAnd(left, right)
             ELSE IF e.op = "or" THEN EvaluateOr(left, right)
             ELSE IF e.op \in Arithmetic THEN Applied(e.op, <<left, right>>)
             ELSE Compare(e.op, left, right)

(* filterIterator keeps a row when the result is the boolean literal true  *)
(* (written "true" or "1"), and every row when there is no expression.     *)
Passes(e, row) == e.op = "none" \/ Evaluate(e, row) = True

-----------------------------------------------------------------------------
(* What SPARQL 1.1 (section 17.2) says the logical connectives mean, with  *)
(* an error as the third truth value.                                      *)

And3(v1, v2) ==
  IF False \in {v1, v2} THEN False ELSE IF Error \in {v1, v2} THEN Error ELSE True

Or3(v1, v2) ==
  IF True \in {v1, v2} THEN True ELSE IF Error \in {v1, v2} THEN Error ELSE False

Not3(v) == IF v = Error THEN Error ELSE Bool(v = False)

BooleanValue(v) == IF v = Error THEN Error ELSE EffectiveBooleanValue(v)

RECURSIVE Meaning(_, _)
Meaning(e, row) ==
  CASE e.op = "var"   -> IF e.var \in DOMAIN row THEN row[e.var] ELSE Error
    [] e.op = "lit"   -> e.term
    [] e.op = "call"  ->
         LET values == [i \in DOMAIN e.args |-> Meaning(e.args[i], row)]
         IN  IF e.fn = "BOUND"
             THEN IF OfVariable(e) THEN Bool(e.args[1].var \in DOMAIN row) ELSE Error
             ELSE IF \E i \in DOMAIN values : values[i] = Error THEN Error
             ELSE Defined(e.fn, values)
    [] e.op \in Arithmetic ->
         LET left == Meaning(e.left, row)
             right == Meaning(e.right, row)
         IN  IF Error \in {left, right} THEN Error ELSE Defined(e.op, <<left, right>>)
    [] e.op = "not"   -> Not3(BooleanValue(Meaning(e.arg, row)))
    [] e.op = "and"   -> And3(BooleanValue(Meaning(e.left, row)),
                              BooleanValue(Meaning(e.right, row)))
    [] e.op = "or"    -> Or3(BooleanValue(Meaning(e.left, row)),
                             BooleanValue(Meaning(e.right, row)))
    [] e.op \in Comparison ->
         LET left == Meaning(e.left, row)
             right == Meaning(e.right, row)
         IN  IF Error \in {left, right} THEN Error ELSE Compare(e.op, left, right)
    [] e.op = "in"    ->
         LET value == Meaning(e.arg, row)
             equal == {IF Error \in {value, Meaning(e.list[i], row)} THEN Error
                       ELSE Bool(Meaning(e.list[i], row) = value) : i \in DOMAIN e.list}
             any == IF True \in equal THEN True
                    ELSE IF Error \in equal THEN Error ELSE False
         IN  IF e.negated THEN Not3(any) ELSE any
=============================================================================
