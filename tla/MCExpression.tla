----------------------------- MODULE MCExpression -----------------------------
(* Small expressions of every kind, and larger ones that need more registers *)
(* than there are: of operators and dereferences, and with index modes.      *)
EXTENDS ExpressionCode

Operators == {"variable", "unary", "binary", "deref"}
Indexed   == {"variable", "binary", "index"}
MixedDeep == {[kinds |-> Kind, size |-> 7], [kinds |-> Operators, size |-> 11],
              [kinds |-> Indexed, size |-> 10]}
=============================================================================
