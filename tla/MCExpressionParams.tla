-------------------------- MODULE MCExpressionParams --------------------------
\* Two attributes and one value: clashes between builders are clashes of
\* aliases.  The attribute "meta" stands for the version and for createdAt.
EXTENDS ExpressionParams

MCAttrs == {"pk", "meta"}

\* One segment, two, and twice the same.
MCPaths == {<<"pk">>, <<"meta">>, <<"pk", "meta">>, <<"meta", "meta">>}
=============================================================================
