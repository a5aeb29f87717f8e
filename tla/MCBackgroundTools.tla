-------------------------- MODULE MCBackgroundTools --------------------------
EXTENDS BackgroundTools, TLC

CONSTANTS a, s, t, p, q

OneCall == {a}
TwoSessions == {s, t}
TwoProcs == {p, q}
OfFirst == a :> s
FirstOnly == {s}
==============================================================================
