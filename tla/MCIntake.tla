------------------------------- MODULE MCIntake -------------------------------
EXTENDS Intake, TLC
CONSTANTS b1, b2, o1, o2, c1, c2

Fleet2    == {b1, b2}
People    == {o1, o2}
AnyOrOne  == {{b1}, {b1, b2}}
Kind      == {b1, b2}
Corpus    == {c1, c2}
Declared  == {b1}
Symmetric == Permutations(People) \cup Permutations(Corpus)
=============================================================================
