---------------------------- MODULE MCAdmission ----------------------------
EXTENDS Admission

Shape(n, m, a, s) == [name |-> n, mirror |-> m, account |-> a, scope |-> s]
\* A primary of the default account, a mirror of it in the same account under
\* its label, and the same name in another account, without the scope label.
MCShapes == {Shape("s", Unset, Unset, TRUE), Shape("t", "s", "JS", TRUE),
             Shape("s", Unset, "qa", FALSE)}
=============================================================================
