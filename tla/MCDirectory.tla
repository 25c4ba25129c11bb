------------------------------ MODULE MCDirectory ------------------------------
\* Shares 2 of 3, the desktop holding another file under the first name.
EXTENDS Directory, TLC
CONSTANTS n1, n2, c1, c2
Desktop == {File(n1, c2)}
Added == {File(n1, c1), File(n2, c1)}
Phones == Permutations(Phone)
================================================================================
