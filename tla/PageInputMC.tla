------------------------------ MODULE PageInputMC ------------------------------
EXTENDS PageInput, TLC

\* Elements with a role, a name and no test id, as most are.
Roles == [e \in Field \cup Button \cup Label |->
             IF e \in Field THEN "textbox" ELSE IF e \in Button THEN "button" ELSE "option"]

Symmetry == Permutations(Field) \cup Permutations(Label)
            \cup Permutations(Value)

=============================================================================
