--------------------------- MODULE AssertionPickerMC ---------------------------
EXTENDS AssertionPicker

\* <section> <li> <a><i></a> </li> <li> <a><i></a> <b> </li> <p id> </section> <li>
\* The third <li> is one container more than a replay compares; it may go.
MCElement == 1 .. 10
MCParentOf == <<0, 1, 2, 3, 1, 5, 6, 5, 1, 0>>
MCTagOf == <<"section", "li", "a", "i", "li", "a", "i", "b", "p", "li">>
MCRoleOf == [e \in MCElement |-> IF MCTagOf[e] = "a" THEN "link" ELSE ""]
MCIdOf == [e \in MCElement |-> IF e = 9 THEN "note" ELSE ""]
MCWhole == [present |-> MCElement, undisplayed |-> {}, aria |-> {}]

=============================================================================
