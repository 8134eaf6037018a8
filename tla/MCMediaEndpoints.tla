-------------------------- MODULE MCMediaEndpoints --------------------------
EXTENDS MediaEndpoints

Item(type) == [type |-> type, off |-> FALSE]
Without(type) == [type |-> type, off |-> TRUE]

\* An audio medium with an mrcp medium before or behind it, or without it.
MCLists == {<<Item("audio"), Item("mrcp")>>, <<Item("mrcp"), Item("audio")>>,
            <<Item("audio"), Without("mrcp")>>}
MCOffers == {<<>>, <<Item("audio"), Item("mrcp")>>, <<Item("mrcp"), Item("audio")>>,
             <<Item("audio"), Without("mrcp")>>}

\* A message that is a header only, and one whose body looks like a header.
MCMessages == {<<"n", "n">>, <<"c1", "n", "n", "c2">>}
=============================================================================
