--------------------------- MODULE MCProfilePages ---------------------------
(* Small instances of ProfilePages. *)
EXTENDS ProfilePages

MCCatalog == {[id |-> "basic", kind |-> "general", group |-> "basic"],
              [id |-> "native", kind |-> "general", group |-> "native"],
              [id |-> "adult", kind |-> "category", group |-> "adult"],
              [id |-> "phishing", kind |-> "security", group |-> ""],
              [id |-> "nrd7", kind |-> "security", group |-> ""],
              [id |-> "nrd14", kind |-> "security", group |-> ""],
              [id |-> "social", kind |-> "service", group |-> ""]}

\* One tier is not in the catalog.
MCNrdGroup == <<"nrd7", "nrd10", "nrd14">>

\* One profile with the whole range and rules in both lists, one with a gap in its range.
MCProfiles ==
    {[NewProfile(1) EXCEPT
        !.lists = {"nrd7", "nrd10", "nrd14"},
        !.rules = <<[id |-> <<1, "a">>, list |-> "block", group |-> "G"],
                    [id |-> <<1, "b">>, list |-> "allow", group |-> ""],
                    [id |-> <<1, "c">>, list |-> "block", group |-> ""]>>,
        !.groups = <<"G">>],
     [NewProfile(2) EXCEPT !.lists = {"nrd14"}]}
=============================================================================
