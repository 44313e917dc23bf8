----------------------------- MODULE MCFilterBar -----------------------------
EXTENDS FilterBar

MCLevels == {10, 60}
MCProcesses == {<<>>, <<"A", "1">>}
MCSearches == {<<>>, <<"a", "b", "a">>, <<"b", "*">>, <<"(">>}
MCNames == {<<"A", " ">>, <<"b">>}
MCMessages == {<<"A", "b", "b", "a">>, <<"a", "b", "a", "b", "a">>, <<"a", "b", "a", "a", "b", "a">>}

(* A line of a version before the exclusions, and one that cannot be read. *)
MCOldRecent ==
    <<[minimum_level |-> 60, process |-> <<>>, subsystem |-> <<>>, search |-> <<>>, regex |-> FALSE],
      [minimum_level |-> 60, process |-> <<>>]>>
MCOldSaved ==
    <<[name |-> <<" ">>, filter |-> NoFilter],
      [name |-> <<"b">>, filter |-> [NoFilter EXCEPT !.process = <<" ", "2">>]],
      [name |-> <<"a">>, filter |-> [NoFilter EXCEPT !.minimum_level = 60]]>>
=============================================================================
