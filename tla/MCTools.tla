------------------------------ MODULE MCTools -------------------------------
(***************************************************************************)
(* Small instances of Tools: a command line for each way through the       *)
(* static check, and fixes that the two searches rank differently.         *)
(***************************************************************************)
EXTENDS Tools

Line(words, inside) ==
    [denied |-> FALSE, shell |-> FALSE, parses |-> TRUE, words |-> words, inside |-> inside]

Fine == Line(<<"kubectl", "get", "pods">>, {})

MCCommands ==
    {Fine, [Fine EXCEPT !.denied = TRUE], [Fine EXCEPT !.shell = TRUE],
     [Fine EXCEPT !.parses = FALSE],
     Line(<< >>, {}), Line(<<"rm", "x">>, {}), Line(<<"kubectl">>, {}),
     Line(<<"kubectl", "delete">>, {}), Line(<<"kubectl", "get">>, {"--all"}),
     Line(<<"echo">>, {})}

MCAllowlist ==
    [binary \in {"kubectl", "echo"} |->
        IF binary = "echo" THEN [subcommands |-> {}, denyArgs |-> {}]
        ELSE [subcommands |-> {"get"}, denyArgs |-> {"--all"}]]

(* Fixes like the ticket in some respects, of three ages. *)
Profile(type, service, environment, age, ruler) ==
    [sameType |-> type, sameService |-> service, sameEnvironment |-> environment,
     pattern |-> TRUE, age |-> age, ruler |-> ruler, indexed |-> TRUE, kept |-> TRUE]

MCProfiles ==
    {Profile(TRUE, TRUE, TRUE, age, 5) : age \in {0, 1, 2, 3}}
        \cup {Profile(TRUE, FALSE, TRUE, age, 0) : age \in {0, 1, 2}}
        \cup {Profile(FALSE, TRUE, TRUE, age, 10) : age \in {0, 1}}
        \cup {[Profile(TRUE, TRUE, TRUE, 0, 5) EXCEPT !.indexed = FALSE],
              [Profile(TRUE, TRUE, TRUE, 0, 5) EXCEPT !.kept = FALSE],
              [Profile(TRUE, TRUE, TRUE, 1, 5) EXCEPT !.pattern = FALSE]}

=============================================================================
