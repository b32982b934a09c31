------------------------------- MODULE MCNanoCms -------------------------------
(* Two hosts and two users; one file with state a, one with another a or    *)
(* with b, in one root.                                                     *)
EXTENDS NanoCms

MCPaths == {"base/a.st", "base/b.st"}
MCFileName == [p \in MCPaths |-> IF p = "base/a.st" THEN "a.st" ELSE "b.st"]
MCUnder == [r \in {"base"} |-> <<"base/a.st", "base/b.st">>]
MCIds == {"", "a", "b"}

State(id, lines, asks) ==
    [kind |-> "state", id |-> id, lines |-> lines, fn |-> "none", funcs |-> NoEntries,
     loops |-> [n \in DOMAIN lines |-> ""], descr |-> "given", asks |-> asks]
Plain(id) == State(id, <<<<Word("x")>>>>, {"ansible"})

MCSources ==
    {Plain("a"), Plain("b"), [Plain("a") EXCEPT !.descr = "empty"],
     State("a", <<<<Ref("~", "b")>>>>, {}), State("a", <<<<Ref("+", "b")>>>>, {}),
     State("a", <<<<Word("x")>>, <<Ref("~", "a")>>>>, {"ansible"}),
     State("a", <<<<Word("x"), Ref("?", "nobody")>>, <<Ref("~", "a")>>>>, {"ansible"}),
     State("b", <<<<Word("x")>>>>, {"shell"})}

\* One file is plain, the other one anything or missing.
MCDisks == {[p \in MCPaths |-> IF p = "base/a.st" THEN Plain("a") ELSE s] :
              s \in MCSources \cup {Absent}}

\* Only the admin's key is known on h1, and nobody's on h2, where Root's
\* authorized_keys has no end of line.
MCFleets == {[keys |-> [h \in {"h1", "h2"} |-> IF h = "h1" THEN {"admin"} ELSE {}],
              open |-> {"h2"}]}
=============================================================================
