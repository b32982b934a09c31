------------------------------ MODULE MCResolver ------------------------------
(* Three state files and a text file in one root; the id "m" is mentioned   *)
(* but no file has it.                                                      *)
EXTENDS Resolver

StFiles == {"r/a.st", "r/b.st", "r/c.st"}
AllFiles == StFiles \cup {"r/notes"}
MCFileName == [p \in Paths |-> CASE p = "r/a.st" -> "a.st"
                                 [] p = "r/b.st" -> "b.st"
                                 [] p = "r/c.st" -> "c.st"
                                 [] OTHER -> "notes"]
MCUnder == [r \in {"r"} |-> <<"r/a.st", "r/b.st", "r/c.st">>]
MCIds == {"", "a", "b", "c", "m"}

File(kind, id, lines) == [kind |-> kind, id |-> id, lines |-> lines,
                          fn |-> "none", funcs |-> NoEntries]
State(id, lines) == File("state", id, lines)

\* The lines that refer to some of the targets, each with ~, + or &
RefLine(op, t) == IF op = "&" THEN <<Word("job"), RefTo(op, t, <<"job">>)>>
                              ELSE <<Ref(op, t)>>
Lines(targets, ops) ==
    LET choices == [targets -> ops \cup {"-"}]
    IN  {[n \in 1..Cardinality({t \in targets : c[t] # "-"}) |->
            LET t == SetToSeq({t \in targets : c[t] # "-"})[n] IN RefLine(c[t], t)]
         : c \in choices}

Disk(a, b, c) == [p \in Paths |-> CASE p = "r/a.st" -> a
                                    [] p = "r/b.st" -> b
                                    [] p = "r/c.st" -> c
                                    [] OTHER -> Absent]

\* Every acyclic way in which a may refer to b, c and m, b to c and m, and c
\* to m
AcyclicDisks ==
    {Disk(State("a", la), State("b", lb), State("c", lc)) :
        la \in Lines({"b", "c", "m"}, {"~", "+"}),
        lb \in Lines({"c", "m"}, {"+", "&"}),
        lc \in Lines({"m"}, {"~", "+"})}
\* The files a and c have one id, and b may refer back to it.
ShadowedDisks ==
    {Disk(State("a", <<<<Ref("~", "b")>>>>), State("b", lb), State("a", la)) :
        lb \in Lines({"a", "m"}, {"~", "+"}), la \in Lines({"m"}, {"~", "+"})}
DiskSources(disks) == UNION {{d[p] : p \in Paths} : d \in disks} \ {Absent}
FlatDisks == AcyclicDisks \cup ShadowedDisks
FlatSources == DiskSources(FlatDisks)

\* m is optional for both a and b.
OptionalTwice == {Disk(State("a", <<<<Ref("+", "m")>>, <<Ref("~", "b")>>>>),
                       State("b", <<<<Ref("+", "m")>>>>), State("c", <<>>))}
OptionalTwiceSources == DiskSources(OptionalTwice)

\* a and b include each other.
Mutual == {Disk(State("a", <<<<Ref("~", "b")>>>>),
                State("b", <<<<Ref("~", "a")>>>>), State("c", <<>>))}
MutualSources == DiskSources(Mutual)

\* A few files to be edited into one another while Compile runs
EditDisks == {Disk(State("a", <<<<Ref("~", "b")>>, <<Ref("+", "c")>>>>),
                   State("b", <<<<Ref("~", "c")>>>>), Absent)}
EditSources == {State("a", <<<<Ref("~", "b")>>, <<Ref("+", "c")>>>>),
                State("b", <<<<Ref("~", "c")>>>>),
                [State("c", <<>>) EXCEPT !.fn = "good"],
                [State("c", <<>>) EXCEPT !.fn = "bad"],
                State("c", <<<<Word("job"), Ref("&", "b")>>>>),
                State("b", <<<<Ref("+", "")>>, <<Ref("+", "c")>>>>),
                State("", <<<<Ref("~", "b")>>>>),
                File("nobranch", "b", <<>>), File("badvalue", "b", <<>>),
                File("noid", "", <<<<Ref("~", "c")>>>>),
                File("badyaml", "", <<>>), File("badid", "", <<>>)}
=============================================================================
