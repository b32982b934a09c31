---------------------------- MODULE MCTreeCompiler ----------------------------
(* Root a with up to two lines, b with up to two, c fixed; m is missing.     *)
EXTENDS TreeMeaning, Nanostate

Do(name) == [name |-> name, loop |-> ""]
Each(name, fn) == [name |-> name, loop |-> fn]
Entry(line, body) == [line |-> line, body |-> body]
Cond(fn) == Ref("?", fn)

Seqs(S) == {<<>>} \cup {<<x>> : x \in S} \cup
           ({<<x, y>> : x \in S, y \in S} \ {<<x, x>> : x \in S})
State(es) == [lines |-> [n \in DOMAIN es |-> es[n].line],
              bodies |-> [n \in DOMAIN es |-> es[n].body]]
None == <<>>

OfA == { Entry(<<Word("x")>>, <<<<Do("a1")>>>>),
         Entry(<<Word("x"), Cond("no"), Cond("yes")>>, <<<<Do("a2"), Do("a3")>>, <<>>, <<Do("a4")>>>>),
         Entry(<<Word("y"), Cond("no")>>, <<<<Do("a5")>>>>),
         Entry(<<Word("z"), RefTo("&", "b", <<"x">>)>>, <<<<Do("a6")>>>>),
         Entry(<<Word("x"), RefTo("&", "c", <<"v", "y">>)>>, <<<<Each("a7", "two")>>>>),
         Entry(<<Ref("~", "b")>>, None),
         Entry(<<RefTo("~", "b", <<"y", "u">>), Cond("yes")>>, None),
         Entry(<<RefTo("~", "b", <<"y">>), Ref("+", "c")>>, None),
         Entry(<<[Word("g++") EXCEPT !.inner = {"+"}]>>, <<<<Do("a8")>>>>),
         Entry(<<Ref("+", "m")>>, None),
         Entry(<<Ref("~", "m")>>, None) }
OfB == { Entry(<<Word("x")>>, <<<<Do("b1")>>>>),
         Entry(<<Word("y")>>, <<<<Do("b2")>>, <<Do("b3"), Each("b4", "two")>>>>),
         Entry(<<Ref("~", "c")>>, None),
         Entry(<<Word("u"), RefTo("&", "c", <<"y">>)>>, <<<<Do("b5")>>>>),
         Entry(<<Word("y"), Cond("nobody")>>, <<<<Do("b6")>>>>) }
C == State(<<Entry(<<Word("y")>>, <<<<Do("c1")>>>>), Entry(<<Word("x")>>, <<<<Do("c2")>>>>)>>)

Funcs == [f \in {"yes", "no", "two"} |-> CASE f = "yes" -> 1 [] f = "no" -> 0 [] OTHER -> 2]

Program(a, b, descr) ==
    LET all == [i \in {"a", "b", "c"} |-> CASE i = "a" -> a [] i = "b" -> b [] OTHER -> C]
    IN  [states |-> all, threads |-> [i \in {"a", "b"} |-> Funcs], root |-> "a",
         described |-> descr,
         optional |-> UNION {OptionalIn(all[i].lines) : i \in DOMAIN all}]

\* Every pair of states, one of them also without a description, and no states
MCPrograms == {Program(State(a), State(b), TRUE) : a \in Seqs(OfA), b \in Seqs(OfB)}
                \cup {Program(C, C, FALSE), [Program(C, C, TRUE) EXCEPT !.root = ""]}

\* A job that depends on two blocks of another state
TwoDependencies ==
    {Program(State(<<Entry(<<Word("z"), RefTo("&", "c", <<"x", "y">>)>>, <<<<Do("a1")>>>>)>>), b, TRUE)
       : b \in {State(s) : s \in Seqs(OfB)}}
=============================================================================
