--------------------------------- MODULE Cdl ---------------------------------
(***************************************************************************)
(* The configuration description language of nanostate/compiler/fcdl.go:   *)
(* what the compiler reads from the key of a block, a "line".              *)
(*                                                                         *)
(* A line is the sequence of its tokens, split at the spaces.  Of a token  *)
(* the code looks at                                                       *)
(*    op      the control mark it starts with, "" for a plain word         *)
(*    id      the text between the mark and the first "/"                  *)
(*    blocks  the names after the "/", split at the colons                 *)
(*    slash   whether there is a "/" at all                                *)
(*    inner   the control marks inside the token, as the "+" of "g++"      *)
(***************************************************************************)
EXTENDS Integers, Sequences, SequencesExt

Token == [op : STRING, id : STRING, blocks : Seq(STRING), slash : BOOLEAN, inner : SUBSET STRING]

Word(name) == [op |-> "", id |-> name, blocks |-> <<>>, slash |-> FALSE, inner |-> {}]
Ref(op, name) == [Word(name) EXCEPT !.op = op]
RefTo(op, name, blocks) ==
    [op |-> op, id |-> name, blocks |-> blocks, slash |-> TRUE, inner |-> {}]

\* findRefs reads the part behind the "/" of a dependency, there or not.
Dangling(t) == t.op = "&" /\ ~t.slash

\* The tokens findRefs gets to: all of them, or those up to the first one
\* that makes it panic.
TokensRead(lines) ==
    LET ts == FlattenSeq(lines)
    IN  {ts[n] : n \in {n \in DOMAIN ts : \A m \in 1..(n - 1) : ~Dangling(ts[m])}}

\* The state ids findRefs adds to "included" and to "optional".  A condition
\* in the line makes no difference to either.
Referenced(lines) == {t.id : t \in {t \in TokensRead(lines) : t.op \in {"~", "+", "&"}}}
OptionalIn(lines) == {t.id : t \in {t \in TokensRead(lines) : t.op = "+"}}

FindRefsPanics(lines) == \E t \in TokensRead(lines) : Dangling(t)

-----------------------------------------------------------------------------
(* What compiling a line asks of it *)

Tokens(line) == {line[n] : n \in DOMAIN line}

\* strings.Contains(line, mark): at the start of a token or inside one
Marks(line) == UNION {{t.op} \cup t.inner : t \in Tokens(line)}

\* The first kind that fits, in the order of the code's tests
BlockType(line) ==
    CASE {"~", "&"} \subseteq Marks(line) -> "error"
      [] "~" \in Marks(line)  -> "inclusion"
      [] "&" \in Marks(line)  -> "dependency"
      [] "[]" \in Marks(line) -> "loop"
      [] "+" \in Marks(line)  -> "inclusion"
      [] OTHER -> "plain"

Text(t) == t.op \o t.id

\* The key a plain block gets: a condition written before the name is it.
ToCDLKey(line) ==
    LET words == SelectSeq(line, LAMBDA t : t.op \notin {"~", "&"})
    IN  IF words = <<>> THEN "" ELSE Text(Head(words))

\* The last reference of a line gives the state, the last one that lists
\* blocks gives the blocks; no blocks mean the entire state.
GetInclusion(line) ==
    LET refs == {n \in DOMAIN line : line[n].op \in {"~", "+"}}
        choosy == {n \in refs : line[n].blocks # <<>>}
    IN  [id     |-> IF refs = {} THEN "" ELSE line[Max(refs)].id,
         blocks |-> IF choosy = {} THEN <<>> ELSE line[Max(choosy)].blocks]

\* "<anchor> &<state>/<blocks>" and nothing else; without a block the code's
\* list of blocks holds the empty name.
IsDependency(line) == Len(line) = 2 /\ line[2].slash

GetDependency(line) ==
    [id     |-> line[2].id,
     anchor |-> IF line[1].op = "&" THEN line[1].id ELSE Text(line[1]),
     blocks |-> IF line[2].blocks = <<>> THEN <<"">> ELSE line[2].blocks]

\* The functions a line asks for permission
Conditions(line) == SelectSeq(line, LAMBDA t : t.op = "?")
=============================================================================
