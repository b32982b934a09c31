------------------------------ MODULE RemoteCalls ------------------------------
(***************************************************************************)
(* What running a nanostate over SSH promises of its calls, without groups *)
(* and responses, connections, clients or faults.  Modules are called on   *)
(* hosts one call at a time, in the order of the nanostate and for each    *)
(* module in that of the hosts.  A call has so many chances, and takes no  *)
(* further one when it knows that the module was executed.  What is told   *)
(* of it claims an execution only if that is known.  All is shown at the   *)
(* end of a run that called whatever it was asked to; of a run that breaks *)
(* off nothing is shown.                                                   *)
(***************************************************************************)
EXTENDS Integers, Sequences

CONSTANT Hosts      \* the hosts in their order

VARIABLES
    asked,      \* the calls to be made: <<number of the module, place of the host>>
    limit,      \* the chances of every call
    calling,    \* the call under way, if any
    chances,    \* how many more it has
    known,      \* is it known that it was executed?
    ran,        \* the modules executed on each host
    told,       \* what was told so far: <<module, place of the host, executed?>>
    shown,      \* what the caller gets to see
    stage       \* "running", "finished" or "broken"

callVars == <<asked, limit, calling, chances, known, ran, told, shown, stage>>

\* Call c comes before call d.
Before(c, d) == c[1] < d[1] \/ (c[1] = d[1] /\ c[2] < d[2])

Answered == {<<t[1], t[2]>> : t \in told}

CallsInit ==
    /\ asked \subseteq Nat \X DOMAIN Hosts /\ limit \in {1, 2}
    /\ calling = {} /\ chances = 0 /\ known = FALSE
    /\ ran = [f \in {Hosts[k] : k \in DOMAIN Hosts} |-> <<>>]
    /\ told = {} /\ shown = {} /\ stage = "running"

\* The next call is the first one that was not answered.
Begin(c) ==
    /\ stage = "running" /\ calling = {}
    /\ Answered = {d \in asked : Before(d, c)}
    /\ calling' = {c} /\ chances' = limit
    /\ UNCHANGED <<asked, limit, known, ran, told, shown, stage>>

\* One attempt, in which the module is executed or not
Try(c) ==
    /\ c \in calling /\ ~known
    /\ chances' \in 0..(chances - 1)
    /\ \/ /\ ran' = [ran EXCEPT ![Hosts[c[2]]] = Append(@, c[1])]
          /\ known' \in BOOLEAN
       \/ UNCHANGED <<ran, known>>
    /\ UNCHANGED <<asked, limit, calling, told, shown, stage>>

Answer(c) ==
    /\ c \in calling
    /\ \E executed \in BOOLEAN :
         /\ executed => known
         /\ told' = told \cup {<<c[1], c[2], executed>>}
    /\ calling' = {} /\ chances' = 0 /\ known' = FALSE
    /\ UNCHANGED <<asked, limit, ran, shown, stage>>

Finish ==
    /\ stage = "running" /\ calling = {} /\ Answered = asked
    /\ shown' = told /\ stage' = "finished"
    /\ UNCHANGED <<asked, limit, calling, chances, known, ran, told>>

BreakOff ==
    /\ stage = "running" /\ stage' = "broken"
    /\ calling' = {} /\ chances' = 0 /\ known' = FALSE
    /\ UNCHANGED <<asked, limit, ran, told, shown>>

CallsNext == Finish \/ BreakOff \/ \E c \in asked : Begin(c) \/ Try(c) \/ Answer(c)

CallsSpec == CallsInit /\ [][CallsNext]_callVars
=============================================================================
