------------------------------- MODULE ResultLog -------------------------------
(***************************************************************************)
(* What becomes of a RunnerResponse in the log: ResultsToLog.ToLog of      *)
(* nanorunners/results/logdump.go, as the sequence of the entries' levels. *)
(* A result holds whether a command was called, its error code and what    *)
(* its JSON says, "none" if there is no JSON.  The entries for captured    *)
(* output, at debug level, are left out: their number depends on what was  *)
(* captured.                                                               *)
(***************************************************************************)
EXTENDS Integers, FiniteSets, Sequences, SequencesExt

ERR_OK == 0
ERR_FAILED == 1

\* What the JSON of a result says of it
Verdicts == {"none", "changed", "unchanged", "failed"}

\* mutant: a failure the module reports itself is no error
JsonLevelChanged(json) == IF json = "unchanged" THEN "warn" ELSE "info"

\* "failed" is looked at before "changed".
JsonLevel(json) == CASE json = "failed" -> "error"
                     [] json = "unchanged" -> "warn"
                     [] OTHER -> "info"

CallLog(r) == CASE ~r.called -> <<>>
                [] r.called /\ r.errcode > ERR_OK -> <<"error">>
                [] OTHER -> <<"info", JsonLevel(r.json), "debug">>

HostLog(r) == IF r.host = "localhost" THEN CallLog(r) ELSE <<"debug">> \o CallLog(r)

\* The code of a group that went well is -1.
StepLevel(errcode) == IF errcode > ERR_OK THEN "error" ELSE "debug"

ModuleLog(m) == <<StepLevel(m.errcode)>> \o
                FlattenSeq([n \in DOMAIN m.results |-> HostLog(m.results[n])])

GroupLog(g) == <<StepLevel(g.errcode)>> \o
               FlattenSeq([n \in DOMAIN g.modules |-> ModuleLog(g.modules[n])])

ToLog(groups) == <<"info">> \o FlattenSeq([n \in DOMAIN groups |-> GroupLog(groups[n])])

Errors(log) == Cardinality({n \in DOMAIN log : log[n] = "error"})

\* What a reader calls a failure: the call went wrong or the module says so.
Failed(r) == r.called /\ (r.errcode > ERR_OK \/ r.json = "failed")

\* Group, module and host of all the failures of a response
FailuresIn(m, a, b) == {<<a, b, c>> : c \in {c \in DOMAIN m.results : Failed(m.results[c])}}
FailuresOf(g, a) == UNION {FailuresIn(g.modules[b], a, b) : b \in DOMAIN g.modules}
Failures(resp) == UNION {FailuresOf(resp[a], a) : a \in DOMAIN resp}
=============================================================================
