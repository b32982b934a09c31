---------------------------- MODULE MCStateFinder ----------------------------
(* Two directories with a common base name, one of them also the child of a *)
(* third: overlapping roots, overriding files and a root that is missing.   *)
EXTENDS StateFinder

MCPaths == {"base/app.st", "base/db.st", "base/notes", "site/app.st"}
MCStPaths == MCPaths \ {"base/notes"}
MCFileName == [p \in MCPaths |-> CASE p = "base/db.st" -> "db.st"
                                   [] p = "base/notes" -> "notes"
                                   [] OTHER -> "app.st"]
MCRoots == {"base", "site", "top", "gone"}
MCUnder == [r \in {"base", "site", "top"} |->
    CASE r = "base" -> <<"base/app.st", "base/db.st", "base/notes">>
      [] r = "site" -> <<"site/app.st">>
      [] OTHER -> <<"base/app.st", "base/db.st", "base/notes", "site/app.st">>]

File(k, i) == [kind |-> k, id |-> i]
MCIds == {"", "app", "db"}
MCSources == {File("state", "app"), File("state", "db"),
              File("badid", ""), File("noid", "")}
MCDisks == {[p \in MCPaths |-> CASE p = "base/db.st" -> File("state", "db")
                                 [] p = "base/notes" -> File("noid", "")
                                 [] OTHER -> File("state", "app")]}
=============================================================================
