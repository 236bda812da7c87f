-------------------------- MODULE MCFileTransaction --------------------------
(* A small instance of FileTransaction for TLC: a rendered file that exists, *)
(* one below a managed directory, the unit of a disabled component.          *)
EXTENDS FileTransaction

MCAbove == [n \in {"cfg", "page", "unit", "state", "www", "site"} |->
              CASE n = "page" -> {"www", "site"}
                [] n = "site" -> {"www"}
                [] OTHER -> {}]

\* tuned differs from old only in its mode, new in its bytes too; odd is a special file.
MCVals == {"old", "tuned", "new", "link", "odd"}

MCDigest == [v \in MCVals |-> IF v = "tuned" THEN "old" ELSE v]

MCNew == [n \in {"cfg", "page", "site", "state"} |-> "new"]

MCRank == [n \in {"cfg", "page", "unit", "state"} |->
             CASE n = "cfg" -> 1 [] n = "page" -> 2 [] n = "unit" -> 3 [] OTHER -> 4]

MCInstalled == [n \in {"unit"} |-> "old"]

Here(v) == [val |-> v, id |-> "base"]

Gone == [val |-> "absent", id |-> "none"]

Start(cfg, www, site) ==
    [n \in {"cfg", "page", "unit", "state", "www", "site"} |->
        CASE n = "cfg" -> cfg
          [] n \in {"unit", "state"} -> Here("old")
          [] n = "www" -> www
          [] n = "site" -> site
          [] OTHER -> Gone]

MCStarts == {Start(Here("link"), Gone, Gone), Start(Here("old"), Here("old"), Here("old"))}

=============================================================================
