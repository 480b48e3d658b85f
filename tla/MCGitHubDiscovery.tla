--------------------------- MODULE MCGitHubDiscovery ---------------------------
(* Two knowledge bases that share an App, and two that read one repository. *)
EXTENDS GitHubDiscovery

CONSTANTS k1, k2, app, token, x, y

Two(first, second) == [kb \in {k1, k2} |-> IF kb = k1 THEN first ELSE second]

SourcesTried == {Two(<<app, None>>, <<app, x>>), Two(<<app, x>>, <<token, x>>)}

CoverageAtFirst == [c \in {app, token} |-> {x}]
=============================================================================
