---------------------------- MODULE MCLifecycle -----------------------------
(* A repository with the topic on Gitea, and an explicit one on GitHub     *)
(* that the App does not see at first.                                     *)
EXTENDS Lifecycle

TwoRepos    == {"topic", "explicit"}
KindOf      == [r \in TwoRepos |-> IF r = "topic" THEN "gitea" ELSE "github"]
OneExplicit == {"explicit"}
BothSources == <<"gitea", "github">>
OnePolled   == {"topic"}

=============================================================================
