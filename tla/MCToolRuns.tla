----------------------------- MODULE MCToolRuns -----------------------------
(* A main action with one declared test, asked for twice: enough for a retry  *)
(* after every error and every crash.  One file operation id is used for a    *)
(* write and for a read, and repeated with another content.  Gated and        *)
(* ungated code runs in containers, and as a subprocess with gated main only. *)
EXTENDS ToolRuns

MCTests == <<"test">>
MCSetups == {[provider |-> "podman", gated |-> {}],
             [provider |-> "podman", gated |-> Actions],
             [provider |-> "local", gated |-> {Main}]}
=============================================================================
