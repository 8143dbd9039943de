----------------------------- MODULE MCHostSync -----------------------------
(* A small instance of pull and push for TLC. *)
EXTENDS HostSync, TLC

L(root, sub, name) == [root |-> root, sub |-> sub, name |-> name]
R(base, sub, name) ==
  [at |-> IF base = "host" THEN "" ELSE "docker", base |-> base, sub |-> sub,
   name |-> name]

(* Two files of host_sync with one name and one in a directory that carries *)
(* the volume's own name, downloaded and then changed by the user.          *)
MCFiles == {L("host_sync", "", "x"), L("host_sync", "d", "x"),
            L("homey-apps-sdk-v3", "d", "x")}

MCWorkspaces ==
  {[commits |-> <<[tree |-> [p \in MCFiles |-> 0], skip |-> TRUE],
                  [tree |-> [p \in MCFiles |-> IF p.sub = "" THEN 1 ELSE 2],
                   skip |-> FALSE]>>,
    touched |-> MCFiles]}

MCVolumes == [x \in {R("pro", "", "x"), R("sdk", "d", "x")} |-> 0]

MCDisks == {[x \in {R("host", "", "y"), R("host", "d", "x")} |-> 0]}

MCArgs == {L("host_sync", "", "x"), L("host_sync", "d", "")}

MCHostPaths == {R("host", "", "y"), R("host", "d", "x")}

MCPicks == {<<"pro", "sdk">>}

=============================================================================
