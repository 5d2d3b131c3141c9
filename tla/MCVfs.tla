-------------------------------- MODULE MCVfs --------------------------------
(* Instances of the VFS for TLC: its calls, in any order, or the users of    *)
(* paths above it.                                                           *)
EXTENDS ShellFs

VARIABLE mode

(* /dev, /device, /device/a, /dev/a, /dev/a/, a, and two too long for the    *)
(* arrays: /devicea, which comp[] cuts to /device, and /device/a/t, whose    *)
(* parent has no room in ppath[].                                            *)
MCPaths == { <<"/", "dev">>, <<"/", "dev", "ice">>, <<"/", "dev", "ice", "/", "a">>,
             <<"/", "dev", "/", "a">>, <<"/", "dev", "/", "a", "/">>, <<"a">>,
             <<"/", "dev", "ice", "a">>, <<"/", "dev", "ice", "/", "a", "/", "t">> }
MCTargets == { <<"/", "dev">> }
MCDevNames == { <<"a">>, <<"ice">> }
(* /dev, /t *)
MCBootDirs == << <<"/", "dev">>, <<"/", "t">> >>
MCLogPath == <<"/", "t", "/", "l">>
MCDevMount == <<"/", "dev">>
(* no argument, a, t/, /t, /dev *)
MCArgs == { <<>>, <<"a">>, <<"t", "/">>, <<"/", "t">>, <<"/", "dev">> }

(* The calls are tried up to this many nodes. *)
MCCallNodes == 5

MCInit == mode \in {"calls", "shell"} /\ FsInit
MCNext == \/ mode = "calls" /\ Next /\ Len(nodes') <= MCCallNodes
             /\ UNCHANGED <<mode, booted, cwd, cmdfd, manager>>
          \/ mode = "shell" /\ FsNext /\ UNCHANGED mode
MCSpec == MCInit /\ [][MCNext]_<<fsVars, mode>>
=============================================================================
