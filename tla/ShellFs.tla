------------------------------ MODULE ShellFs ------------------------------
(***************************************************************************)
(* What works with paths on top of the VFS: the boot code that lays out the *)
(* directories (fs/vfs/vfs_init.c), the shell's file commands with their    *)
(* working directory (shell/commands/fs.c) and the file manager of the GUI  *)
(* (gui/programs/file_manager.c).                                           *)
(***************************************************************************)
EXTENDS Vfs, FiniteSetsExt

CONSTANTS
  BootDirs,     \* the directories fs_system_init makes, in order
  LogPath,      \* the file it leaves open
  DevMount,     \* where it mounts devfs
  Args,         \* the arguments that commands are given
  MAX_ENTRIES,  \* GUI_FILE_MANAGER_MAX_ENTRIES
  MAX_PATH_LEN  \* 256: the size of cwd[], full_path[] and current_path[]

ASSUME ShellFsAssumption == MAX_ENTRIES \in Nat \ {0} /\ MAX_PATH_LEN \in Nat \ {0}

VARIABLES
  booted,
  cwd,          \* the working directory of the shell and of every terminal window
  cmdfd,        \* the descriptor that the command under way has open, 0: none
  current_path, entries, selected_index     \* of the file manager; 0 selects nothing

manager == <<current_path, entries, selected_index>>
fsVars == <<vars, booted, cwd, cmdfd, manager>>

UP == "up"      \* the name ".."
IsDir(ns, path) == fs_resolve(ns, path) # 0 /\ ns[fs_resolve(ns, path)].type = "dir"

----------------------------------------------------------------------------
(* Boot                                                                     *)

Made(ns, path, type) ==
  LET dir == fs_resolve(ns, ParentPath(path))
  IN  IF dir = 0 \/ lookup(ns, dir, LastName(path)) # 0 THEN ns
      ELSE Append(ns, Node(LastName(path), type, dir, "tmpfs"))

MadeDir(ns, path) == Made(ns, path, "dir")

\* The directories, the log, and devfs over the directory made for it; the heap is as good
\* as empty, so that nothing fails.
fs_system_init ==
  LET made == Made(FoldLeft(MadeDir, nodes, BootDirs), LogPath, "file") IN
  /\ ~booted /\ booted' = TRUE
  /\ nodes' = Append(made, Node(<<"dev">>, "dir", 0, "devfs"))
  /\ \E fd \in LowestFd, b \in FreshBlock : /\ fds' = [fds EXCEPT ![fd] = b]
                                            /\ live' = WithFile(b, fs_resolve(made, LogPath))
  /\ mnts' = Append(mnts, [path |-> DevMount, root |-> Len(made) + 1])
  /\ devfs_root' = Len(made) + 1
  /\ UNCHANGED <<opening, overrun, registered, cwd, cmdfd, manager>>

----------------------------------------------------------------------------
(* The shell's commands                                                     *)

\* A path that is not absolute is taken from the working directory.
FullPath(arg) ==
  IF arg[1] = SLASH THEN arg
  ELSE cwd \o (IF Last(cwd) = SLASH THEN <<>> ELSE <<SLASH>>) \o arg

\* A call with a path; the command builds it in full_path[] first.
WithPath(arg, call) ==
  IF Len(FullPath(arg)) < MAX_PATH_LEN THEN call
  ELSE Idle /\ overrun' = TRUE /\ UNCHANGED <<nodes, fds, live, opening, tables>>

cmd_mkdir(arg, heap) == WithPath(arg, fs_mkdir(FullPath(arg), heap))

\* The file is opened, which makes it; the command goes on in CommandGoesOn.
cmd_touch(arg, heapNode, heapFile) == WithPath(arg, fs_open(FullPath(arg), TRUE, heapNode, heapFile))

\* The file is opened; what is read is printed.
cmd_cat(arg, heapFile) == WithPath(arg, fs_open(FullPath(arg), FALSE, FALSE, heapFile))

\* fs_open returns to touch or cat; the file they have open is closed at their end.
CommandGoesOn ==
  /\ booted
  /\ \/ \E access \in BOOLEAN : \/ (OpenRefused(access) \/ OpenFull(access)) /\ UNCHANGED cmdfd
                                \/ \E fd \in FdRange : Opened(fd, access) /\ cmdfd' = fd
     \/ cmdfd # 0 /\ fs_close(cmdfd) /\ cmdfd' = 0
  /\ UNCHANGED <<booted, cwd, manager>>

\* The words of the line are copied to arrays of NAME_LEN characters.
cmd_mount(tgt, type, heap) ==
  IF Len(tgt) < NAME_LEN THEN fs_mount(tgt, type, heap)
  ELSE Idle /\ overrun' = TRUE /\ UNCHANGED <<nodes, fds, live, opening, tables>>

\* The text before the last slash, unless that is the first character.
UpPathToRoot(path) == SubSeq(path, 1, LastSlash(path) - 1)
UpPath(path) == IF LastSlash(path) = 1 THEN Root ELSE SubSeq(path, 1, LastSlash(path) - 1)

WithSlash(path) == IF Len(path) > 1 /\ Last(path) # SLASH THEN Append(path, SLASH) ELSE path

\* ".." is cut off the text; otherwise the path is checked and copied to cwd[].
cmd_cd(arg) ==
  LET path == IF arg = <<>> THEN Root ELSE FullPath(arg)
      goes == arg # <<UP>> /\ Len(path) < MAX_PATH_LEN /\ IsDir(nodes, path)
  IN
  /\ Idle
  /\ overrun' = (arg # <<UP>> /\ (Len(path) >= MAX_PATH_LEN
                                 \/ (goes /\ Len(WithSlash(path)) >= MAX_PATH_LEN)))
  /\ cwd' = IF arg = <<UP>> THEN UpPath(cwd) ELSE IF goes /\ ~overrun' THEN WithSlash(path) ELSE cwd
  /\ UNCHANGED <<nodes, fds, live, opening, tables>>

Command ==
  /\ booted /\ cmdfd = 0
  /\ \/ \E arg \in Args \ {<<>>}, heapNode, heapFile \in BOOLEAN :
           (cmd_mkdir(arg, heapNode) \/ cmd_touch(arg, heapNode, heapFile) \/ cmd_cat(arg, heapFile)) /\ UNCHANGED cwd
     \/ \E tgt \in Targets, type \in FsTypes, heap \in BOOLEAN : cmd_mount(tgt, type, heap) /\ UNCHANGED cwd
     \/ \E arg \in Args \cup {<<UP>>} : cmd_cd(arg)
  /\ UNCHANGED <<booted, cmdfd, manager>>

----------------------------------------------------------------------------
(* The file manager                                                         *)

\* The names in a directory, newest first.
Children(dir) ==
  LET kids == {n \in DOMAIN nodes : nodes[n].parent = dir}
  IN  [i \in 1..Cardinality(kids) |->
         nodes[CHOOSE n \in kids : Cardinality({m \in kids : m >= n}) = i].name]

\* The path is taken over, into current_path[], whether or not it is a directory's.
gui_file_manager_load_directory(path) ==
  /\ overrun' = (Len(path) >= MAX_PATH_LEN)
  /\ current_path' = path /\ selected_index' = 0
  /\ entries' = IF ~IsDir(nodes, path) THEN <<>>
                ELSE LET all == (IF Len(path) > 1 THEN <<<<UP>>>> ELSE <<>>)
                                \o Children(fs_resolve(nodes, path))
                     IN  SubSeq(all, 1, Min({Len(all), MAX_ENTRIES}))

\* The commands of a terminal window run in the same handler as the clicks.
Clickable == booted /\ Idle /\ cmdfd = 0

\* The window is opened at some time.
gui_file_manager_init ==
  /\ Clickable /\ entries = <<>> /\ gui_file_manager_load_directory(Root)
  /\ UNCHANGED <<nodes, fds, live, opening, tables, booted, cwd, cmdfd>>

ParentDir(path) == ParentPath(path)

\* A click on an entry: up one directory, down into one, or just a selection.
gui_file_manager_handle_click(i) ==
  LET down == current_path \o (IF current_path = Root THEN <<>> ELSE <<SLASH>>) \o entries[i] IN
  /\ Clickable
  /\ IF entries[i] = <<UP>> THEN gui_file_manager_load_directory(ParentDir(current_path))
     ELSE IF IsDir(nodes, down) THEN gui_file_manager_load_directory(down)
     ELSE selected_index' = i /\ UNCHANGED <<overrun, current_path, entries>>
  /\ UNCHANGED <<nodes, fds, live, opening, tables, booted, cwd, cmdfd>>

FsInit == Init /\ booted = FALSE /\ cwd = Root /\ cmdfd = 0 /\ current_path = Root /\ entries = <<>> /\ selected_index = 0

FsNext ==
  \/ fs_system_init \/ Command \/ CommandGoesOn \/ gui_file_manager_init
  \/ \E i \in DOMAIN entries : gui_file_manager_handle_click(i)

FsSpec == FsInit /\ [][FsNext]_fsVars

----------------------------------------------------------------------------
(* Properties                                                               *)

\* The working directory is a directory and stays one, whatever is made and however it is
\* left and entered, unless something is mounted; the file manager's path likewise.
CwdStep ==
  mnts' = mnts => /\ IsDir(nodes, cwd) => IsDir(nodes', cwd')
                  /\ IsDir(nodes, current_path) => IsDir(nodes', current_path')

\* What "cd .." does (cmd_cd): from a path that ends with a slash, as "cd" into a directory
\* leaves it, it stays in the directory and only takes the slash away; from one without it
\* leads to the parent.  So from "/t/" it takes two to go up.  Not promised at the root of
\* a mounted file system, or when another mount claims one of the two paths.
CdUpStep ==
  LET here == fs_resolve(nodes, cwd)
      there == fs_resolve(nodes, cwd')
  IN
  /\ cwd' # cwd /\ cmd_cd(<<UP>>) /\ here # 0 /\ find_mnt(cwd) = find_mnt(cwd')
  => IF LastName(cwd) = <<>> THEN there = here ELSE nodes[here].parent # 0 => there = nodes[here].parent

\* The entry ".." of the file manager leads to the parent of the directory shown, unless
\* the directory is the root of a mounted file system or was entered by an empty name,
\* which mkdir makes of a path that ends with a slash.
FmUpStep ==
  LET here == fs_resolve(nodes, current_path) IN
  /\ current_path' # current_path /\ Len(current_path') < Len(current_path)
  /\ LastName(current_path) # <<>> /\ here # 0 /\ nodes[here].parent # 0
  /\ find_mnt(current_path) = find_mnt(current_path')
  => fs_resolve(nodes, current_path') = nodes[here].parent

\* Commands and clicks lead where CwdStep, CdUpStep and FmUpStep tell (cmd_cd,
\* gui_file_manager_handle_click).
PathsMeant == [][CwdStep /\ CdUpStep /\ FmUpStep]_fsVars
=============================================================================
