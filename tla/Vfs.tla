--------------------------------- MODULE Vfs ---------------------------------
(***************************************************************************)
(* The virtual file system (fs/vfs: vfs.c, commands.c, tmpfs.c, devfs.c):  *)
(* mount table, node tree, path resolution, descriptor table.              *)
(*                                                                         *)
(* A path is a sequence of symbols: "/" and short runs of letters, so that *)
(* one name can be a string prefix of another (<<"dev">> of                *)
(* <<"dev", "ice">>), which is all that path resolution tells apart.  Each *)
(* symbol counts as one character.                                         *)
(* Nodes are numbered in the order of their creation; node numbers are     *)
(* never reused since nothing removes a node.  File contents are in Tmpfs. *)
(*                                                                         *)
(* fs_open and fs_mkdir copy parts of the path to arrays on the stack and  *)
(* do not look at their length.  A call that writes past the end of one    *)
(* sets `overrun', and the model ends there: what the kernel does from     *)
(* then on is not defined.                                                 *)
(***************************************************************************)
EXTENDS Integers, Sequences, FiniteSets, SequencesExt

CONSTANTS
  Letters,      \* the short runs of letters that paths are made of
  Paths,        \* the paths that callers pass
  Targets,      \* the mount points that callers pass
  DevNames,     \* names of the devices registered with devfs
  MaxMnts,      \* FS_MAX_MNTS
  MaxFds,       \* FS_MAX_FDS
  NAME_LEN,     \* 64: the size of comp[], fname[], dname[] and of a node's name
  FS_MAX_PATH,  \* the size of ppath[]
  MaxNodes      \* bound: no call once this many nodes exist

SLASH == "/"
Symbols == Letters \cup {SLASH, "dev"}

ASSUME VfsAssumption ==
  /\ Paths \subseteq Seq(Symbols) /\ <<>> \notin Paths
  /\ Targets \subseteq Seq(Symbols) /\ DevNames \subseteq Seq(Symbols)
  /\ MaxMnts \in Nat \ {0} /\ MaxFds \in Nat /\ MaxFds > 3 /\ MaxNodes \in Nat
  /\ NAME_LEN \in Nat \ {0} /\ FS_MAX_PATH \in Nat \ {0}

VARIABLES
  nodes,     \* fs_node: name, type, parent (0: none), fs
  mnts,      \* the active slots of mnts[], in slot order: path, root
  fds,       \* fds[3 .. MaxFds - 1]: an fs_file block, 0 when NULL
  live,      \* the fs_file blocks allocated and not freed: block -> the file's node
  opening,   \* `file' of the call of fs_open under way, 0 outside of one
  overrun,   \* an array on the stack was overrun
  devfs_root,\* 0 until devfs is mounted
  registered \* auxiliary: device nodes that devfs_register_device returned 0 for

vars == <<nodes, mnts, fds, live, opening, overrun, devfs_root, registered>>
tables == <<mnts, devfs_root, registered>>

Root == <<SLASH>>
Node(name, type, parent, fs) == [name |-> name, type |-> type, parent |-> parent, fs |-> fs]
FsTypes == {"tmpfs", "devfs"}   \* the registered types modelled here
FdRange == 3 .. MaxFds - 1

(* fs_system_init up to the mount of the root file system. *)
Init ==
  /\ nodes = <<Node(Root, "dir", 0, "tmpfs")>>
  /\ mnts = <<[path |-> Root, root |-> 1]>>
  /\ fds = [i \in FdRange |-> 0]
  /\ live = [b \in {} |-> 0] /\ opening = 0 /\ overrun = FALSE
  /\ devfs_root = 0 /\ registered = {}

-----------------------------------------------------------------------------
(* Path resolution, over a given node table ns. *)

(* find_mnt: the longest mount path that is a string prefix of the path;    *)
(* the first slot among equals; 0 if none.                                  *)
find_mnt(path) ==
  LET hit == {i \in DOMAIN mnts : mnts[i].path # <<>> /\ IsPrefix(mnts[i].path, path)}
      longest == {i \in hit : \A j \in hit : Len(mnts[j].path) <= Len(mnts[i].path)}
  IN  IF hit = {} THEN 0 ELSE CHOOSE i \in longest : \A j \in longest : i <= j

(* lookup walks the children, newest first. *)
lookup(ns, dir, name) ==
  LET hit == {n \in DOMAIN ns : ns[n].parent = dir /\ ns[n].name = name}
  IN  IF ns[dir].type # "dir" \/ hit = {} THEN 0
      ELSE CHOOSE n \in hit : \A m \in hit : m <= n

(* The components of a relative path: the runs between slashes, one symbol  *)
(* after the other, each cut to what comp[] holds.                          *)
ComponentStep(acc, c) ==
  IF c # SLASH THEN [done |-> acc.done,
                     comp |-> IF Len(acc.comp) < NAME_LEN - 1 THEN Append(acc.comp, c) ELSE acc.comp]
  ELSE [done |-> IF acc.comp = <<>> THEN acc.done ELSE Append(acc.done, acc.comp), comp |-> <<>>]

Splitting(rel) ==
  LET after[n \in 0 .. Len(rel)] ==
        IF n = 0 THEN [done |-> <<>>, comp |-> <<>>] ELSE ComponentStep(after[n - 1], rel[n])
  IN  after

Components(rel) == ComponentStep(Splitting(rel)[Len(rel)], SLASH).done

(* The nodes on the way down from root; 0 from the first name on that is    *)
(* not found.                                                               *)
Walk(ns, root, comps) ==
  LET at[k \in 0 .. Len(comps)] ==
        IF k = 0 THEN root ELSE IF at[k - 1] = 0 THEN 0 ELSE lookup(ns, at[k - 1], comps[k])
  IN  at

Relative(m, path) == Components(SubSeq(path, Len(mnts[m].path) + 1, Len(path)))

fs_resolve(ns, path) ==
  LET m == IF path = <<>> \/ path[1] # SLASH THEN 0 ELSE find_mnt(path)
  IN  IF m = 0 THEN 0 ELSE Walk(ns, mnts[m].root, Relative(m, path))[Len(Relative(m, path))]

(* The split that fs_open and fs_mkdir make: everything before the last     *)
(* slash (but at least one character), everything after it.                 *)
LastSlash(path) ==
  LET at == {i \in DOMAIN path : path[i] = SLASH}
  IN  IF at = {} THEN 1 ELSE CHOOSE i \in at : \A j \in at : j <= i
ParentPath(path) == SubSeq(path, 1, IF LastSlash(path) = 1 THEN 1 ELSE LastSlash(path) - 1)
LastName(path) == SubSeq(path, LastSlash(path) + 1, Len(path))

(* Both parts fit into ppath[] and fname[] (or dname[]), with their ends.   *)
Fits(path) == Len(ParentPath(path)) < FS_MAX_PATH /\ Len(LastName(path)) < NAME_LEN

(* No call is under way. *)
Idle == opening = 0 /\ ~overrun

-----------------------------------------------------------------------------
(* Mutant: children may be added to a file. *)
MayAddToFile(dir, name) ==
  dir # 0 /\ nodes[dir].fs = "tmpfs" /\ lookup(nodes, dir, name) = 0

(* tmpfs_create and tmpfs_mkdir: refused in devfs, in a file, and when the  *)
(* name is taken.                                                           *)
MayAdd(dir, name) ==
  dir # 0 /\ nodes[dir].fs = "tmpfs" /\ nodes[dir].type = "dir" /\ lookup(nodes, dir, name) = 0

(* Mutant: the new child is not linked to the older ones. *)
WithNodeAlone(dir, name, type) ==
  Append([n \in DOMAIN nodes |-> IF nodes[n].parent = dir THEN [nodes[n] EXCEPT !.parent = 0] ELSE nodes[n]],
         Node(name, type, dir, "tmpfs"))

WithNode(dir, name, type) == Append(nodes, Node(name, type, dir, "tmpfs"))

(* In the actions below heap tells whether an allocation succeeds. *)
fs_mkdir(path, heap) ==
  LET dir == fs_resolve(nodes, ParentPath(path))
      made == Fits(path) /\ MayAdd(dir, LastName(path)) /\ heap
  IN
  /\ Idle /\ Len(nodes) < MaxNodes
  /\ overrun' = ~Fits(path)
  /\ nodes' = IF made THEN WithNode(dir, LastName(path), "dir") ELSE nodes
  /\ UNCHANGED <<fds, live, opening, tables>>

(* The nodes once fs_open has made the file, if it is missing and wanted. *)
NodesAfterCreate(path, creat, heap) ==
  LET dir == fs_resolve(nodes, ParentPath(path))
  IN  IF fs_resolve(nodes, path) = 0 /\ creat /\ MayAdd(dir, LastName(path)) /\ heap
      THEN WithNode(dir, LastName(path), "file") ELSE nodes

(* The block that kernel_memory_create gives out next; which one it is does  *)
(* not matter.  One for each descriptor and one for a call are enough.      *)
FreeBlocks == (1 .. MaxFds - 2) \ DOMAIN live
FreshBlock == {b \in FreeBlocks : \A c \in FreeBlocks : b <= c}

WithFile(b, n) == [x \in DOMAIN live \cup {b} |-> IF x = b THEN n ELSE live[x]]

Without(b) == [x \in DOMAIN live \ {b} |-> live[x]]

(* fs_open up to the allocation of its fs_file: the node is found or made,  *)
(* or the call returns -1 already.                                          *)
fs_open(path, creat, heapNode, heapFile) ==
  LET over == fs_resolve(nodes, path) = 0 /\ creat /\ ~Fits(path)
      ns == IF over THEN nodes ELSE NodesAfterCreate(path, creat, heapNode)
      n == fs_resolve(ns, path)
  IN
  /\ Idle /\ Len(nodes) < MaxNodes
  /\ nodes' = ns /\ overrun' = over
  /\ IF n # 0 /\ heapFile THEN \E b \in FreshBlock : opening' = b /\ live' = WithFile(b, n)
     ELSE UNCHANGED <<live, opening>>
  /\ UNCHANGED <<fds, tables>>

(* devfs_open fails without a device behind the node, or when the device's  *)
(* access handler declines; tmpfs_open never fails.                         *)
OpenAccepted(n, access) == n.fs = "tmpfs" \/ (n.type = "dev" /\ access)

FreeFds == {i \in FdRange : fds[i] = 0}
LowestFd == {i \in FreeFds : \A j \in FreeFds : i <= j}

(* Mutant: returns without freeing the file. *)
OpenRefusedLeaks(access) ==
  /\ opening # 0 /\ ~OpenAccepted(nodes[live[opening]], access)
  /\ opening' = 0
  /\ UNCHANGED <<nodes, fds, live, overrun, tables>>

(* The node's open turns the call down: the file is freed. *)
OpenRefused(access) ==
  /\ opening # 0 /\ ~OpenAccepted(nodes[live[opening]], access)
  /\ live' = Without(opening)
  /\ opening' = 0
  /\ UNCHANGED <<nodes, fds, overrun, tables>>

(* fs_alloc_fd finds no place: the file is freed. *)
OpenFull(access) ==
  /\ opening # 0 /\ OpenAccepted(nodes[live[opening]], access) /\ FreeFds = {}
  /\ live' = Without(opening)
  /\ opening' = 0
  /\ UNCHANGED <<nodes, fds, overrun, tables>>

(* The file gets the lowest free descriptor. *)
Opened(fd, access) ==
  /\ opening # 0 /\ OpenAccepted(nodes[live[opening]], access) /\ fd \in LowestFd
  /\ fds' = [fds EXCEPT ![fd] = opening]
  /\ opening' = 0
  /\ UNCHANGED <<nodes, live, overrun, tables>>

fs_close(fd) ==
  /\ Idle /\ fds[fd] # 0
  /\ live' = Without(fds[fd])
  /\ fds' = [fds EXCEPT ![fd] = 0]
  /\ UNCHANGED <<nodes, opening, overrun, tables>>

(* A slot and the type are found, the type's mount makes a root node, the   *)
(* slot goes active.  Nothing looks whether the target is mounted already.  *)
fs_mount(tgt, type, heap) ==
  /\ Idle /\ Len(nodes) < MaxNodes
  /\ IF Len(mnts) < MaxMnts /\ type \in FsTypes /\ heap
     THEN /\ nodes' = Append(nodes, Node(IF type = "devfs" THEN <<"dev">> ELSE Root, "dir", 0, type))
          /\ mnts' = Append(mnts, [path |-> tgt, root |-> Len(nodes) + 1])
          /\ devfs_root' = IF type = "devfs" THEN Len(nodes) + 1 ELSE devfs_root
     ELSE UNCHANGED <<nodes, mnts, devfs_root>>
  /\ UNCHANGED <<fds, live, opening, overrun, registered>>

(* A node for the device is made and filled in, and 0 is returned.          *)
devfs_register_device(name, heap) ==
  /\ Idle /\ Len(nodes) < MaxNodes
  /\ IF devfs_root # 0 /\ lookup(nodes, devfs_root, name) = 0 /\ heap
     THEN /\ nodes' = Append(nodes, Node(name, "dev", 0, "devfs"))
          /\ registered' = registered \cup {Len(nodes) + 1}
     ELSE UNCHANGED <<nodes, registered>>
  /\ UNCHANGED <<mnts, fds, live, opening, overrun, devfs_root>>

Next ==
  \/ \E path \in Paths, heap \in BOOLEAN : fs_mkdir(path, heap)
  \/ \E path \in Paths, creat, heapNode, heapFile \in BOOLEAN : fs_open(path, creat, heapNode, heapFile)
  \/ \E access \in BOOLEAN : \/ OpenRefused(access) \/ OpenFull(access)
                             \/ \E fd \in FdRange : Opened(fd, access)
  \/ \E fd \in FdRange : fs_close(fd)
  \/ \E tgt \in Targets, type \in FsTypes \cup {"nofs"}, heap \in BOOLEAN : fs_mount(tgt, type, heap)
  \/ \E name \in DevNames, heap \in BOOLEAN : devfs_register_device(name, heap)

Spec == Init /\ [][Next]_vars

-----------------------------------------------------------------------------
(* The fs_file blocks on the heap are those of the descriptor table and the *)
(* one that a call of fs_open works on, each once, and each is of a node:   *)
(* none of the failing paths of fs_open, and no fs_close, loses a block,    *)
(* frees one twice or leaves a descriptor of a freed one.                   *)
OpenFds == {i \in FdRange : fds[i] # 0}
NoFileLeaked ==
  /\ DOMAIN live = {fds[i] : i \in OpenFds} \cup ({opening} \ {0})
  /\ \A i, j \in OpenFds : fds[i] = fds[j] => i = j
  /\ \A i \in OpenFds : fds[i] # opening
  /\ \A b \in DOMAIN live : live[b] \in DOMAIN nodes

(* What every call preserves: the tables hold nodes and mounts, and the root *)
(* of every mount is a node.                                                *)
Nodes == [name : Seq(Symbols), type : {"dir", "file", "dev"}, parent : Nat, fs : FsTypes]
Mounts == [path : Seq(Symbols), root : Nat]
TreeInv ==
  /\ nodes \in Seq(Nodes) /\ mnts \in Seq(Mounts)
  /\ \A i \in DOMAIN mnts : mnts[i].root \in DOMAIN nodes

(* A path that resolves to a node resolves to the same node for as long as  *)
(* nothing is mounted: creating files and directories never hides one.      *)
ResolutionStep ==
  mnts' = mnts /\ nodes' # nodes
    => \A path \in Paths : fs_resolve(nodes, path) # 0
                       => fs_resolve(nodes', path) = fs_resolve(nodes, path)
ResolutionStable == [][ResolutionStep]_vars

(* A file or directory just created in a directory is what its path now     *)
(* resolves to, provided that no other mount claims the path (a mount point *)
(* claims every path that begins with its text) and that the path has a     *)
(* last name.  A name or a path that fs_open or fs_mkdir has no room for    *)
(* creates nothing that can be spoken of: the call overruns its arrays.     *)
CreatedStep ==
  \A path \in Paths :
    LET new == Len(nodes')
        dir == fs_resolve(nodes, ParentPath(path))
    IN  /\ nodes' # nodes /\ nodes'[new].parent # 0
        /\ nodes'[new].parent = dir /\ nodes'[new].name = LastName(path)
        /\ LastName(path) # <<>> /\ find_mnt(path) = find_mnt(ParentPath(path))
        => fs_resolve(nodes', path) = new
CreatedResolves == [][CreatedStep]_vars

(* A device that devfs reports as registered is found under /dev.           *)
RegisteredFound ==
  \A n \in registered : lookup(nodes, devfs_root, nodes[n].name) # 0
=============================================================================
