--------------------------- MODULE ResourceProofs ---------------------------
(***************************************************************************)
(* Proofs that what is taken is given back: the files behind the            *)
(* descriptor table of the VFS, the blocks, descriptors and table entries   *)
(* of loadable modules, and the memory of control transfers of the EHCI,    *)
(* OHCI and UHCI drivers, which also hand on every completed report once;   *)
(* for tables of every size, any paths, any number of calls, ports and      *)
(* reports.  And that what a path leads to in the VFS stays there.          *)
(***************************************************************************)
EXTENDS Vfs, Modules, UsbHost, Loops, FiniteSetTheorems, TLAPS

-----------------------------------------------------------------------------
(* Path resolution *)

LEMMA AppendSeq ==
  ASSUME NEW S, NEW s \in Seq(S), NEW x \in S
  PROVE  /\ Append(s, x) \in Seq(S) /\ Len(s) \in Nat /\ Len(Append(s, x)) = Len(s) + 1
         /\ DOMAIN Append(s, x) = 1..Len(s) + 1
         /\ Append(s, x)[Len(s) + 1] = x /\ \A i \in 1..Len(s) : Append(s, x)[i] = s[i]
OBVIOUS

(* The splitting of a path is what its definition says. *)
SplitStates == [done : Seq(Seq(Symbols)), comp : Seq(Symbols)]

LEMMA StepSplits ==
  ASSUME NEW acc \in SplitStates, NEW c \in Symbols
  PROVE  ComponentStep(acc, c) \in SplitStates
<1>1. acc.done \in Seq(Seq(Symbols)) /\ acc.comp \in Seq(Symbols)
  BY DEF SplitStates
<1>2. Append(acc.comp, c) \in Seq(Symbols) /\ Append(acc.done, acc.comp) \in Seq(Seq(Symbols))
  BY <1>1, AppendSeq
<1>3. <<>> \in Seq(Symbols)
  OBVIOUS
<1> DEFINE more == IF Len(acc.comp) < NAME_LEN - 1 THEN Append(acc.comp, c) ELSE acc.comp
           rest == IF acc.comp = <<>> THEN acc.done ELSE Append(acc.done, acc.comp)
<1>4. more \in Seq(Symbols) /\ rest \in Seq(Seq(Symbols))
  BY <1>1, <1>2
<1>5. ComponentStep(acc, c) \in {[done |-> acc.done, comp |-> more], [done |-> rest, comp |-> <<>>]}
  BY DEF ComponentStep
<1> HIDE DEF more, rest
<1>6. [done |-> acc.done, comp |-> more] \in SplitStates
  BY <1>1, <1>4 DEF SplitStates
<1>7. [done |-> rest, comp |-> <<>>] \in SplitStates
  BY <1>3, <1>4 DEF SplitStates
<1> QED BY <1>5, <1>6, <1>7, Zenon

NoText == [done |-> <<>>, comp |-> <<>>]

LEMMA SplittingIs ==
  ASSUME NEW rel \in Seq(Symbols)
  PROVE  LET after == Splitting(rel) IN
         /\ after[0] = NoText
         /\ \A n \in 1 .. Len(rel) : after[n] = ComponentStep(after[n - 1], rel[n])
         /\ \A n \in 0 .. Len(rel) : after[n] \in SplitStates
<1> DEFINE N == Len(rel)
           P(h) == h = [k \in 0 .. N |-> IF k = 0 THEN NoText ELSE ComponentStep(h[k - 1], rel[k])]
           F == [x \in SplitStates \X (1 .. N) |-> ComponentStep(x[1], rel[x[2]])]
<1>1. N \in Nat /\ \A k \in 1 .. N : rel[k] \in Symbols
  OBVIOUS
<1>2. NoText \in SplitStates
  BY DEF NoText, SplitStates
<1>3. F \in [SplitStates \X (1 .. N) -> SplitStates]
  BY <1>1, StepSplits
<1>4. \A st \in SplitStates, k \in 1 .. N : F[<<st, k>>] = ComponentStep(st, rel[k])
  OBVIOUS
<1>5. Splitting(rel) = CHOOSE h : P(h)
  BY DEF Splitting, NoText
<1> HIDE DEF N, F
<1>6. PICK g \in [0 .. N -> SplitStates] : IsRun(g, N, NoText, F)
  BY <1>1, <1>2, <1>3, LoopRuns
<1>7. P(g)
  <2>1. \A k \in 0 .. N : k # 0 => k \in 1 .. N /\ g[k - 1] \in SplitStates
    BY <1>1
  <2>2. \A k \in 0 .. N : g[k] = IF k = 0 THEN NoText ELSE ComponentStep(g[k - 1], rel[k])
    BY <1>4, <1>6, <2>1 DEF IsRun
  <2> QED BY <2>2
<1> DEFINE after == Splitting(rel)
<1>8. P(after)
  <2> HIDE DEF P
  <2> QED BY <1>5, <1>7
<1> HIDE DEF after
<1>9. \A k \in 0 .. N : after[k] = IF k = 0 THEN NoText ELSE ComponentStep(after[k - 1], rel[k])
  BY <1>8
<1>10. after[0] = NoText /\ \A k \in 1 .. N : after[k] = ComponentStep(after[k - 1], rel[k])
  BY <1>1, <1>9
<1>11. \A k \in 1 .. N : after[k - 1] \in SplitStates => after[k] \in SplitStates
  BY <1>1, <1>10, StepSplits
<1>12. \A k \in 0 .. N : after[k] \in SplitStates
  BY <1>1, <1>2, <1>10, <1>11, LoopStays
<1> QED BY <1>10, <1>12 DEF N, after

LEMMA ComponentsType ==
  ASSUME NEW rel \in Seq(Symbols)
  PROVE  Components(rel) \in Seq(Seq(Symbols)) /\ Len(Components(rel)) \in Nat
<1>1. Len(rel) \in 0 .. Len(rel)
  OBVIOUS
<1>2. Splitting(rel)[Len(rel)] \in SplitStates
  BY <1>1, SplittingIs
<1>3. SLASH \in Symbols
  BY DEF Symbols
<1>4. ComponentStep(Splitting(rel)[Len(rel)], SLASH) \in SplitStates
  BY <1>2, <1>3, StepSplits
<1> QED BY <1>4 DEF Components, SplitStates

(* The greatest of some numbers up to N. *)
LEMMA GreatestNumber ==
  ASSUME NEW N \in Nat, NEW T, T \subseteq 0 .. N, T # {}
  PROVE  \E x \in T : \A y \in T : y <= x
<1> DEFINE U == {N - x : x \in T}
<1>1. U \subseteq Nat /\ U # {}
  <2>1. \A x \in T : N - x \in Nat
    OBVIOUS
  <2>2. PICK x \in T : TRUE
    OBVIOUS
  <2>3. N - x \in U
    BY <2>2
  <2> QED BY <2>1, <2>3
<1>2. PICK u \in U : \A y \in U : u <= y
  BY <1>1, LeastNumber
<1>3. PICK x \in T : u = N - x
  BY <1>2
<1>4. ASSUME NEW y \in T PROVE y <= x
  <2>1. N - x <= N - y
    BY <1>2, <1>3
  <2>2. x \in 0 .. N /\ y \in 0 .. N
    OBVIOUS
  <2> QED BY <2>1, <2>2
<1> QED BY <1>4

Hits(ns, dir, name) == {n \in DOMAIN ns : ns[n].parent = dir /\ ns[n].name = name}

(* lookup finds the newest node with that name, if there is one. *)
LEMMA LookupIs ==
  ASSUME NEW ns \in Seq(Nodes), NEW dir, NEW name
  PROVE  LET n == lookup(ns, dir, name) IN
         /\ n \in 0 .. Len(ns)
         /\ n # 0 => n \in DOMAIN ns
         /\ ns[dir].type = "dir" /\ Hits(ns, dir, name) # {} =>
              n \in Hits(ns, dir, name) /\ \A m \in Hits(ns, dir, name) : m <= n
         /\ ~(ns[dir].type = "dir" /\ Hits(ns, dir, name) # {}) => n = 0
<1> DEFINE H == Hits(ns, dir, name)
           P(n) == \A m \in H : m <= n
<1>1. Len(ns) \in Nat /\ DOMAIN ns = 1 .. Len(ns)
  OBVIOUS
<1>2. H \subseteq DOMAIN ns
  BY DEF Hits
<1>3. lookup(ns, dir, name) = IF ns[dir].type # "dir" \/ H = {} THEN 0 ELSE CHOOSE n \in H : P(n)
  BY DEF lookup, Hits
<1>4. ASSUME H # {} PROVE \E n \in H : P(n)
  <2>1. H \subseteq 0 .. Len(ns)
    BY <1>1, <1>2
  <2> HIDE DEF H
  <2> QED BY <1>1, <1>4, <2>1, GreatestNumber
<1> HIDE DEF H, P
<1>5. H # {} => (CHOOSE n \in H : P(n)) \in H /\ P(CHOOSE n \in H : P(n))
  BY <1>4
<1>6. CASE ns[dir].type # "dir" \/ H = {}
  BY <1>1, <1>3, <1>6 DEF H
<1>7. CASE ~(ns[dir].type # "dir" \/ H = {})
  <2> DEFINE n == CHOOSE n \in H : P(n)
  <2>1. lookup(ns, dir, name) = n
    BY <1>3, <1>7
  <2>2. n \in H /\ P(n)
    BY <1>5, <1>7
  <2> HIDE DEF n
  <2>3. n \in DOMAIN ns /\ n \in 0 .. Len(ns)
    BY <1>1, <1>2, <2>2
  <2> QED BY <1>7, <2>1, <2>2, <2>3 DEF P, H
<1> QED BY <1>6, <1>7

(* The way down is what its definition says. *)
LEMMA WalkIs ==
  ASSUME NEW ns \in Seq(Nodes), NEW root \in 0 .. Len(ns), NEW comps, Len(comps) \in Nat
  PROVE  LET at == Walk(ns, root, comps) IN
         /\ at[0] = root
         /\ \A k \in 1 .. Len(comps) : at[k] = IF at[k - 1] = 0 THEN 0 ELSE lookup(ns, at[k - 1], comps[k])
         /\ \A k \in 0 .. Len(comps) : at[k] \in 0 .. Len(ns)
<1> DEFINE N == Len(comps)
           V == 0 .. Len(ns)
           Down(cur, k) == IF cur = 0 THEN 0 ELSE lookup(ns, cur, comps[k])
           P(h) == h = [k \in 0 .. N |-> IF k = 0 THEN root ELSE Down(h[k - 1], k)]
           F == [x \in V \X (1 .. N) |-> Down(x[1], x[2])]
<1>1. \A k : \A cur \in V : Down(cur, k) \in V
  BY LookupIs
<1>2. Walk(ns, root, comps) = CHOOSE h : P(h)
  BY DEF Walk
<1>3. N \in Nat /\ root \in V
  OBVIOUS
<1> HIDE DEF Down, N, V
<1>4. F \in [V \X (1 .. N) -> V]
  BY <1>1
<1>5. \A cur \in V, k \in 1 .. N : F[<<cur, k>>] = Down(cur, k)
  OBVIOUS
<1> HIDE DEF F
<1>6. PICK g \in [0 .. N -> V] : IsRun(g, N, root, F)
  BY <1>3, <1>4, LoopRuns
<1>7. P(g)
  <2>1. \A k \in 0 .. N : k # 0 => k \in 1 .. N /\ g[k - 1] \in V
    BY <1>3
  <2>2. \A k \in 0 .. N : g[k] = IF k = 0 THEN root ELSE Down(g[k - 1], k)
    BY <1>5, <1>6, <2>1 DEF IsRun
  <2> QED BY <2>2
<1> DEFINE at == Walk(ns, root, comps)
<1>8. P(at)
  <2> HIDE DEF P
  <2> QED BY <1>2, <1>7
<1> HIDE DEF at
<1>9. \A k \in 0 .. N : at[k] = IF k = 0 THEN root ELSE Down(at[k - 1], k)
  BY <1>8
<1>10. at[0] = root /\ \A k \in 1 .. N : at[k] = Down(at[k - 1], k)
  BY <1>3, <1>9
<1>11. \A k \in 1 .. N : at[k - 1] \in V => at[k] \in V
  BY <1>1, <1>10
<1>12. \A k \in 0 .. N : at[k] \in V
  BY <1>3, <1>10, <1>11, LoopStays
<1> QED BY <1>10, <1>12 DEF N, V, at, Down

(* A node that no lookup found before it was added hides none. *)
Fresh(ns, nd) ==
  \/ nd.parent = 0
  \/ nd.parent \in DOMAIN ns /\ ns[nd.parent].type = "dir" /\ lookup(ns, nd.parent, nd.name) = 0

LEMMA LookupStays ==
  ASSUME NEW ns \in Seq(Nodes), NEW nd \in Nodes, Fresh(ns, nd), NEW dir \in 1 .. Len(ns), NEW name,
         lookup(ns, dir, name) # 0
  PROVE  lookup(Append(ns, nd), dir, name) = lookup(ns, dir, name)
<1> DEFINE more == Append(ns, nd)
           new == Len(ns) + 1
<1>1. /\ more \in Seq(Nodes) /\ Len(ns) \in Nat /\ DOMAIN ns = 1 .. Len(ns) /\ DOMAIN more = 1 .. new /\ more[new] = nd
      /\ \A i \in 1 .. Len(ns) : more[i] = ns[i]
  BY AppendSeq
<1>2. 1 .. new = (1 .. Len(ns)) \cup {new} /\ new \notin 1 .. Len(ns) /\ dir # 0
  BY <1>1
<1>3. ns[dir].type = "dir" /\ Hits(ns, dir, name) # {}
  BY LookupIs
<1> HIDE DEF more
<1>4. ~(nd.parent = dir /\ nd.name = name)
  BY <1>2 DEF Fresh
<1>5. Hits(more, dir, name) = Hits(ns, dir, name)
  <2> HIDE DEF new
  <2>1. \A n : n \in Hits(more, dir, name) <=> n \in Hits(ns, dir, name)
    BY <1>1, <1>2, <1>4, Zenon DEF Hits
  <2> QED BY <2>1, Zenon
<1>6. more[dir].type = "dir"
  BY <1>1, <1>3
<1>7. lookup(ns, dir, name) = CHOOSE n \in Hits(ns, dir, name) : \A m \in Hits(ns, dir, name) : m <= n
  BY <1>3 DEF lookup, Hits
<1>8. lookup(more, dir, name) = CHOOSE n \in Hits(more, dir, name) : \A m \in Hits(more, dir, name) : m <= n
  BY <1>3, <1>5, <1>6 DEF lookup, Hits
<1> QED BY <1>5, <1>7, <1>8 DEF more

LEMMA WalkStays ==
  ASSUME NEW ns \in Seq(Nodes), NEW nd \in Nodes, Fresh(ns, nd), NEW root \in 1 .. Len(ns), NEW comps, Len(comps) \in Nat,
         NEW j \in 0 .. Len(comps), Walk(ns, root, comps)[j] # 0
  PROVE  Walk(Append(ns, nd), root, comps)[j] = Walk(ns, root, comps)[j]
<1> DEFINE at == Walk(ns, root, comps)
           more == Append(ns, nd)
           to == Walk(more, root, comps)
           N == Len(comps)
<1>1. /\ more \in Seq(Nodes) /\ Len(ns) \in Nat /\ root \in 0 .. Len(more) /\ root \in 0 .. Len(ns)
  BY AppendSeq
<1>2. /\ at[0] = root
      /\ \A k \in 1 .. N : at[k] = IF at[k - 1] = 0 THEN 0 ELSE lookup(ns, at[k - 1], comps[k])
      /\ \A k \in 0 .. N : at[k] \in 0 .. Len(ns)
  BY <1>1, WalkIs
<1> HIDE DEF at
<1>3. to[0] = root /\ \A k \in 1 .. N : to[k] = IF to[k - 1] = 0 THEN 0 ELSE lookup(more, to[k - 1], comps[k])
  <2> HIDE DEF more
  <2> QED BY <1>1, WalkIs
<1> HIDE DEF to
<1> DEFINE S == {k \in 0 .. N : at[k] # 0 => to[k] = at[k]}
<1>4. 0 \in S
  BY <1>2, <1>3
<1>5. ASSUME NEW k \in 0 .. N - 1, k \in S PROVE k + 1 \in S
  <2>1. k + 1 \in 1 .. N /\ (k + 1) - 1 = k /\ k + 1 \in 0 .. N /\ k \in 0 .. N
    OBVIOUS
  <2> SUFFICES ASSUME at[k + 1] # 0 PROVE to[k + 1] = at[k + 1]
    BY <2>1
  <2>2. at[k] # 0 /\ at[k + 1] = lookup(ns, at[k], comps[k + 1])
    BY <1>2, <2>1
  <2>3. to[k] = at[k] /\ at[k] \in 1 .. Len(ns)
    BY <1>1, <1>2, <1>5, <2>1, <2>2
  <2>4. to[k + 1] = lookup(more, at[k], comps[k + 1])
    BY <1>3, <2>1, <2>2, <2>3
  <2>5. lookup(more, at[k], comps[k + 1]) = lookup(ns, at[k], comps[k + 1])
    BY <2>2, <2>3, LookupStays
  <2> QED BY <2>2, <2>4, <2>5
<1> HIDE DEF S
<1>6. 0 .. N \subseteq S
  BY <1>4, <1>5, InductionOnSet
<1>7. at[j] # 0 => to[j] = at[j]
  BY <1>6 DEF S
<1> QED BY <1>7 DEF at, to, more

(* find_mnt finds a mount whose path the given one begins with, if any. *)
LEMMA FindMnt ==
  ASSUME TreeInv, NEW path \in Seq(Symbols), find_mnt(path) # 0
  PROVE  LET m == find_mnt(path) IN
         /\ m \in DOMAIN mnts /\ mnts[m].root \in 1 .. Len(nodes) /\ mnts[m].path \in Seq(Symbols)
         /\ Len(mnts[m].path) \in 1 .. Len(path)
<1> DEFINE hit == {i \in DOMAIN mnts : mnts[i].path # <<>> /\ IsPrefix(mnts[i].path, path)}
           size == [i \in DOMAIN mnts |-> Len(mnts[i].path)]
           longest == {i \in hit : \A k \in hit : Len(mnts[k].path) <= Len(mnts[i].path)}
           P(i) == \A k \in longest : i <= k
<1>1. find_mnt(path) = CHOOSE i \in longest : P(i)
  BY DEF find_mnt
<1>2. hit # {}
  BY DEF find_mnt
<1>3. /\ Len(path) \in Nat /\ mnts \in Seq(Mounts) /\ DOMAIN mnts = 1 .. Len(mnts) /\ Len(mnts) \in Nat
      /\ nodes \in Seq(Nodes) /\ DOMAIN nodes = 1 .. Len(nodes)
  BY DEF TreeInv
<1>4. \A i \in DOMAIN mnts : mnts[i].path \in Seq(Symbols) /\ Len(mnts[i].path) \in Nat /\ mnts[i].root \in DOMAIN nodes
  <2>1. \A i \in DOMAIN mnts : mnts[i] \in Mounts
    BY <1>3
  <2>2. \A i \in DOMAIN mnts : mnts[i].path \in Seq(Symbols)
    BY <2>1 DEF Mounts
  <2> QED BY <2>2 DEF TreeInv
<1>5. \A i \in hit : i \in DOMAIN mnts /\ Len(mnts[i].path) \in 1 .. Len(path)
  <2> TAKE i \in hit
  <2> DEFINE q == mnts[i].path
  <2>1. i \in DOMAIN mnts /\ q \in Seq(Symbols) /\ q # <<>> /\ Len(q) <= Len(path)
    BY <1>4 DEF IsPrefix
  <2> HIDE DEF q
  <2>2. Len(q) \in Nat /\ Len(q) # 0
    BY <2>1
  <2> QED BY <1>3, <2>1, <2>2 DEF q
<1> DEFINE lens == {Len(mnts[i].path) : i \in hit}
<1> HIDE DEF hit
<1>6. PICK x \in lens : \A y \in lens : y <= x
  <2>1. lens \subseteq 0 .. Len(path) /\ lens # {}
    <3>1. \A i \in hit : Len(mnts[i].path) \in 0 .. Len(path)
      BY <1>3, <1>5
    <3>2. PICK i \in hit : TRUE
      BY <1>2
    <3>3. Len(mnts[i].path) \in lens
      BY <3>2
    <3> QED BY <3>1, <3>3
  <2> HIDE DEF lens
  <2> QED BY <1>3, <2>1, GreatestNumber
<1>7. longest # {} /\ longest \subseteq Nat
  <2>1. PICK i \in hit : x = Len(mnts[i].path)
    BY <1>6
  <2>2. i \in longest
    BY <1>6, <2>1
  <2>3. \A k \in longest : k \in 1 .. Len(mnts)
    BY <1>3, <1>5
  <2> HIDE DEF longest
  <2>4. longest \subseteq Nat
    BY <1>3, <2>3
  <2> QED BY <2>2, <2>4
<1>8. longest \subseteq hit
  OBVIOUS
<1> HIDE DEF longest
<1>9. \E i \in longest : P(i)
  BY <1>7, LeastNumber
<1> DEFINE m == CHOOSE i \in longest : P(i)
<1>10. m \in longest
  <2> HIDE DEF P
  <2> QED BY <1>9
<1> HIDE DEF m, P
<1>11. m \in hit /\ find_mnt(path) = m
  BY <1>1, <1>8, <1>10 DEF m
<1> QED BY <1>3, <1>4, <1>5, <1>11

Seen(path) == IF path = <<>> \/ path[1] # SLASH THEN 0 ELSE find_mnt(path)

LEMMA ResolveIs ==
  ASSUME TreeInv, NEW path \in Seq(Symbols), NEW ns
  PROVE  /\ Seen(path) = 0 => fs_resolve(ns, path) = 0
         /\ Seen(path) # 0 =>
              LET m == find_mnt(path)
                  comps == Relative(m, path)
              IN  /\ mnts[m].root \in 1 .. Len(nodes) /\ Len(comps) \in Nat
                  /\ fs_resolve(ns, path) = Walk(ns, mnts[m].root, comps)[Len(comps)]
<1>1. CASE Seen(path) = 0
  BY <1>1 DEF Seen, fs_resolve
<1>2. CASE Seen(path) # 0
  <2> DEFINE m == find_mnt(path)
             from == Len(mnts[m].path) + 1
  <2>1. Seen(path) = m /\ m # 0
    BY <1>2 DEF Seen
  <2>2. mnts[m].root \in 1 .. Len(nodes) /\ from \in Nat \ {0}
    BY <2>1, FindMnt
  <2>3. fs_resolve(ns, path) = Walk(ns, mnts[m].root, Relative(m, path))[Len(Relative(m, path))]
    BY <1>2, <2>1 DEF fs_resolve, Seen
  <2> HIDE DEF from
  <2>4. SubSeq(path, from, Len(path)) \in Seq(Symbols)
    BY <2>2
  <2>5. Len(Relative(m, path)) \in Nat
    BY <2>4, ComponentsType DEF Relative, from
  <2> QED BY <1>2, <2>2, <2>3, <2>5
<1> QED BY <1>1, <1>2

LEMMA ResolveStays ==
  ASSUME TreeInv, NEW nd \in Nodes, Fresh(nodes, nd), NEW path \in Seq(Symbols), fs_resolve(nodes, path) # 0
  PROVE  fs_resolve(Append(nodes, nd), path) = fs_resolve(nodes, path)
<1> DEFINE m == find_mnt(path)
           comps == Relative(m, path)
<1>1. Seen(path) # 0
  BY ResolveIs
<1>2. /\ mnts[m].root \in 1 .. Len(nodes) /\ Len(comps) \in Nat
      /\ fs_resolve(nodes, path) = Walk(nodes, mnts[m].root, comps)[Len(comps)]
      /\ fs_resolve(Append(nodes, nd), path) = Walk(Append(nodes, nd), mnts[m].root, comps)[Len(comps)]
  BY <1>1, ResolveIs
<1> HIDE DEF m, comps
<1>3. nodes \in Seq(Nodes) /\ Len(comps) \in 0 .. Len(comps)
  BY <1>2 DEF TreeInv
<1> QED BY <1>2, <1>3, WalkStays

LEMMA ResolveTypeIn ==
  ASSUME TreeInv, NEW path \in Seq(Symbols), NEW ns \in Seq(Nodes), Len(nodes) <= Len(ns)
  PROVE  fs_resolve(ns, path) \in 0 .. Len(ns)
<1> DEFINE m == find_mnt(path)
           comps == Relative(m, path)
<1>1. ns \in Seq(Nodes) /\ Len(ns) \in Nat /\ Len(nodes) \in Nat
  BY DEF TreeInv
<1>2. CASE Seen(path) = 0
  BY <1>1, <1>2, ResolveIs
<1>3. CASE Seen(path) # 0
  <2>1. /\ mnts[m].root \in 1 .. Len(nodes) /\ Len(comps) \in Nat
        /\ fs_resolve(ns, path) = Walk(ns, mnts[m].root, comps)[Len(comps)]
    BY <1>3, ResolveIs
  <2> HIDE DEF m, comps
  <2>2. Len(comps) \in 0 .. Len(comps) /\ mnts[m].root \in 0 .. Len(ns)
    BY <1>1, <2>1
  <2> QED BY <1>1, <2>1, <2>2, WalkIs
<1> QED BY <1>2, <1>3

LEMMA ResolveType ==
  ASSUME TreeInv, NEW path \in Seq(Symbols)
  PROVE  fs_resolve(nodes, path) \in 0 .. Len(nodes)
<1>1. nodes \in Seq(Nodes) /\ Len(nodes) <= Len(nodes)
  BY DEF TreeInv
<1> QED BY <1>1, ResolveTypeIn

(* The last slash of a path, and the two parts that fs_open and fs_mkdir    *)
(* make of it.                                                              *)
LEMMA LastSlashIs ==
  ASSUME NEW path \in Seq(Symbols), path # <<>>
  PROVE  LET j == LastSlash(path) IN
         /\ j \in 1 .. Len(path)
         /\ \A i \in j + 1 .. Len(path) : path[i] # SLASH
         /\ (\E i \in 1 .. Len(path) : path[i] = SLASH) => path[j] = SLASH
<1> DEFINE at == {i \in DOMAIN path : path[i] = SLASH}
           P(i) == \A j \in at : j <= i
<1>1. Len(path) \in Nat \ {0} /\ DOMAIN path = 1 .. Len(path)
  OBVIOUS
<1>2. LastSlash(path) = IF at = {} THEN 1 ELSE CHOOSE i \in at : P(i)
  BY DEF LastSlash
<1>3. CASE at = {}
  BY <1>1, <1>2, <1>3
<1>4. CASE at # {}
  <2>1. at \subseteq 0 .. Len(path) /\ at \subseteq 1 .. Len(path)
    BY <1>1
  <2> DEFINE j == CHOOSE i \in at : P(i)
  <2>2. j \in at /\ P(j)
    <3>1. \E i \in at : P(i)
      <4> HIDE DEF at
      <4> QED BY <1>1, <1>4, <2>1, GreatestNumber
    <3> HIDE DEF at, P
    <3> QED BY <3>1
  <2>3. LastSlash(path) = j
    BY <1>2, <1>4
  <2> HIDE DEF j
  <2>4. ASSUME NEW i \in j + 1 .. Len(path) PROVE path[i] # SLASH
    <3>1. j \in 1 .. Len(path) /\ i \in 1 .. Len(path) /\ ~(i <= j)
      BY <1>1, <2>1, <2>2
    <3>2. i \notin at
      BY <2>2, <3>1
    <3> QED BY <1>1, <3>1, <3>2
  <2> QED BY <1>1, <2>1, <2>2, <2>3, <2>4
<1> QED BY <1>3, <1>4

LEMMA CutSeq ==
  ASSUME NEW S, NEW s \in Seq(S), NEW a \in 1 .. Len(s) + 1, NEW b \in 0 .. Len(s), a <= b + 1
  PROVE  /\ SubSeq(s, a, b) \in Seq(S) /\ Len(SubSeq(s, a, b)) = b - a + 1
         /\ \A i \in 1 .. b - a + 1 : SubSeq(s, a, b)[i] = s[a + i - 1]
OBVIOUS

LEMMA PathParts ==
  ASSUME NEW path \in Seq(Symbols), path # <<>>
  PROVE  /\ ParentPath(path) \in Seq(Symbols) /\ LastName(path) \in Seq(Symbols)
         /\ Len(ParentPath(path)) = IF LastSlash(path) = 1 THEN 1 ELSE LastSlash(path) - 1
         /\ \A i \in 1 .. Len(ParentPath(path)) : ParentPath(path)[i] = path[i]
         /\ Len(LastName(path)) = Len(path) - LastSlash(path)
         /\ \A i \in 1 .. Len(path) - LastSlash(path) : LastName(path)[i] = path[LastSlash(path) + i]
<1> DEFINE j == LastSlash(path)
           b == IF j = 1 THEN 1 ELSE j - 1
<1>1. Len(path) \in Nat \ {0} /\ j \in 1 .. Len(path)
  BY LastSlashIs
<1>2. ParentPath(path) = SubSeq(path, 1, b) /\ LastName(path) = SubSeq(path, j + 1, Len(path))
  BY DEF ParentPath, LastName
<1> HIDE DEF j
<1>3. /\ 1 \in 1 .. Len(path) + 1 /\ b \in 0 .. Len(path) /\ 1 <= b + 1 /\ b - 1 + 1 = b
      /\ j + 1 \in 1 .. Len(path) + 1 /\ Len(path) \in 0 .. Len(path) /\ j + 1 <= Len(path) + 1
      /\ Len(path) - (j + 1) + 1 = Len(path) - j
  BY <1>1
<1>4. ParentPath(path) \in Seq(Symbols) /\ Len(ParentPath(path)) = b /\ \A i \in 1 .. b : ParentPath(path)[i] = path[1 + i - 1]
  <2> HIDE DEF b
  <2> QED BY <1>2, <1>3, CutSeq
<1>5. /\ LastName(path) \in Seq(Symbols) /\ Len(LastName(path)) = Len(path) - j
      /\ \A i \in 1 .. Len(path) - j : LastName(path)[i] = path[(j + 1) + i - 1]
  <2> HIDE DEF b
  <2> QED BY <1>2, <1>3, CutSeq
<1>6. \A i \in 1 .. Len(path) - j : (j + 1) + i - 1 = j + i
  BY <1>1
<1>7. \A i \in 1 .. b : 1 + i - 1 = i
  BY <1>3
<1> QED BY <1>4, <1>5, <1>6, <1>7 DEF j

(* What a call can do to the nodes: nothing, or add one that was not to be  *)
(* found and whose name fits; a mount adds a root as well.                  *)
AddsNode ==
  /\ mnts' = mnts
  /\ \E nd \in Nodes : /\ Fresh(nodes, nd) /\ nodes' = Append(nodes, nd)
                       /\ nd.parent # 0 => Len(nd.name) < NAME_LEN
AddsMount ==
  \E root \in Nodes, tgt \in Targets :
    /\ root.parent = 0 /\ nodes' = Append(nodes, root)
    /\ mnts' = Append(mnts, [path |-> tgt, root |-> Len(nodes) + 1])

LEMMA ChildAdded ==
  ASSUME TreeInv, NEW path \in Paths, Fits(path),
         NEW type \in {"dir", "file"}, NEW dir, dir = fs_resolve(nodes, ParentPath(path)),
         MayAdd(dir, LastName(path)), nodes' = WithNode(dir, LastName(path), type), mnts' = mnts
  PROVE  AddsNode
<1>1. path \in Seq(Symbols) /\ path # <<>>
  BY VfsAssumption
<1>2. ParentPath(path) \in Seq(Symbols) /\ LastName(path) \in Seq(Symbols)
  BY <1>1, PathParts
<1>3. dir \in 0 .. Len(nodes) /\ nodes \in Seq(Nodes) /\ Len(nodes) \in Nat /\ DOMAIN nodes = 1 .. Len(nodes)
  BY <1>2, ResolveType DEF TreeInv
<1>4. dir \in DOMAIN nodes /\ dir \in Nat /\ nodes[dir].type = "dir" /\ lookup(nodes, dir, LastName(path)) = 0
  BY <1>3 DEF MayAdd
<1> DEFINE name == LastName(path)
           nd == [name |-> name, type |-> type, parent |-> dir, fs |-> "tmpfs"]
<1>5. nodes' = Append(nodes, nd)
  BY DEF WithNode, Node
<1>6. nd.parent = dir /\ nd.name = name /\ Len(name) < NAME_LEN
  BY DEF Fits
<1>7. nd \in Nodes
  <2> HIDE DEF name
  <2>1. name \in Seq(Symbols)
    BY <1>2 DEF name
  <2> QED BY <1>4, <2>1 DEF Nodes, FsTypes
<1> HIDE DEF nd
<1>8. Fresh(nodes, nd)
  BY <1>4, <1>6 DEF Fresh
<1> QED BY <1>5, <1>6, <1>7, <1>8 DEF AddsNode

LEMMA StepNodes ==
  ASSUME TreeInv, [Next]_vars
  PROVE  UNCHANGED <<nodes, mnts>> \/ AddsNode \/ AddsMount
<1>1. CASE UNCHANGED <<nodes, mnts>>
  BY <1>1
<1>2. ASSUME NEW path \in Paths, NEW heap \in BOOLEAN, fs_mkdir(path, heap) PROVE UNCHANGED <<nodes, mnts>> \/ AddsNode
  <2> DEFINE dir == fs_resolve(nodes, ParentPath(path))
  <2>1. mnts' = mnts /\ (nodes' = nodes \/ (Fits(path) /\ MayAdd(dir, LastName(path)) /\ nodes' = WithNode(dir, LastName(path), "dir")))
    BY <1>2, Zenon DEF fs_mkdir, tables
  <2> HIDE DEF dir
  <2>2. dir = fs_resolve(nodes, ParentPath(path))
    BY DEF dir
  <2> QED BY <2>1, <2>2, ChildAdded
<1>3. ASSUME NEW path \in Paths, NEW creat \in BOOLEAN, NEW heapNode \in BOOLEAN, NEW heapFile \in BOOLEAN,
             fs_open(path, creat, heapNode, heapFile)
      PROVE  UNCHANGED <<nodes, mnts>> \/ AddsNode
  <2> DEFINE dir == fs_resolve(nodes, ParentPath(path))
  <2>1. mnts' = mnts
    BY <1>3 DEF fs_open, tables
  <2>2. nodes' = nodes \/ (Fits(path) /\ MayAdd(dir, LastName(path)) /\ nodes' = WithNode(dir, LastName(path), "file"))
    BY <1>3, Zenon DEF fs_open, NodesAfterCreate
  <2> HIDE DEF dir
  <2>3. dir = fs_resolve(nodes, ParentPath(path))
    BY DEF dir
  <2> QED BY <2>1, <2>2, <2>3, ChildAdded
<1>4. ASSUME NEW tgt \in Targets, NEW type \in FsTypes \cup {"nofs"}, NEW heap \in BOOLEAN, fs_mount(tgt, type, heap)
      PROVE  UNCHANGED <<nodes, mnts>> \/ AddsMount
  <2> DEFINE name == IF type = "devfs" THEN <<"dev">> ELSE Root
             root == [name |-> name, type |-> "dir", parent |-> 0, fs |-> type]
  <2>1. name \in Seq(Symbols)
    <3>1. "dev" \in Symbols /\ Root \in Seq(Symbols)
      BY DEF Symbols, Root
    <3>2. <<"dev">> \in Seq(Symbols)
      BY <3>1
    <3> QED BY <3>1, <3>2
  <2>2. UNCHANGED <<nodes, mnts>>
        \/ (type \in FsTypes /\ nodes' = Append(nodes, root) /\ mnts' = Append(mnts, [path |-> tgt, root |-> Len(nodes) + 1]))
    BY <1>4 DEF fs_mount, Node
  <2>3. root.parent = 0 /\ (type \in FsTypes => root \in Nodes)
    <3> HIDE DEF name
    <3> QED BY <2>1 DEF Nodes
  <2> HIDE DEF root
  <2> QED BY <2>2, <2>3 DEF AddsMount
<1>5. ASSUME NEW name \in DevNames, NEW heap \in BOOLEAN, devfs_register_device(name, heap)
      PROVE  UNCHANGED <<nodes, mnts>> \/ AddsNode
  <2> DEFINE nd == [name |-> name, type |-> "dev", parent |-> 0, fs |-> "devfs"]
  <2>1. UNCHANGED <<nodes, mnts>> \/ (nodes' = Append(nodes, nd) /\ mnts' = mnts)
    BY <1>5 DEF devfs_register_device, Node
  <2>2. nd \in Nodes /\ nd.parent = 0
    BY VfsAssumption DEF Nodes, FsTypes
  <2> HIDE DEF nd
  <2> QED BY <2>1, <2>2 DEF AddsNode, Fresh
<1>6. CASE \E fd \in FdRange : fs_close(fd)
  BY <1>6 DEF fs_close, tables
<1>7. CASE \E access \in BOOLEAN : \/ OpenRefused(access) \/ OpenFull(access)
                                \/ \E fd \in FdRange : Opened(fd, access)
  BY <1>7 DEF OpenRefused, OpenFull, Opened, tables
<1> QED BY <1>1, <1>2, <1>3, <1>4, <1>5, <1>6, <1>7 DEF Next, vars

LEMMA TreeInit == Init => TreeInv
<1> SUFFICES ASSUME Init PROVE TreeInv
  OBVIOUS
<1> DEFINE nd == [name |-> Root, type |-> "dir", parent |-> 0, fs |-> "tmpfs"]
           mnt == [path |-> Root, root |-> 1]
<1>1. nodes = <<nd>> /\ mnts = <<mnt>>
  BY DEF Init, Node
<1>2. Root \in Seq(Symbols)
  BY DEF Symbols, Root
<1>3. nd \in Nodes
  BY <1>2 DEF Nodes, FsTypes
<1>4. mnt \in Mounts /\ mnt.root = 1
  BY <1>2 DEF Mounts
<1> HIDE DEF nd, mnt
<1>5. nodes \in Seq(Nodes) /\ mnts \in Seq(Mounts) /\ DOMAIN mnts = {1} /\ DOMAIN nodes = {1} /\ mnts[1] = mnt
  BY <1>1, <1>3, <1>4
<1> QED BY <1>4, <1>5 DEF TreeInv

LEMMA TreeStep == TreeInv /\ [Next]_vars => TreeInv'
<1> SUFFICES ASSUME TreeInv, [Next]_vars PROVE TreeInv'
  OBVIOUS
<1>1. /\ nodes \in Seq(Nodes) /\ mnts \in Seq(Mounts) /\ DOMAIN nodes = 1 .. Len(nodes) /\ Len(nodes) \in Nat
      /\ DOMAIN mnts = 1 .. Len(mnts) /\ Len(mnts) \in Nat /\ \A i \in DOMAIN mnts : mnts[i].root \in DOMAIN nodes
  BY DEF TreeInv
<1>2. CASE UNCHANGED <<nodes, mnts>>
  BY <1>2 DEF TreeInv
<1>3. CASE AddsNode
  <2>1. PICK nd \in Nodes : nodes' = Append(nodes, nd) /\ mnts' = mnts
    BY <1>3 DEF AddsNode
  <2>2. nodes' \in Seq(Nodes) /\ DOMAIN nodes' = 1 .. Len(nodes) + 1
    BY <1>1, <2>1, AppendSeq
  <2>3. DOMAIN nodes \subseteq DOMAIN nodes'
    BY <1>1, <2>2
  <2> QED BY <1>1, <2>1, <2>2, <2>3 DEF TreeInv
<1>4. CASE AddsMount
  <2>1. PICK root \in Nodes, tgt \in Targets :
          nodes' = Append(nodes, root) /\ mnts' = Append(mnts, [path |-> tgt, root |-> Len(nodes) + 1])
    BY <1>4 DEF AddsMount
  <2> DEFINE mnt == [path |-> tgt, root |-> Len(nodes) + 1]
  <2>2. mnt \in Mounts /\ mnt.root = Len(nodes) + 1
    BY <1>1, VfsAssumption DEF Mounts
  <2> HIDE DEF mnt
  <2>3. nodes' \in Seq(Nodes) /\ DOMAIN nodes' = 1 .. Len(nodes) + 1
    BY <1>1, <2>1, AppendSeq
  <2>4. /\ mnts' \in Seq(Mounts) /\ DOMAIN mnts' = 1 .. Len(mnts) + 1 /\ mnts'[Len(mnts) + 1] = mnt
        /\ \A i \in 1 .. Len(mnts) : mnts'[i] = mnts[i]
    BY <1>1, <2>1, <2>2, AppendSeq DEF mnt
  <2>5. ASSUME NEW i \in DOMAIN mnts' PROVE mnts'[i].root \in DOMAIN nodes'
    <3>1. CASE i = Len(mnts) + 1
      BY <1>1, <2>2, <2>3, <2>4, <3>1
    <3>2. CASE i \in 1 .. Len(mnts)
      BY <1>1, <2>3, <2>4, <3>2
    <3>3. i = Len(mnts) + 1 \/ i \in 1 .. Len(mnts)
      BY <1>1, <2>4
    <3> QED BY <3>1, <3>2, <3>3
  <2> QED BY <2>3, <2>4, <2>5 DEF TreeInv
<1> QED BY <1>2, <1>3, <1>4, StepNodes

(* fs_open, fs_mkdir and the rest, for any paths and tables of every size:  *)
(* as long as nothing is mounted, a path that leads to a node goes on       *)
(* leading to that node.                                                    *)
THEOREM ResolutionCorrect == Spec => ResolutionStable
<1>1. TreeInv /\ [Next]_vars => [ResolutionStep]_vars
  <2> SUFFICES ASSUME TreeInv, [Next]_vars PROVE ResolutionStep
    OBVIOUS
  <2> SUFFICES ASSUME mnts' = mnts, nodes' # nodes, NEW path \in Paths, fs_resolve(nodes, path) # 0
               PROVE  fs_resolve(nodes', path) = fs_resolve(nodes, path)
    BY DEF ResolutionStep
  <2>1. path \in Seq(Symbols)
    BY VfsAssumption
  <2>2. CASE nodes' = nodes
    BY <2>2
  <2>3. CASE AddsNode
    <3>1. PICK nd \in Nodes : Fresh(nodes, nd) /\ nodes' = Append(nodes, nd)
      BY <2>3 DEF AddsNode
    <3>2. fs_resolve(Append(nodes, nd), path) = fs_resolve(nodes, path)
      BY <2>1, <3>1, ResolveStays
    <3> QED BY <3>1, <3>2
  <2>4. ~AddsMount
    <3> SUFFICES ASSUME AddsMount PROVE FALSE
      OBVIOUS
    <3>1. PICK mnt : mnts' = Append(mnts, mnt)
      BY DEF AddsMount
    <3>2. mnts \in Seq(Mounts) /\ Len(mnts) \in Nat
      BY DEF TreeInv
    <3>3. Len(Append(mnts, mnt)) = Len(mnts) + 1
      BY <3>2
    <3> QED BY <3>1, <3>2, <3>3
  <2> QED BY <2>2, <2>3, <2>4, StepNodes
<1>2. Spec => []TreeInv
  BY TreeInit, TreeStep, PTL DEF Spec
<1> QED BY <1>1, <1>2, PTL DEF Spec, ResolutionStable

LEMMA SameSeq ==
  ASSUME NEW S, NEW N, NEW s \in Seq(S), NEW t \in Seq(S), Len(s) = N, Len(t) = N, \A i \in 1 .. N : s[i] = t[i]
  PROVE  s = t
OBVIOUS

(* Splitting looks at no more of the text than it has passed. *)
LEMMA SplittingPrefix ==
  ASSUME NEW rel \in Seq(Symbols), NEW pre \in Seq(Symbols), Len(pre) <= Len(rel),
         \A i \in 1 .. Len(pre) : pre[i] = rel[i]
  PROVE  \A n \in 0 .. Len(pre) : Splitting(rel)[n] = Splitting(pre)[n]
<1> DEFINE f == Splitting(rel)
           g == Splitting(pre)
           N == Len(pre)
<1>1. N \in Nat /\ Len(rel) \in Nat
  OBVIOUS
<1>2. f[0] = NoText /\ \A n \in 1 .. Len(rel) : f[n] = ComponentStep(f[n - 1], rel[n])
  BY SplittingIs
<1>3. g[0] = NoText /\ \A n \in 1 .. N : g[n] = ComponentStep(g[n - 1], pre[n])
  BY SplittingIs
<1> HIDE DEF f, g
<1> DEFINE S == {n \in 0 .. N : f[n] = g[n]}
<1>4. 0 \in S
  BY <1>1, <1>2, <1>3
<1>5. ASSUME NEW n \in 0 .. N - 1, n \in S PROVE n + 1 \in S
  <2>1. n + 1 \in 1 .. N /\ n + 1 \in 1 .. Len(rel) /\ (n + 1) - 1 = n /\ n + 1 \in 0 .. N
    BY <1>1
  <2>2. f[n + 1] = ComponentStep(f[n], rel[n + 1]) /\ g[n + 1] = ComponentStep(g[n], pre[n + 1]) /\ pre[n + 1] = rel[n + 1]
    BY <1>2, <1>3, <2>1
  <2> QED BY <1>5, <2>1, <2>2
<1> HIDE DEF S
<1>6. 0 .. N \subseteq S
  BY <1>1, <1>4, <1>5, InductionOnSet
<1> QED BY <1>6 DEF S, N, f, g

(* The place of the next symbol. *)
LEMMA NextPlace ==
  \A b, M \in Nat : b <= M =>
    \A n \in 0 .. (M - b) - 1 :
      LET k == b + n + 1 IN k \in 1 .. M /\ k - 1 = b + n /\ k \in b + 1 .. M /\ b + (n + 1) = k /\ n + 1 \in 0 .. M - b
OBVIOUS

(* Behind a slash, or at the start, a name without slashes is gathered.     *)
LEMMA NameGathered ==
  ASSUME NEW rel \in Seq(Symbols), NEW b \in 0 .. Len(rel), NEW done \in Seq(Seq(Symbols)),
         Splitting(rel)[b] = [done |-> done, comp |-> <<>>],
         \A i \in b + 1 .. Len(rel) : rel[i] # SLASH, Len(rel) - b < NAME_LEN
  PROVE  Splitting(rel)[Len(rel)] = [done |-> done, comp |-> SubSeq(rel, b + 1, Len(rel))]
<1> DEFINE f == Splitting(rel)
           N == Len(rel) - b
           R(n) == [done |-> done, comp |-> SubSeq(rel, b + 1, b + n)]
           S == {n \in 0 .. N : f[b + n] = R(n)}
<1>1. N \in Nat /\ Len(rel) \in Nat /\ b + N = Len(rel)
  OBVIOUS
<1>2. \A n \in 1 .. Len(rel) : f[n] = ComponentStep(f[n - 1], rel[n])
  BY SplittingIs
<1>3. f[b] = [done |-> done, comp |-> <<>>]
  OBVIOUS
<1> HIDE DEF f
<1>4. 0 \in S
  <2>1. SubSeq(rel, b + 1, b + 0) = <<>> /\ b + 0 = b
    OBVIOUS
  <2> QED BY <1>1, <1>3, <2>1
<1>5. ASSUME NEW n \in 0 .. N - 1, n \in S PROVE n + 1 \in S
  <2> DEFINE k == b + n + 1
             so == SubSeq(rel, b + 1, b + n)
  <2>1. k \in 1 .. Len(rel) /\ k - 1 = b + n /\ k \in b + 1 .. Len(rel) /\ b + (n + 1) = k /\ n + 1 \in 0 .. N
    BY <1>1, NextPlace
  <2>2. f[k] = ComponentStep(R(n), rel[k]) /\ rel[k] # SLASH
    BY <1>2, <1>5, <2>1
  <2>3. R(n).done = done /\ R(n).comp = so /\ Len(so) < NAME_LEN - 1
    <3>1. /\ b + 1 \in 1 .. Len(rel) + 1 /\ b + n \in 0 .. Len(rel) /\ b + 1 <= b + n + 1 /\ b + n - (b + 1) + 1 = n
          /\ n < NAME_LEN - 1
      BY <1>1, <2>1, VfsAssumption
    <3>2. Len(so) = n
      <4> DEFINE a == b + 1
                 c == b + n
      <4>1. a \in 1 .. Len(rel) + 1 /\ c \in 0 .. Len(rel) /\ a <= c + 1 /\ c - a + 1 = n
        BY <3>1
      <4> HIDE DEF a, c
      <4>2. Len(SubSeq(rel, a, c)) = c - a + 1
        BY <4>1, CutSeq
      <4> QED BY <4>1, <4>2 DEF a, c
    <3> QED BY <3>1, <3>2
  <2>4. f[k] = [done |-> done, comp |-> Append(so, rel[k])]
    BY <2>2, <2>3 DEF ComponentStep
  <2>5. Append(so, rel[k]) = SubSeq(rel, b + 1, k)
    <3>1. /\ b + 1 \in 1 .. Len(rel) + 1 /\ b + n \in 0 .. Len(rel) /\ b + 1 <= b + n + 1 /\ b + n - (b + 1) + 1 = n
          /\ k \in 0 .. Len(rel) /\ b + 1 <= k + 1 /\ k - (b + 1) + 1 = n + 1
      BY <1>1, <2>1
    <3>2. so \in Seq(Symbols) /\ Len(so) = n /\ \A i \in 1 .. n : so[i] = rel[(b + 1) + i - 1]
      <4> DEFINE a == b + 1
                 c == b + n
      <4>1. a \in 1 .. Len(rel) + 1 /\ c \in 0 .. Len(rel) /\ a <= c + 1 /\ c - a + 1 = n
        BY <3>1
      <4> HIDE DEF a, c
      <4>2. LET s == SubSeq(rel, a, c) IN s \in Seq(Symbols) /\ Len(s) = c - a + 1 /\ \A i \in 1 .. c - a + 1 : s[i] = rel[a + i - 1]
        BY <4>1, CutSeq
      <4> QED BY <4>1, <4>2 DEF a, c
    <3> DEFINE to == SubSeq(rel, b + 1, k)
    <3>3. to \in Seq(Symbols) /\ Len(to) = n + 1 /\ \A i \in 1 .. n + 1 : to[i] = rel[(b + 1) + i - 1]
      <4> HIDE DEF k
      <4> QED BY <3>1, CutSeq
    <3>4. rel[k] \in Symbols /\ (b + 1) + (n + 1) - 1 = k
      BY <1>1, <2>1
    <3> HIDE DEF so, to, k
    <3> DEFINE more == Append(so, rel[k])
    <3>5. more \in Seq(Symbols) /\ Len(more) = n + 1 /\ more[n + 1] = rel[k] /\ \A i \in 1 .. n : more[i] = so[i]
      BY <3>2, <3>4, AppendSeq
    <3> HIDE DEF more
    <3>6. \A i \in 1 .. n + 1 : more[i] = to[i]
      <4> TAKE i \in 1 .. n + 1
      <4>1. CASE i = n + 1
        BY <3>3, <3>4, <3>5, <4>1
      <4>2. CASE i \in 1 .. n
        BY <3>2, <3>3, <3>5, <4>2
      <4> QED BY <4>1, <4>2
    <3>7. more = to
      BY <3>3, <3>5, <3>6, SameSeq
    <3> QED BY <3>7 DEF more, to
  <2>6. f[b + (n + 1)] = R(n + 1)
    BY <2>1, <2>4, <2>5
  <2> QED BY <2>1, <2>6
<1> HIDE DEF S
<1>6. 0 .. N \subseteq S
  BY <1>1, <1>4, <1>5, InductionOnSet
<1>7. f[b + N] = R(N)
  <2>1. N \in 0 .. N
    BY <1>1
  <2>2. N \in S
    BY <1>6, <2>1
  <2> QED BY <2>2 DEF S
<1> QED BY <1>1, <1>7 DEF f

(* The components of a path are those of its parent and the last name.      *)
LEMMA ComponentsOfChild ==
  ASSUME NEW path \in Seq(Symbols), path # <<>>, path[1] = SLASH, LastName(path) # <<>>,
         Len(LastName(path)) < NAME_LEN, NEW low \in 1 .. Len(ParentPath(path))
  PROVE  LET up == SubSeq(ParentPath(path), low + 1, Len(ParentPath(path)))
         IN  Components(SubSeq(path, low + 1, Len(path))) = Append(Components(up), LastName(path))
<1> DEFINE q == ParentPath(path)
           j == LastSlash(path)
           rel == SubSeq(path, low + 1, Len(path))
           up == SubSeq(q, low + 1, Len(q))
           b == j - low
<1>1. /\ Len(path) \in Nat \ {0} /\ j \in 1 .. Len(path) /\ path[j] = SLASH
      /\ \A i \in j + 1 .. Len(path) : path[i] # SLASH
  <2>1. Len(path) \in Nat \ {0} /\ 1 \in 1 .. Len(path)
    OBVIOUS
  <2> QED BY <2>1, LastSlashIs
<1>2. /\ q \in Seq(Symbols) /\ Len(q) = (IF j = 1 THEN 1 ELSE j - 1) /\ \A i \in 1 .. Len(q) : q[i] = path[i]
      /\ LastName(path) \in Seq(Symbols) /\ Len(LastName(path)) = Len(path) - j
      /\ \A i \in 1 .. Len(path) - j : LastName(path)[i] = path[j + i]
  BY PathParts
<1> HIDE DEF q, j
<1>3. low \in 1 .. Len(q) /\ low <= j /\ Len(q) <= j /\ low <= Len(path) /\ (low < j => low + (j - 1 - low) = Len(q) /\ j # 1)
  <2>1. low \in 1 .. Len(q)
    BY DEF q
  <2> QED BY <1>1, <1>2, <2>1, SMTT(40)
<1>4. /\ rel \in Seq(Symbols) /\ Len(rel) = Len(path) - low
      /\ \A i \in 1 .. Len(path) - low : rel[i] = path[(low + 1) + i - 1]
  <2>1. /\ low + 1 \in 1 .. Len(path) + 1 /\ Len(path) \in 0 .. Len(path) /\ low + 1 <= Len(path) + 1
        /\ Len(path) - (low + 1) + 1 = Len(path) - low
    BY <1>1, <1>3
  <2> QED BY <2>1, CutSeq, ZenonT(60)
<1>5. /\ up \in Seq(Symbols) /\ Len(up) = Len(q) - low /\ \A i \in 1 .. Len(q) - low : up[i] = q[(low + 1) + i - 1]
  <2>1. /\ low + 1 \in 1 .. Len(q) + 1 /\ Len(q) \in 0 .. Len(q) /\ low + 1 <= Len(q) + 1 /\ Len(q) - (low + 1) + 1 = Len(q) - low
    BY <1>1, <1>2, <1>3
  <2> QED BY <1>2, <2>1, CutSeq, SMTT(40)
<1> HIDE DEF rel, up
<1>6. \A n \in 0 .. Len(up) : Splitting(rel)[n] = Splitting(up)[n]
  <2>1. Len(up) <= Len(rel)
    BY <1>1, <1>2, <1>3, <1>4, <1>5
  <2>2. ASSUME NEW i \in 1 .. Len(up) PROVE up[i] = rel[i]
    <3>1. i \in 1 .. Len(q) - low /\ i \in 1 .. Len(path) - low /\ (low + 1) + i - 1 \in 1 .. Len(q)
      BY <1>1, <1>2, <1>3, <1>4, <1>5
    <3>2. up[i] = q[(low + 1) + i - 1] /\ rel[i] = path[(low + 1) + i - 1]
      BY <1>4, <1>5, <3>1
    <3> QED BY <1>2, <3>1, <3>2
  <2> QED BY <1>4, <1>5, <2>1, <2>2, SplittingPrefix
<1> DEFINE done == Components(up)
<1>7. done \in Seq(Seq(Symbols))
  BY <1>5, ComponentsType
<1>8. b \in 0 .. Len(rel) /\ Splitting(rel)[b] = [done |-> done, comp |-> <<>>]
  <2>1. b \in 0 .. Len(rel)
    BY <1>1, <1>3, <1>4
  <2>2. CASE low < j
    <3>1. Len(up) = b - 1 /\ Len(up) \in 0 .. Len(up) /\ b \in 1 .. Len(rel) /\ (low + 1) + b - 1 = j /\ b \in 1 .. Len(path) - low
      BY <1>1, <1>2, <1>3, <1>4, <1>5, <2>2
    <3>2. rel[b] = SLASH
      BY <1>1, <1>4, <3>1
    <3> DEFINE st == Splitting(up)[Len(up)]
    <3>3. Splitting(rel)[b] = ComponentStep(st, SLASH)
      <4>1. Splitting(rel)[b] = ComponentStep(Splitting(rel)[b - 1], rel[b])
        BY <1>4, <3>1, SplittingIs
      <4>2. Splitting(rel)[b - 1] = st
        BY <1>6, <3>1
      <4> QED BY <3>2, <4>1, <4>2
    <3>4. done = ComponentStep(st, SLASH).done
      BY DEF Components
    <3> HIDE DEF st, done
    <3>5. ComponentStep(st, SLASH) = [done |-> ComponentStep(st, SLASH).done, comp |-> <<>>]
      BY DEF ComponentStep
    <3> QED BY <2>1, <3>3, <3>4, <3>5
  <2>3. CASE low = j
    <3>1. b = 0 /\ Len(up) = 0 /\ 0 \in 0 .. Len(up)
      BY <1>1, <1>2, <1>3, <1>5, <2>3
    <3>2. Splitting(rel)[0] = NoText /\ Splitting(up)[0] = NoText
      BY <1>4, <1>5, SplittingIs
    <3>3. done = <<>>
      BY <3>1, <3>2 DEF Components, ComponentStep, NoText
    <3> QED BY <2>1, <3>1, <3>2, <3>3 DEF NoText
  <2>4. low < j \/ low = j
    BY <1>1, <1>3
  <2> QED BY <2>2, <2>3, <2>4
<1>9. \A i \in b + 1 .. Len(rel) : rel[i] # SLASH
  <2> TAKE i \in b + 1 .. Len(rel)
  <2>1. i \in 1 .. Len(path) - low /\ (low + 1) + i - 1 \in j + 1 .. Len(path)
    BY <1>1, <1>3, <1>4
  <2> QED BY <1>1, <1>4, <2>1
<1> DEFINE name == SubSeq(rel, b + 1, Len(rel))
<1>10. name = LastName(path)
  <2>1. /\ b + 1 \in 1 .. Len(rel) + 1 /\ Len(rel) \in 0 .. Len(rel) /\ b + 1 <= Len(rel) + 1
        /\ Len(rel) - (b + 1) + 1 = Len(path) - j
    BY <1>1, <1>3, <1>4
  <2>2. /\ name \in Seq(Symbols) /\ Len(name) = Len(path) - j
        /\ \A i \in 1 .. Len(path) - j : name[i] = rel[(b + 1) + i - 1]
    <3> HIDE DEF b
    <3> QED BY <1>4, <2>1, CutSeq, SMTT(40)
  <2>3. ASSUME NEW i \in 1 .. Len(path) - j PROVE name[i] = LastName(path)[i]
    <3>1. (b + 1) + i - 1 \in 1 .. Len(path) - low /\ (low + 1) + ((b + 1) + i - 1) - 1 = j + i
      BY <1>1, <1>3
    <3> QED BY <1>2, <1>4, <2>2, <3>1
  <2> HIDE DEF name
  <2> QED BY <1>2, <2>2, <2>3
<1> HIDE DEF done, b, name
<1>11. Splitting(rel)[Len(rel)] = [done |-> done, comp |-> name]
  <2>1. Len(rel) - b < NAME_LEN
    BY <1>1, <1>2, <1>3, <1>4 DEF b
  <2> QED BY <1>4, <1>7, <1>8, <1>9, <2>1, NameGathered DEF name
<1>12. Components(rel) = Append(done, name)
  <2> DEFINE st == [done |-> done, comp |-> name]
  <2>1. st.done = done /\ st.comp = name /\ name # <<>>
    BY <1>10
  <2> HIDE DEF st
  <2>2. ComponentStep(st, SLASH).done = Append(done, name)
    BY <2>1 DEF ComponentStep
  <2> QED BY <1>11, <2>2 DEF Components, st
<1> QED BY <1>10, <1>12 DEF rel, up, q, done

(* The last step of the way down. *)
LEMMA WalkLast ==
  ASSUME NEW ns \in Seq(Nodes), NEW root \in 0 .. Len(ns), NEW comps \in Seq(Seq(Symbols)), NEW name \in Seq(Symbols),
         Walk(ns, root, comps)[Len(comps)] # 0
  PROVE  Walk(ns, root, Append(comps, name))[Len(Append(comps, name))] = lookup(ns, Walk(ns, root, comps)[Len(comps)], name)
<1> DEFINE N == Len(comps)
           more == Append(comps, name)
           f == Walk(ns, root, comps)
           g == Walk(ns, root, more)
<1>1. N \in Nat /\ Len(more) = N + 1 /\ Len(more) \in Nat /\ more[N + 1] = name /\ \A i \in 1 .. N : more[i] = comps[i]
  BY AppendSeq
<1> HIDE DEF more
<1>2. f[0] = root /\ \A k \in 1 .. N : f[k] = IF f[k - 1] = 0 THEN 0 ELSE lookup(ns, f[k - 1], comps[k])
  <2>1. Len(comps) \in Nat
    BY <1>1
  <2> QED BY <2>1, WalkIs
<1>3. g[0] = root /\ \A k \in 1 .. N + 1 : g[k] = IF g[k - 1] = 0 THEN 0 ELSE lookup(ns, g[k - 1], more[k])
  <2>1. g[0] = root /\ \A k \in 1 .. Len(more) : g[k] = IF g[k - 1] = 0 THEN 0 ELSE lookup(ns, g[k - 1], more[k])
    <3>1. Len(more) \in Nat
      BY <1>1
    <3> QED BY <3>1, WalkIs
  <2> QED BY <1>1, <2>1
<1> DEFINE S == {k \in 0 .. N : g[k] = f[k]}
<1>4. f[N] # 0
  OBVIOUS
<1> HIDE DEF f, g
<1>5. 0 \in S
  BY <1>1, <1>2, <1>3
<1>6. ASSUME NEW k \in 0 .. N - 1, k \in S PROVE k + 1 \in S
  <2>1. k + 1 \in 1 .. N /\ k + 1 \in 1 .. N + 1 /\ (k + 1) - 1 = k /\ k + 1 \in 0 .. N
    BY <1>1
  <2>2. g[k] = f[k] /\ more[k + 1] = comps[k + 1]
    BY <1>1, <1>6, <2>1
  <2> QED BY <1>2, <1>3, <2>1, <2>2
<1> HIDE DEF S
<1>7. 0 .. N \subseteq S
  BY <1>1, <1>5, <1>6, InductionOnSet
<1>8. g[N] = f[N]
  <2>1. N \in 0 .. N
    BY <1>1
  <2>2. N \in S
    BY <1>7, <2>1
  <2> QED BY <2>2 DEF S
<1>9. N + 1 \in 1 .. N + 1 /\ (N + 1) - 1 = N
  BY <1>1
<1>10. g[N + 1] = lookup(ns, g[N], name)
  BY <1>1, <1>3, <1>4, <1>8, <1>9
<1> QED BY <1>1, <1>8, <1>10 DEF f, g, more

LEMMA NewestFound ==
  ASSUME NEW ns \in Seq(Nodes), NEW nd \in Nodes, nd.parent \in 1 .. Len(ns), ns[nd.parent].type = "dir"
  PROVE  lookup(Append(ns, nd), nd.parent, nd.name) = Len(ns) + 1
<1> DEFINE more == Append(ns, nd)
           new == Len(ns) + 1
           dir == nd.parent
<1>1. /\ more \in Seq(Nodes) /\ Len(ns) \in Nat /\ DOMAIN more = 1 .. new /\ more[new] = nd /\ Len(more) = new
      /\ \A i \in 1 .. Len(ns) : more[i] = ns[i]
  BY AppendSeq
<1> HIDE DEF more
<1>2. more[dir].type = "dir" /\ new \in Hits(more, dir, nd.name)
  BY <1>1 DEF Hits
<1>3. lookup(more, dir, nd.name) \in 0 .. new /\ new <= lookup(more, dir, nd.name)
  BY <1>1, <1>2, LookupIs
<1> QED BY <1>1, <1>3 DEF more

LEMMA CreatedFound ==
  ASSUME TreeInv, NEW nd \in Nodes, Fresh(nodes, nd), NEW path \in Seq(Symbols), path # <<>>,
         nd.parent # 0, nd.parent = fs_resolve(nodes, ParentPath(path)), nd.name = LastName(path),
         LastName(path) # <<>>, Len(LastName(path)) < NAME_LEN, find_mnt(path) = find_mnt(ParentPath(path))
  PROVE  fs_resolve(Append(nodes, nd), path) = Len(nodes) + 1
<1> DEFINE q == ParentPath(path)
           m == find_mnt(path)
           dir == nd.parent
           more == Append(nodes, nd)
           root == mnts[m].root
           low == Len(mnts[m].path)
           j == LastSlash(path)
<1>1. /\ q \in Seq(Symbols) /\ Len(q) = (IF j = 1 THEN 1 ELSE j - 1) /\ (\A i \in 1 .. Len(q) : q[i] = path[i])
      /\ j \in 1 .. Len(path) /\ Len(path) \in Nat
  BY PathParts, LastSlashIs
<1> HIDE DEF j
<1>2. Len(q) \in Nat \ {0} /\ 1 \in 1 .. Len(q) /\ Len(q) <= Len(path)
  BY <1>1
<1> HIDE DEF q
<1>3. fs_resolve(nodes, q) = dir /\ dir # 0 /\ find_mnt(q) = m
  BY DEF q
<1>4. Seen(q) # 0
  BY <1>1, <1>3, ResolveIs
<1>5. q[1] = SLASH /\ find_mnt(q) # 0 /\ path[1] = SLASH
  BY <1>1, <1>2, <1>4 DEF Seen
<1>6. Seen(path) # 0
  BY <1>3, <1>5 DEF Seen
<1>7. root \in 1 .. Len(nodes) /\ low \in 1 .. Len(q)
  BY <1>1, <1>3, <1>5, FindMnt
<1> DEFINE comps == Relative(m, q)
<1>8. comps \in Seq(Seq(Symbols)) /\ Len(comps) \in Nat
  <2>1. low + 1 \in 1 .. Len(q) + 1 /\ Len(q) \in 0 .. Len(q) /\ low + 1 <= Len(q) + 1
    BY <1>2, <1>7
  <2>2. SubSeq(q, low + 1, Len(q)) \in Seq(Symbols)
    BY <1>1, <2>1, CutSeq
  <2> QED BY <2>2, ComponentsType DEF Relative
<1>9. Relative(m, path) = Append(comps, LastName(path))
  BY <1>5, <1>7, ComponentsOfChild DEF Relative, q
<1>10. dir = Walk(nodes, root, comps)[Len(comps)]
  BY <1>1, <1>3, <1>4, ResolveIs
<1>11. fs_resolve(more, path) = Walk(more, root, Append(comps, LastName(path)))[Len(Append(comps, LastName(path)))]
  BY <1>6, <1>9, ResolveIs
<1> HIDE DEF comps, root, low, m
<1>12. nodes \in Seq(Nodes) /\ Len(nodes) \in Nat /\ more \in Seq(Nodes) /\ root \in 0 .. Len(more) /\ Len(comps) \in 0 .. Len(comps)
  <2>1. nodes \in Seq(Nodes)
    BY DEF TreeInv
  <2>2. more \in Seq(Nodes) /\ Len(more) = Len(nodes) + 1 /\ Len(nodes) \in Nat
    BY <2>1, AppendSeq
  <2> HIDE DEF more
  <2> QED BY <1>7, <1>8, <2>1, <2>2
<1>13. Walk(more, root, comps)[Len(comps)] = dir
  BY <1>3, <1>7, <1>8, <1>10, <1>12, WalkStays
<1>14. LastName(path) \in Seq(Symbols)
  BY PathParts
<1>15. fs_resolve(more, path) = lookup(more, dir, LastName(path))
  <2> HIDE DEF more, dir
  <2> QED BY <1>3, <1>8, <1>11, <1>12, <1>13, <1>14, WalkLast
<1>16. dir \in 1 .. Len(nodes) /\ nodes[dir].type = "dir"
  BY <1>12 DEF Fresh
<1> QED BY <1>12, <1>15, <1>16, NewestFound

(* fs_open and fs_mkdir, for tables and arrays of every size and any paths  *)
(* (until a call overruns its arrays): what they create is found by its     *)
(* path, unless another mount claims it.                                    *)
THEOREM CreationCorrect == Spec => CreatedResolves
<1>1. TreeInv /\ [Next]_vars => [CreatedStep]_vars
  <2> SUFFICES ASSUME TreeInv, [Next]_vars PROVE CreatedStep
    OBVIOUS
  <2> DEFINE new == Len(nodes')
  <2> SUFFICES ASSUME NEW path \in Paths, nodes' # nodes, nodes'[new].parent # 0,
                      nodes'[new].parent = fs_resolve(nodes, ParentPath(path)), nodes'[new].name = LastName(path),
                      LastName(path) # <<>>, find_mnt(path) = find_mnt(ParentPath(path))
               PROVE  fs_resolve(nodes', path) = new
    BY DEF CreatedStep
  <2>1. path \in Seq(Symbols) /\ path # <<>> /\ nodes \in Seq(Nodes)
    BY VfsAssumption DEF TreeInv
  <2>2. CASE AddsNode
    <3>1. PICK nd \in Nodes : /\ Fresh(nodes, nd) /\ nodes' = Append(nodes, nd)
                              /\ nd.parent # 0 => Len(nd.name) < NAME_LEN
      BY <2>2 DEF AddsNode
    <3>2. nodes' = Append(nodes, nd)
      BY <3>1, Zenon
    <3>3. new = Len(nodes) + 1 /\ nodes'[new] = nd
      BY <2>1, <3>2, AppendSeq
    <3> HIDE DEF new
    <3>4. Fresh(nodes, nd) /\ nd.parent # 0 /\ Len(LastName(path)) < NAME_LEN
      BY <3>1, <3>3, Zenon
    <3>5. fs_resolve(Append(nodes, nd), path) = Len(nodes) + 1
      BY <2>1, <3>3, <3>4, CreatedFound
    <3> QED BY <3>2, <3>3, <3>5
  <2>3. CASE AddsMount
    <3>1. PICK root \in Nodes : root.parent = 0 /\ nodes' = Append(nodes, root)
      BY <2>3 DEF AddsMount
    <3>2. nodes'[new] = root
      BY <2>1, <3>1, AppendSeq
    <3> QED BY <3>1, <3>2
  <2> QED BY <2>2, <2>3, StepNodes
<1>2. Spec => []TreeInv
  BY TreeInit, TreeStep, PTL DEF Spec
<1> QED BY <1>1, <1>2, PTL DEF Spec, CreatedResolves

-----------------------------------------------------------------------------
(* Open files *)

FilesInv ==
  TreeInv /\ fds \in [FdRange -> 0 .. MaxFds - 2] /\ opening \in 0 .. MaxFds - 2 /\ NoFileLeaked

LEMMA FilesInit == Init => FilesInv
<1> SUFFICES ASSUME Init PROVE FilesInv
  OBVIOUS
<1>1. fds \in [FdRange -> 0 .. MaxFds - 2] /\ OpenFds = {} /\ DOMAIN live = {} /\ opening = 0 /\ opening \in 0 .. MaxFds - 2
  BY VfsAssumption DEF Init, OpenFds
<1> QED BY <1>1, TreeInit DEF FilesInv, NoFileLeaked

(* Nodes stay, so the files go on having one. *)
LEMMA NodesStay ==
  ASSUME TreeInv, [Next]_vars
  PROVE  DOMAIN nodes \subseteq DOMAIN nodes'
<1>1. nodes \in Seq(Nodes) /\ Len(nodes) \in Nat /\ DOMAIN nodes = 1 .. Len(nodes)
  BY DEF TreeInv
<1>2. ASSUME NEW nd \in Nodes, nodes' = Append(nodes, nd) PROVE DOMAIN nodes \subseteq DOMAIN nodes'
  BY <1>1, <1>2, AppendSeq
<1> QED BY <1>2, StepNodes DEF AddsNode, AddsMount

LEMMA OpenStarts ==
  ASSUME FilesInv, [Next]_vars, NEW path \in Paths, NEW creat \in BOOLEAN, NEW heapNode \in BOOLEAN, NEW heapFile \in BOOLEAN,
         fs_open(path, creat, heapNode, heapFile)
  PROVE  NoFileLeaked' /\ opening' \in 0 .. MaxFds - 2
<1>1. DOMAIN nodes \subseteq DOMAIN nodes' /\ OpenFds' = OpenFds /\ fds' = fds
  BY NodesStay DEF FilesInv, fs_open, OpenFds
<1>2. CASE UNCHANGED <<live, opening>>
  BY <1>1, <1>2 DEF FilesInv, NoFileLeaked
<1>3. ASSUME NEW n, n # 0, n = fs_resolve(nodes', path), NEW b \in FreshBlock, opening' = b, live' = WithFile(b, n)
      PROVE  NoFileLeaked' /\ opening' \in 0 .. MaxFds - 2
  <2>1. path \in Seq(Symbols)
    BY VfsAssumption
  <2>2. nodes' \in Seq(Nodes) /\ Len(nodes) \in Nat /\ Len(nodes) <= Len(nodes') /\ Len(nodes') \in Nat
    <3>1. TreeInv' /\ nodes \in Seq(Nodes)
      BY TreeStep DEF FilesInv, TreeInv
    <3>2. nodes' \in Seq(Nodes) /\ DOMAIN nodes = 1 .. Len(nodes) /\ DOMAIN nodes' = 1 .. Len(nodes')
      BY <3>1 DEF TreeInv
    <3> QED BY <1>1, <3>1, <3>2
  <2>3. n \in DOMAIN nodes'
    <3>1. fs_resolve(nodes', path) \in 0 .. Len(nodes')
      BY <2>1, <2>2, ResolveTypeIn DEF FilesInv
    <3> QED BY <1>3, <2>2, <3>1
  <2>4. b # 0 /\ b \notin DOMAIN live /\ opening = 0 /\ b \in 0 .. MaxFds - 2
    BY VfsAssumption DEF FreshBlock, FreeBlocks, fs_open, Idle
  <2>5. DOMAIN live' = DOMAIN live \cup {b} /\ \A x \in DOMAIN live' : live'[x] = IF x = b THEN n ELSE live[x]
    BY <1>3 DEF WithFile
  <2>6. \A x \in DOMAIN live' : live'[x] \in DOMAIN nodes'
    BY <1>1, <2>3, <2>5 DEF FilesInv, NoFileLeaked
  <2>7. DOMAIN live = {fds[i] : i \in OpenFds}
    BY <2>4 DEF FilesInv, NoFileLeaked
  <2> QED BY <1>1, <1>3, <2>4, <2>5, <2>6, <2>7 DEF FilesInv, NoFileLeaked
<1> QED BY <1>2, <1>3 DEF fs_open

LEMMA OpenEnds ==
  ASSUME FilesInv, [Next]_vars, NEW access \in BOOLEAN,
         OpenRefused(access) \/ OpenFull(access) \/ \E fd \in FdRange : Opened(fd, access)
  PROVE  NoFileLeaked' /\ fds' \in [FdRange -> 0 .. MaxFds - 2] /\ opening' \in 0 .. MaxFds - 2
<1>1. opening # 0 /\ opening' = 0 /\ nodes' = nodes /\ opening \in DOMAIN live /\ 0 \in 0 .. MaxFds - 2
  BY VfsAssumption DEF OpenRefused, OpenFull, Opened, FilesInv, NoFileLeaked
<1>2. CASE OpenRefused(access) \/ OpenFull(access)
  <2>1. fds' = fds /\ OpenFds' = OpenFds /\ live' = Without(opening)
    BY <1>2 DEF OpenRefused, OpenFull, OpenFds
  <2>2. DOMAIN live' = DOMAIN live \ {opening} /\ \A x \in DOMAIN live' : live'[x] = live[x]
    BY <2>1 DEF Without
  <2>3. {fds'[i] : i \in OpenFds'} = {fds[i] : i \in OpenFds} /\ opening \notin {fds[i] : i \in OpenFds}
    BY <2>1 DEF FilesInv, NoFileLeaked
  <2>4. DOMAIN live' = {fds[i] : i \in OpenFds}
    BY <1>1, <2>2, <2>3 DEF FilesInv, NoFileLeaked
  <2>5. \A b \in DOMAIN live' : live'[b] \in DOMAIN nodes'
    BY <1>1, <2>2 DEF FilesInv, NoFileLeaked
  <2>6. /\ \A i, j \in OpenFds' : fds'[i] = fds'[j] => i = j
        /\ \A i \in OpenFds' : fds'[i] # opening'
    BY <1>1, <2>1 DEF FilesInv, NoFileLeaked, OpenFds
  <2> QED BY <1>1, <2>1, <2>3, <2>4, <2>5, <2>6 DEF FilesInv, NoFileLeaked
<1>3. CASE \E fd \in FdRange : Opened(fd, access)
  <2>1. PICK fd \in FdRange : Opened(fd, access)
    BY <1>3
  <2>2. fd \in FdRange /\ fds[fd] = 0 /\ fds' = [fds EXCEPT ![fd] = opening] /\ live' = live
    BY <2>1 DEF Opened, LowestFd, FreeFds
  <2>3. OpenFds' = OpenFds \cup {fd} /\ fd \notin OpenFds
    BY <1>1, <2>2 DEF FilesInv, OpenFds
  <2>4. fds'[fd] = opening /\ \A i \in OpenFds : fds'[i] = fds[i]
    BY <2>2, <2>3 DEF FilesInv, OpenFds
  <2>5. {fds'[i] : i \in OpenFds'} = {fds[i] : i \in OpenFds} \cup {opening}
    BY <2>3, <2>4
  <2>6. opening \in 0 .. MaxFds - 2
    BY DEF FilesInv
  <2>7. DOMAIN live' = {fds'[i] : i \in OpenFds'}
    BY <1>1, <2>2, <2>5 DEF FilesInv, NoFileLeaked
  <2>8. \A b \in DOMAIN live' : live'[b] \in DOMAIN nodes'
    BY <1>1, <2>2 DEF FilesInv, NoFileLeaked
  <2>9. /\ \A i, j \in OpenFds' : fds'[i] = fds'[j] => i = j
        /\ \A i \in OpenFds' : fds'[i] # opening'
    <3>1. /\ \A i, j \in OpenFds : fds[i] = fds[j] => i = j
          /\ \A i \in OpenFds : fds[i] # opening /\ fds[i] # 0
      BY DEF FilesInv, NoFileLeaked, OpenFds
    <3> QED BY <1>1, <2>3, <2>4, <3>1
  <2>10. fds' \in [FdRange -> 0 .. MaxFds - 2]
    BY <2>2, <2>6 DEF FilesInv
  <2> QED BY <1>1, <2>7, <2>8, <2>9, <2>10 DEF NoFileLeaked
<1> QED BY <1>2, <1>3

LEMMA CloseFiles ==
  ASSUME FilesInv, NEW fd \in FdRange, fs_close(fd)
  PROVE  NoFileLeaked' /\ fds' \in [FdRange -> 0 .. MaxFds - 2] /\ opening' \in 0 .. MaxFds - 2
<1>1. /\ fd \in OpenFds /\ fds' = [fds EXCEPT ![fd] = 0] /\ live' = Without(fds[fd]) /\ opening' = 0 /\ opening = 0
      /\ nodes' = nodes /\ 0 \in 0 .. MaxFds - 2
  BY VfsAssumption DEF fs_close, OpenFds, Idle
<1>2. OpenFds' = OpenFds \ {fd} /\ \A i \in OpenFds' : fds'[i] = fds[i] /\ fds[i] # fds[fd]
  BY <1>1 DEF FilesInv, OpenFds, NoFileLeaked
<1>3. DOMAIN live' = DOMAIN live \ {fds[fd]} /\ \A x \in DOMAIN live' : live'[x] = live[x]
  BY <1>1 DEF Without
<1>4. DOMAIN live = {fds[i] : i \in OpenFds}
  BY <1>1 DEF FilesInv, NoFileLeaked
<1>5. DOMAIN live' = {fds'[i] : i \in OpenFds'}
  BY <1>1, <1>2, <1>3, <1>4
<1>6. fds' \in [FdRange -> 0 .. MaxFds - 2]
  BY <1>1, VfsAssumption DEF FilesInv
<1> QED BY <1>1, <1>2, <1>3, <1>5, <1>6 DEF FilesInv, NoFileLeaked

LEMMA FilesStep == FilesInv /\ [Next]_vars => FilesInv'
<1> SUFFICES ASSUME FilesInv, [Next]_vars PROVE FilesInv'
  OBVIOUS
<1>1. TreeInv' /\ DOMAIN nodes \subseteq DOMAIN nodes'
  BY TreeStep, NodesStay DEF FilesInv
<1>2. CASE UNCHANGED <<fds, live, opening>>
  BY <1>1, <1>2 DEF FilesInv, NoFileLeaked, OpenFds
<1>3. ASSUME NEW path \in Paths, NEW creat \in BOOLEAN, NEW heapNode \in BOOLEAN, NEW heapFile \in BOOLEAN,
             fs_open(path, creat, heapNode, heapFile)
      PROVE  FilesInv'
  <2>1. fds' = fds
    BY <1>3 DEF fs_open
  <2> QED BY <1>1, <1>3, <2>1, OpenStarts DEF FilesInv
<1>4. ASSUME NEW access \in BOOLEAN, OpenRefused(access) \/ OpenFull(access) \/ \E fd \in FdRange : Opened(fd, access)
      PROVE  FilesInv'
  BY <1>1, <1>4, OpenEnds DEF FilesInv
<1>5. ASSUME NEW fd \in FdRange, fs_close(fd) PROVE FilesInv'
  BY <1>1, <1>5, CloseFiles DEF FilesInv
<1> QED BY <1>2, <1>3, <1>4, <1>5 DEF Next, vars, fs_mkdir, fs_mount, devfs_register_device

(* fs_open and fs_close: for descriptor tables of every size and any paths, *)
(* mounts and failing steps, the files on the heap are those that the table *)
(* refers to and the one a call works on.                                   *)
THEOREM FilesCorrect == Spec => []NoFileLeaked
<1>1. FilesInv => NoFileLeaked
  BY DEF FilesInv
<1> QED BY <1>1, FilesInit, FilesStep, PTL DEF Spec

-----------------------------------------------------------------------------
(* Loadable modules *)

LEMMA RemoveAtSeq ==
  ASSUME NEW S, NEW s \in Seq(S), NEW i \in DOMAIN s
  PROVE  /\ RemoveAt(s, i) \in Seq(S) /\ Len(RemoveAt(s, i)) = Len(s) - 1 /\ Len(s) - 1 \in Nat
         /\ \A j \in 1..Len(s) - 1 : RemoveAt(s, i)[j] = IF j < i THEN s[j] ELSE s[j + 1]
<1>1. Len(s) \in Nat /\ i \in 1..Len(s) /\ DOMAIN s = 1..Len(s)
  OBVIOUS
<1> DEFINE a == SubSeq(s, 1, i - 1)
           b == SubSeq(s, i + 1, Len(s))
<1>2. a \in Seq(S) /\ Len(a) = i - 1 /\ \A j \in 1..i - 1 : a[j] = s[j]
  BY <1>1
<1>3. b \in Seq(S) /\ Len(b) = Len(s) - i /\ \A j \in 1..Len(s) - i : b[j] = s[i + j]
  BY <1>1
<1>4. RemoveAt(s, i) = a \o b
  BY DEF RemoveAt
<1> HIDE DEF a, b
<1>5. a \o b \in Seq(S) /\ Len(a \o b) = Len(s) - 1
  <2>1. a \o b \in Seq(S) /\ Len(a \o b) = Len(a) + Len(b)
    <3>1. a \in Seq(S) /\ b \in Seq(S)
      BY <1>2, <1>3
    <3> QED BY <3>1
  <2>2. Len(a) + Len(b) = Len(s) - 1
    BY <1>1, <1>2, <1>3
  <2> QED BY <2>1, <2>2
<1>6. \A j \in 1..Len(s) - 1 : (a \o b)[j] = IF j < i THEN s[j] ELSE s[j + 1]
  <2> SUFFICES ASSUME NEW j \in 1..Len(s) - 1 PROVE (a \o b)[j] = IF j < i THEN s[j] ELSE s[j + 1]
    OBVIOUS
  <2>1. CASE j < i
    BY <1>1, <1>2, <1>3, <2>1
  <2>2. CASE ~(j < i)
    <3>1. (a \o b)[j] = b[j - (i - 1)] /\ j - (i - 1) \in 1..Len(s) - i
      BY <1>1, <1>2, <1>3, <2>2, SMTT(40)
    <3>2. i + (j - (i - 1)) = j + 1
      BY <1>1
    <3> QED BY <1>3, <2>2, <3>1, <3>2
  <2> QED BY <2>1, <2>2
<1>7. Len(s) - 1 \in Nat
  BY <1>1
<1> QED BY <1>4, <1>5, <1>6, <1>7, Zenon

(* Without entry i: the others, in order, each from its own place. *)
LEMMA RemoveAtPlaces ==
  ASSUME NEW S, NEW s \in Seq(S), NEW i \in DOMAIN s
  PROVE  /\ \A j \in DOMAIN RemoveAt(s, i) : \E k \in DOMAIN s \ {i} :
               RemoveAt(s, i)[j] = s[k] /\ k = IF j < i THEN j ELSE j + 1
         /\ \A k \in DOMAIN s \ {i} : \E j \in DOMAIN RemoveAt(s, i) : RemoveAt(s, i)[j] = s[k]
<1> DEFINE r == RemoveAt(s, i)
<1>1. Len(s) \in Nat /\ i \in 1..Len(s) /\ DOMAIN s = 1..Len(s)
  OBVIOUS
<1>2. /\ r \in Seq(S) /\ Len(r) = Len(s) - 1 /\ Len(s) - 1 \in Nat
      /\ \A j \in 1..Len(s) - 1 : r[j] = IF j < i THEN s[j] ELSE s[j + 1]
  BY RemoveAtSeq
<1> HIDE DEF r
<1>3. DOMAIN r = 1..Len(s) - 1
  BY <1>2
<1>4. ASSUME NEW j \in DOMAIN r PROVE \E k \in DOMAIN s \ {i} : r[j] = s[k] /\ k = IF j < i THEN j ELSE j + 1
  <2>1. CASE j < i
    BY <1>1, <1>2, <1>3, <2>1
  <2>2. CASE ~(j < i)
    <3>1. j + 1 \in DOMAIN s \ {i} /\ r[j] = s[j + 1]
      BY <1>1, <1>2, <1>3, <2>2
    <3> QED BY <2>2, <3>1
  <2> QED BY <2>1, <2>2
<1>5. ASSUME NEW k \in DOMAIN s \ {i} PROVE \E j \in DOMAIN r : r[j] = s[k]
  <2>1. CASE k < i
    <3>1. k \in DOMAIN r /\ r[k] = s[k]
      BY <1>1, <1>2, <1>3, <2>1
    <3> QED BY <3>1
  <2>2. CASE ~(k < i)
    <3>1. k - 1 \in DOMAIN r /\ ~(k - 1 < i) /\ (k - 1) + 1 = k
      BY <1>1, <1>3, <2>2
    <3>2. r[k - 1] = s[k]
      BY <1>2, <1>3, <3>1
    <3> QED BY <3>1, <3>2
  <2> QED BY <2>1, <2>2
<1> QED BY <1>4, <1>5 DEF r

-----------------------------------------------------------------------------
(* The parts of ModInv *)

TableInv ==
  /\ loaded_lkms \in Seq(LkmEntry) /\ Len(loaded_lkms) <= MAX_LKMS
  /\ {loaded_lkms[i].block : i \in DOMAIN loaded_lkms} \ {0} = blocks
  /\ \A i, j \in DOMAIN loaded_lkms :
        loaded_lkms[i].block = loaded_lkms[j].block /\ loaded_lkms[i].block # 0 => i = j

HandlersInv ==
  /\ registered_handlers \in Seq(Range(BuiltIns)) /\ Range(registered_handlers) = running
  /\ \A i, j \in DOMAIN registered_handlers : registered_handlers[i] = registered_handlers[j] => i = j

LoadsInv ==
  /\ booted \in Nat /\ loads \in Nat /\ blocks \subseteq 1..loads /\ LoadInv
  /\ lost = {} /\ (load.at = "none" => load.held = {})

LEMMA ModInvParts == ModInv <=> TableInv /\ HandlersInv /\ LoadsInv
BY DEF ModInv, ModulesSound, TableInv, HandlersInv, LoadsInv

LEMMA ModInitInv == ModInit => ModInv
<1> SUFFICES ASSUME ModInit PROVE TableInv /\ HandlersInv /\ LoadsInv
  BY ModInvParts
<1>1. Len(<<>>) = 0 /\ DOMAIN <<>> = {} /\ <<>> \in Seq(LkmEntry) /\ <<>> \in Seq(Range(BuiltIns))
  OBVIOUS
<1>2. TableInv
  BY <1>1, ModulesAssumption DEF ModInit, TableInv
<1>3. HandlersInv
  BY <1>1 DEF ModInit, HandlersInv, Range
<1>4. load.at = "none" /\ load.held = {} /\ load = [at |-> load.at, held |-> load.held]
  BY DEF ModInit, NotLoading
<1>5. LoadInv
  BY <1>4 DEF LoadInv, HeldAt
<1> QED BY <1>2, <1>3, <1>4, <1>5 DEF ModInit, LoadsInv

-----------------------------------------------------------------------------
(* The table of modules *)

LEMMA AppendEntry ==
  ASSUME TableInv, NEW e \in LkmEntry, e.block \notin blocks, Len(loaded_lkms) < MAX_LKMS,
         loaded_lkms' = Append(loaded_lkms, e), blocks' = blocks \cup ({e.block} \ {0})
  PROVE  TableInv'
<1> DEFINE n == Len(loaded_lkms)
<1>1. /\ loaded_lkms \in Seq(LkmEntry) /\ n \in Nat /\ MAX_LKMS \in Nat /\ n < MAX_LKMS /\ DOMAIN loaded_lkms = 1..n
      /\ {loaded_lkms[i].block : i \in DOMAIN loaded_lkms} \ {0} = blocks
  BY ModulesAssumption DEF TableInv
<1>2. /\ loaded_lkms' \in Seq(LkmEntry) /\ Len(loaded_lkms') = n + 1 /\ loaded_lkms'[n + 1] = e
      /\ DOMAIN loaded_lkms' = 1..n + 1 /\ \A i \in 1..n : loaded_lkms'[i] = loaded_lkms[i]
  BY <1>1
<1>3. Len(loaded_lkms') <= MAX_LKMS
  BY <1>1, <1>2
<1>4. (\A i \in 1..n + 1 : i \in 1..n \/ i = n + 1) /\ (\A i \in 1..n : i \in 1..n + 1) /\ n + 1 \in 1..n + 1
  BY <1>1
<1>5. {loaded_lkms'[i].block : i \in DOMAIN loaded_lkms'} = {loaded_lkms[i].block : i \in DOMAIN loaded_lkms} \cup {e.block}
  BY <1>1, <1>2, <1>4
<1>6. \A i \in 1..n : loaded_lkms[i].block # 0 => loaded_lkms[i].block # e.block
  BY <1>1
<1>7. \A i, j \in DOMAIN loaded_lkms' :
        loaded_lkms'[i].block = loaded_lkms'[j].block /\ loaded_lkms'[i].block # 0 => i = j
  <2> SUFFICES ASSUME NEW i \in DOMAIN loaded_lkms', NEW j \in DOMAIN loaded_lkms',
                      loaded_lkms'[i].block = loaded_lkms'[j].block, loaded_lkms'[i].block # 0
               PROVE  i = j
    OBVIOUS
  <2>1. CASE i \in 1..n /\ j \in 1..n
    BY <1>1, <1>2, <2>1 DEF TableInv
  <2>2. CASE i = n + 1 \/ j = n + 1
    BY <1>2, <1>4, <1>6, <2>2
  <2> QED BY <1>2, <1>4, <2>1, <2>2
<1>8. {loaded_lkms'[i].block : i \in DOMAIN loaded_lkms'} \ {0} = blocks'
  BY <1>1, <1>5
<1> QED BY <1>2, <1>3, <1>7, <1>8 DEF TableInv

LEMMA RemoveEntry ==
  ASSUME TableInv, NEW i \in DOMAIN loaded_lkms,
         loaded_lkms' = RemoveAt(loaded_lkms, i), blocks' = blocks \ {loaded_lkms[i].block}
  PROVE  TableInv' /\ Len(loaded_lkms') <= Len(loaded_lkms)
<1> DEFINE t == loaded_lkms
<1>1. /\ t \in Seq(LkmEntry) /\ Len(t) \in Nat /\ Len(t) <= MAX_LKMS /\ MAX_LKMS \in Nat /\ DOMAIN t = 1..Len(t)
      /\ {t[k].block : k \in DOMAIN t} \ {0} = blocks
      /\ \A k, j \in DOMAIN t : t[k].block = t[j].block /\ t[k].block # 0 => k = j
  BY ModulesAssumption DEF TableInv
<1>2. t' \in Seq(LkmEntry) /\ Len(t') = Len(t) - 1
  BY <1>1, RemoveAtSeq
<1>3. Len(t') <= MAX_LKMS /\ Len(t') <= Len(t) /\ DOMAIN t' \subseteq Nat
  BY <1>1, <1>2
<1>4. \A j \in DOMAIN t' : \E k \in DOMAIN t \ {i} : t'[j] = t[k] /\ k = IF j < i THEN j ELSE j + 1
  BY <1>1, RemoveAtPlaces
<1>5. \A k \in DOMAIN t \ {i} : \E j \in DOMAIN t' : t'[j] = t[k]
  BY <1>1, RemoveAtPlaces
<1>6. {t'[j].block : j \in DOMAIN t'} = {t[k].block : k \in DOMAIN t \ {i}}
  BY <1>4, <1>5
<1>7. {t[k].block : k \in DOMAIN t \ {i}} \ {0} = blocks \ {t[i].block}
  <2>1. ASSUME NEW k \in DOMAIN t \ {i}, t[k].block # 0 PROVE t[k].block # t[i].block
    BY <1>1, <2>1
  <2> QED BY <1>1, <2>1
<1>8. ASSUME NEW j \in DOMAIN t', NEW m \in DOMAIN t', t'[j].block = t'[m].block, t'[j].block # 0 PROVE j = m
  <2>1. PICK a \in DOMAIN t \ {i} : t'[j] = t[a] /\ a = IF j < i THEN j ELSE j + 1
    BY <1>4
  <2>2. PICK b \in DOMAIN t \ {i} : t'[m] = t[b] /\ b = IF m < i THEN m ELSE m + 1
    BY <1>4
  <2>3. a = b
    BY <1>1, <1>8, <2>1, <2>2
  <2>4. j \in Nat /\ m \in Nat /\ i \in Nat /\ a # i /\ b # i
    BY <1>1, <1>3
  <2> QED BY <2>1, <2>2, <2>3, <2>4
<1> QED BY <1>2, <1>3, <1>6, <1>7, <1>8 DEF TableInv

-----------------------------------------------------------------------------
(* Components *)

LEMMA EnrollHandlers ==
  ASSUME HandlersInv, NEW h \in Range(BuiltIns), enroll_component(h)
  PROVE  HandlersInv'
<1> DEFINE n == Len(registered_handlers)
<1>1. CASE UNCHANGED <<registered_handlers, running>>
  BY <1>1 DEF HandlersInv, Range
<1>2. CASE /\ h \notin Range(registered_handlers) /\ registered_handlers' = Append(registered_handlers, h)
           /\ running' = running \cup {h}
  <2>1. registered_handlers \in Seq(Range(BuiltIns)) /\ n \in Nat /\ DOMAIN registered_handlers = 1..n
    BY DEF HandlersInv
  <2>2. /\ registered_handlers' \in Seq(Range(BuiltIns)) /\ DOMAIN registered_handlers' = 1..n + 1
        /\ registered_handlers'[n + 1] = h /\ \A i \in 1..n : registered_handlers'[i] = registered_handlers[i]
    BY <1>2, <2>1, AppendSeq
  <2>3. (\A i \in 1..n + 1 : i \in 1..n \/ i = n + 1) /\ (\A i \in 1..n : i \in 1..n + 1) /\ n + 1 \in 1..n + 1
    BY <2>1
  <2>4. \A i \in 1..n : registered_handlers[i] # h
    BY <1>2, <2>1 DEF Range
  <2>5. Range(registered_handlers') = Range(registered_handlers) \cup {h}
    BY <2>1, <2>2, <2>3 DEF Range
  <2>6. \A i, j \in DOMAIN registered_handlers' : registered_handlers'[i] = registered_handlers'[j] => i = j
    BY <2>1, <2>2, <2>3, <2>4 DEF HandlersInv
  <2> QED BY <1>2, <2>2, <2>5, <2>6 DEF HandlersInv
<1> QED BY <1>1, <1>2 DEF enroll_component

LEMMA RemoveHandlers ==
  ASSUME HandlersInv, NEW h, remove_component(h)
  PROVE  HandlersInv'
<1> DEFINE t == registered_handlers
<1>1. PICK i \in DOMAIN t : t[i] = h /\ t' = RemoveAt(t, i) /\ running' = running \ {h}
  BY DEF remove_component
<1>2. /\ t \in Seq(Range(BuiltIns)) /\ DOMAIN t = 1..Len(t) /\ Len(t) \in Nat /\ running = {t[k] : k \in DOMAIN t}
      /\ \A k, j \in DOMAIN t : t[k] = t[j] => k = j
  BY DEF HandlersInv, Range
<1>3. t' \in Seq(Range(BuiltIns)) /\ DOMAIN t' \subseteq Nat
  BY <1>1, <1>2, RemoveAtSeq
<1>4. \A j \in DOMAIN t' : \E k \in DOMAIN t \ {i} : t'[j] = t[k] /\ k = IF j < i THEN j ELSE j + 1
  BY <1>1, <1>2, RemoveAtPlaces
<1>5. \A k \in DOMAIN t \ {i} : \E j \in DOMAIN t' : t'[j] = t[k]
  BY <1>1, <1>2, RemoveAtPlaces
<1>6. {t'[j] : j \in DOMAIN t'} = running \ {h}
  <2>1. {t'[j] : j \in DOMAIN t'} = {t[k] : k \in DOMAIN t \ {i}}
    BY <1>4, <1>5
  <2> QED BY <1>1, <1>2, <2>1
<1>7. ASSUME NEW j \in DOMAIN t', NEW m \in DOMAIN t', t'[j] = t'[m] PROVE j = m
  <2>1. PICK a \in DOMAIN t \ {i} : t'[j] = t[a] /\ a = IF j < i THEN j ELSE j + 1
    BY <1>4
  <2>2. PICK b \in DOMAIN t \ {i} : t'[m] = t[b] /\ b = IF m < i THEN m ELSE m + 1
    BY <1>4
  <2>3. a = b
    BY <1>2, <1>7, <2>1, <2>2
  <2>4. j \in Nat /\ m \in Nat /\ i \in Nat /\ a # i /\ b # i
    BY <1>2, <1>3
  <2> QED BY <2>1, <2>2, <2>3, <2>4
<1> QED BY <1>1, <1>3, <1>6, <1>7 DEF HandlersInv, Range

-----------------------------------------------------------------------------
(* A load in progress *)

LoadPlaces == UNCHANGED <<booted, loaded_lkms, loads, blocks>>

LEMMA LoadMoves ==
  ASSUME LoadsInv, load.at # "none", LoadPlaces, load' = [at |-> load'.at, held |-> HeldAt(load'.at)], lost' = lost,
         load'.at \in {"none", "open", "header", "headers", "strtab", "base", "syms", "symstr", "relocate", "return", "init"}
  PROVE  LoadsInv'
<1>1. HeldAt("none") = {}
  BY DEF HeldAt
<1>2. load'.held = HeldAt(load'.at)
  OBVIOUS
<1>3. LoadInv'
  <2>1. booted' >= Len(BuiltIns) /\ Len(loaded_lkms') < MAX_LKMS /\ loads' \notin blocks' /\ loads' # 0
    BY DEF LoadsInv, LoadInv, LoadPlaces
  <2>2. HeldAt(load.at)' = HeldAt(load'.at)
    BY DEF HeldAt
  <2> QED BY <1>2, <2>1, <2>2 DEF LoadInv
<1> QED BY <1>1, <1>2, <1>3 DEF LoadsInv, LoadPlaces

LEMMA LoadSteps ==
  ASSUME LoadsInv, elf_load_module \/ elf_resolve_symbols \/ NoSymbols \/ ElfReturns \/ LoadFails
  PROVE  LoadsInv'
<1>1. load = [at |-> load.at, held |-> load.held] /\ load.held = HeldAt(load.at) /\ lost = {}
  BY DEF LoadsInv, LoadInv
<1>2. LoadPlaces
  BY DEF LoadPlaces, elf_load_module, elf_resolve_symbols, NoSymbols, ElfReturns, LoadFails
<1>3. CASE elf_load_module
  <2>1. load.at \in {"open", "header", "headers", "strtab", "base"} /\ lost' = lost
        /\ load' = [at |-> After(load.at), held |-> load.held \cup Takes(load.at)]
    BY <1>3 DEF elf_load_module
  <2>2. /\ After(load.at) \in {"header", "headers", "strtab", "base", "syms"}
        /\ HeldAt(load.at) \cup Takes(load.at) = HeldAt(After(load.at))
    BY <2>1 DEF After, HeldAt, Takes
  <2>3. load'.at = After(load.at) /\ load' = [at |-> load'.at, held |-> HeldAt(load'.at)]
    BY <1>1, <2>1, <2>2
  <2> QED BY <1>2, <2>1, <2>2, <2>3, LoadMoves
<1>4. CASE elf_resolve_symbols
  <2>1. /\ load.at \in {"syms", "symstr", "relocate"} /\ lost' = lost
        /\ load' = [at |-> After(load.at), held |-> IF load.at = "relocate" THEN load.held \ {"syms", "symstr"}
                                                    ELSE load.held \cup Takes(load.at)]
    BY <1>4 DEF elf_resolve_symbols
  <2>2. After(load.at) \in {"symstr", "relocate", "return"}
    BY <2>1 DEF After
  <2>3. (IF load.at = "relocate" THEN load.held \ {"syms", "symstr"} ELSE load.held \cup Takes(load.at)) = HeldAt(After(load.at))
    <3>1. CASE load.at = "relocate"
      BY <1>1, <3>1 DEF After, HeldAt
    <3>2. CASE load.at \in {"syms", "symstr"}
      BY <1>1, <3>2 DEF After, HeldAt, Takes
    <3> QED BY <2>1, <3>1, <3>2
  <2>4. load'.at = After(load.at) /\ load' = [at |-> load'.at, held |-> HeldAt(load'.at)]
    BY <2>1, <2>3
  <2> QED BY <1>2, <2>1, <2>2, <2>4, LoadMoves
<1>5. CASE NoSymbols
  <2>1. load.at = "syms" /\ load' = [load EXCEPT !.at = "return"] /\ lost' = lost
    BY <1>5 DEF NoSymbols
  <2>2. HeldAt("syms") = HeldAt("return")
    BY DEF HeldAt
  <2>3. load' = [at |-> "return", held |-> HeldAt("return")]
    BY <1>1, <2>1, <2>2
  <2>4. load'.at = "return" /\ load' = [at |-> load'.at, held |-> HeldAt(load'.at)]
    BY <2>3
  <2> QED BY <1>2, <2>1, <2>4, LoadMoves
<1>6. CASE ElfReturns
  <2>1. load.at = "return" /\ load' = [at |-> "init", held |-> load.held \ {"strtab", "shdrs", "fd"}] /\ lost' = lost
    BY <1>6 DEF ElfReturns
  <2>2. HeldAt("return") \ {"strtab", "shdrs", "fd"} = HeldAt("init")
    BY DEF HeldAt
  <2>3. load'.at = "init" /\ load' = [at |-> load'.at, held |-> HeldAt(load'.at)]
    BY <1>1, <2>1, <2>2
  <2> QED BY <1>2, <2>1, <2>3, LoadMoves
<1>7. CASE LoadFails
  <2>1. /\ load.at \in {"open", "header", "headers", "strtab", "base", "syms", "symstr", "relocate", "init"}
        /\ load' = NotLoading /\ lost' = lost \cup (load.held \ GivesBack(load.at))
    BY <1>7 DEF LoadFails, LoadsInv, LoadInv
  <2>2. HeldAt(load.at) \ GivesBack(load.at) = {}
    BY <2>1 DEF HeldAt, GivesBack
  <2>3. lost' = lost
    BY <1>1, <2>1, <2>2
  <2>4. HeldAt("none") = {}
    BY DEF HeldAt
  <2>5. load'.at = "none" /\ load' = [at |-> load'.at, held |-> HeldAt(load'.at)]
    BY <2>1, <2>4 DEF NotLoading
  <2> QED BY <1>2, <2>1, <2>3, <2>5, LoadMoves
<1> QED BY <1>3, <1>4, <1>5, <1>6, <1>7

LEMMA InsmodInv ==
  ASSUME TableInv, LoadsInv, cmd_insmod
  PROVE  LoadsInv'
<1>1. /\ loads' = loads + 1 /\ booted >= Len(BuiltIns) /\ UNCHANGED <<booted, loaded_lkms, blocks, lost>>
      /\ loads \in Nat /\ booted \in Nat /\ blocks \subseteq 1..loads /\ lost = {}
  BY DEF cmd_insmod, LoadsInv
<1>2. loads' \in Nat /\ loads' # 0 /\ blocks \subseteq 1..loads' /\ loads' \notin blocks
  BY <1>1
<1>3. HeldAt("none") = {} /\ HeldAt("open") = {}
  BY DEF HeldAt
<1>4. CASE Len(loaded_lkms) >= MAX_LKMS
  <2>1. load'.at = "none" /\ load'.held = {} /\ load' = [at |-> load'.at, held |-> load'.held]
    BY <1>4 DEF cmd_insmod, NotLoading
  <2> QED BY <1>1, <1>2, <1>3, <2>1 DEF LoadsInv, LoadInv
<1>5. CASE ~(Len(loaded_lkms) >= MAX_LKMS)
  <2>1. load' = [at |-> "open", held |-> {}]
    BY <1>5 DEF cmd_insmod
  <2>2. load'.at = "open" /\ load'.held = {} /\ load' = [at |-> load'.at, held |-> load'.held]
    BY <2>1
  <2>3. Len(loaded_lkms) < MAX_LKMS
    BY <1>5, ModulesAssumption DEF TableInv
  <2> QED BY <1>1, <1>2, <1>3, <2>2, <2>3 DEF LoadsInv, LoadInv
<1> QED BY <1>4, <1>5

LEMMA LoadedInv ==
  ASSUME TableInv, LoadsInv, lkm_load
  PROVE  TableInv' /\ LoadsInv'
<1>1. /\ load.at = "init" /\ load' = NotLoading /\ blocks' = blocks \cup {loads} /\ UNCHANGED <<booted, loads>>
      /\ loaded_lkms' = Append(loaded_lkms, [name |-> "unknown", block |-> loads])
      /\ lost' = lost \cup (load.held \ {"base"})
  BY DEF lkm_load
<1>2. /\ loads \in Nat /\ loads # 0 /\ loads \notin blocks /\ Len(loaded_lkms) < MAX_LKMS
      /\ load.held = HeldAt("init") /\ booted \in Nat /\ blocks \subseteq 1..loads /\ lost = {}
  BY <1>1 DEF LoadsInv, LoadInv
<1>3. HeldAt("init") = {"base"} /\ HeldAt("none") = {}
  BY DEF HeldAt
<1>4. TableInv'
  <2> DEFINE e == [name |-> "unknown", block |-> loads]
  <2>1. e \in LkmEntry /\ e.block = loads
    BY <1>2 DEF LkmEntry
  <2>2. loaded_lkms' = Append(loaded_lkms, e)
    BY <1>1
  <2> HIDE DEF e
  <2>3. e.block \notin blocks /\ blocks' = blocks \cup ({e.block} \ {0})
    BY <1>1, <1>2, <2>1
  <2> QED BY <1>2, <2>1, <2>2, <2>3, AppendEntry
<1>5. lost' = {} /\ blocks' \subseteq 1..loads
  BY <1>1, <1>2, <1>3
<1>6. load'.at = "none" /\ load'.held = {} /\ load' = [at |-> load'.at, held |-> load'.held]
  BY <1>1 DEF NotLoading
<1>7. LoadsInv'
  BY <1>1, <1>2, <1>3, <1>5, <1>6 DEF LoadsInv, LoadInv
<1> QED BY <1>4, <1>7

(* With no load in progress the table may change. *)
LEMMA NoLoad ==
  ASSUME LoadsInv, load.at = "none", UNCHANGED <<load, loads, lost>>, booted' \in Nat, blocks' \subseteq blocks
  PROVE  LoadsInv'
<1>1. LoadInv'
  BY DEF LoadsInv, LoadInv, HeldAt
<1> QED BY <1>1 DEF LoadsInv

LEMMA ModStep == ModInv /\ [ModNext]_modVars => ModInv'
<1> SUFFICES ASSUME TableInv, HandlersInv, LoadsInv, [ModNext]_modVars PROVE TableInv' /\ HandlersInv' /\ LoadsInv'
  <2>1. ModInv' <=> TableInv' /\ HandlersInv' /\ LoadsInv'
    BY DEF ModInv, ModulesSound, TableInv, HandlersInv, LoadsInv
  <2> QED BY <2>1, ModInvParts
<1>1. UNCHANGED <<loaded_lkms, blocks>> => TableInv'
  BY DEF TableInv
<1>2. UNCHANGED <<registered_handlers, running>> => HandlersInv'
  BY DEF HandlersInv, Range
<1>3. BuiltIns \in Seq(STRING)
  BY ModulesAssumption
<1>4. load = NotLoading => load.at = "none"
  BY DEF NotLoading
<1>5. booted \in Nat /\ booted' \in Nat
  BY DEF LoadsInv, ModNext, modVars, lkm_register_builtin, Enroll, remove_component, cmd_insmod, LoadFails, elf_load_module,
         elf_resolve_symbols, NoSymbols, ElfReturns, lkm_load, lkm_unload
<1>6. CASE UNCHANGED modVars
  BY <1>1, <1>2, <1>6 DEF modVars, LoadsInv, LoadInv, HeldAt
<1>7. CASE lkm_register_builtin
  <2>1. /\ booted < Len(BuiltIns) /\ booted' = booted + 1
        /\ UNCHANGED <<registered_handlers, load, loads, blocks, lost, running>>
        /\ loaded_lkms' = IF Len(loaded_lkms) >= MAX_LKMS THEN loaded_lkms
                          ELSE Append(loaded_lkms, [name |-> BuiltIns[booted'], block |-> 0])
    BY <1>7 DEF lkm_register_builtin
  <2>2. load.at = "none"
    BY <1>3, <1>5, <2>1 DEF LoadsInv, LoadInv
  <2>3. TableInv'
    <3>1. CASE Len(loaded_lkms) >= MAX_LKMS
      BY <1>1, <2>1, <3>1
    <3>2. CASE ~(Len(loaded_lkms) >= MAX_LKMS)
      <4> DEFINE e == [name |-> BuiltIns[booted'], block |-> 0]
      <4>1. BuiltIns[booted'] \in Range(BuiltIns)
        BY <1>3, <1>5, <2>1 DEF Range
      <4>2. e \in LkmEntry /\ e.block = 0 /\ loaded_lkms' = Append(loaded_lkms, e)
        BY <2>1, <3>2, <4>1 DEF LkmEntry
      <4> HIDE DEF e
      <4>3. Len(loaded_lkms) < MAX_LKMS /\ 0 \notin blocks
        BY <3>2, ModulesAssumption DEF TableInv
      <4>4. e.block \notin blocks /\ blocks' = blocks \cup ({e.block} \ {0})
        BY <2>1, <4>2, <4>3
      <4> QED BY <4>2, <4>3, <4>4, AppendEntry
    <3> QED BY <3>1, <3>2
  <2> QED BY <1>2, <1>5, <2>1, <2>2, <2>3, NoLoad
<1>8. CASE Enroll
  <2>1. PICK h \in Range(BuiltIns) : enroll_component(h)
    BY <1>8 DEF Enroll
  <2>2. UNCHANGED <<loaded_lkms, blocks, load, loads, lost>> /\ load.at = "none"
    BY <1>4, <1>8 DEF Enroll
  <2> QED BY <1>1, <1>5, <2>1, <2>2, EnrollHandlers, NoLoad
<1>9. ASSUME NEW h, remove_component(h) PROVE TableInv' /\ HandlersInv' /\ LoadsInv'
  <2>1. UNCHANGED <<loaded_lkms, blocks, load, loads, lost>> /\ load.at = "none"
    BY <1>4, <1>9 DEF remove_component
  <2> QED BY <1>1, <1>5, <1>9, <2>1, RemoveHandlers, NoLoad
<1>10. ASSUME NEW name, lkm_unload(name) PROVE TableInv' /\ HandlersInv' /\ LoadsInv'
  <2>1. PICK i \in DOMAIN loaded_lkms : blocks' = blocks \ {loaded_lkms[i].block} /\ loaded_lkms' = RemoveAt(loaded_lkms, i)
    BY <1>10 DEF lkm_unload
  <2>2. UNCHANGED <<registered_handlers, running, load, loads, lost>> /\ load.at = "none"
    BY <1>4, <1>10 DEF lkm_unload
  <2>3. blocks' \subseteq blocks
    BY <2>1
  <2> QED BY <1>2, <1>5, <2>1, <2>2, <2>3, RemoveEntry, NoLoad
<1>11. CASE cmd_insmod
  BY <1>1, <1>2, <1>11, InsmodInv DEF cmd_insmod
<1>12. CASE lkm_load
  BY <1>2, <1>12, LoadedInv DEF lkm_load
<1>13. CASE elf_load_module \/ elf_resolve_symbols \/ NoSymbols \/ ElfReturns \/ LoadFails
  <2>1. UNCHANGED <<loaded_lkms, blocks, registered_handlers, running>>
    BY <1>13 DEF elf_load_module, elf_resolve_symbols, NoSymbols, ElfReturns, LoadFails
  <2> QED BY <1>1, <1>2, <1>13, <2>1, LoadSteps
<1> QED BY <1>6, <1>7, <1>8, <1>9, <1>10, <1>11, <1>12, <1>13 DEF ModNext

(* enroll_component, remove_component, lkm_load, lkm_unload and             *)
(* elf_load_module: for tables of every size and any series of calls and    *)
(* failures, nothing a load took stays behind, and the tables list what     *)
(* runs and what is loaded, once.                                           *)
THEOREM ModulesCorrect == ModSpec => []ModulesSound
<1>1. ModInv => ModulesSound
  BY DEF ModInv
<1> QED BY <1>1, ModInitInv, ModStep, PTL DEF ModSpec

-----------------------------------------------------------------------------
(* USB host controllers *)

LEMMA UsbInitInv == UsbInit => UsbInv
<1> SUFFICES ASSUME UsbInit PROVE UsbInv
  OBVIOUS
<1>1. /\ devices = <<>> /\ completed = <<>> /\ handled = <<>> /\ donehead = <<>> /\ linked = 0 /\ request = 0
      /\ scan.at = 0 /\ scan.list = <<>> /\ scan = [at |-> 0, list |-> <<>>] /\ kind \in {"ehci", "ohci", "uhci"}
  BY UsbHostAssumption DEF UsbInit, idle
<1>2. <<>> \in Seq(Devices) /\ <<>> \in Seq(Nat) /\ Len(<<>>) = 0 /\ DOMAIN <<>> = {}
  OBVIOUS
<1>3. UsbTypeOK
  BY <1>1, <1>2 DEF UsbTypeOK, ListsDevices
<1>4. DoneListInv
  BY <1>1, <1>2 DEF DoneListInv, Distinct
<1>5. CountsAgree
  BY <1>1, <1>2 DEF CountsAgree
<1>6. TransfersBalance /\ HeldInv
  BY DEF UsbInit, TransfersBalance, HeldInv
<1> QED BY <1>3, <1>4, <1>5, <1>6 DEF UsbInv

-----------------------------------------------------------------------------
(* The two halves of the invariant *)

BalanceInv == kind \in {"ehci", "ohci", "uhci"} /\ request \in Nat /\ TransfersBalance /\ HeldInv

(* What the next failing path frees is what this one frees and the block    *)
(* taken in between.                                                        *)
LEMMA NextRow ==
  ASSUME kind \in {"ehci", "ohci", "uhci"}, TakingOK, taking # "end", UNCHANGED <<kind, wlen>>, taking' = Row.next
  PROVE  TakingOK' /\ Holds(Row.frees)' = Holds(Row.frees) \cup {taking}
<1> USE DEF TakingOK, Row, FirstBlock, AfterSetup, Data, Holds
<1>1. CASE kind = "ehci"
  <2> USE DEF ehci_control_transfer
  <2>1. CASE taking = "qh"
    BY <1>1, <2>1
  <2>2. CASE taking = "setup"
    BY <1>1, <2>2
  <2>3. CASE taking = "data"
    BY <1>1, <2>3
  <2>4. CASE taking = "status"
    BY <1>1, <2>4
  <2> QED BY <1>1, <2>1, <2>2, <2>3, <2>4
<1>2. CASE kind = "ohci"
  <2> USE DEF ohci_control_transfer
  <2>1. CASE taking = "ed"
    BY <1>2, <2>1
  <2>2. CASE taking = "setup"
    BY <1>2, <2>2
  <2>3. CASE taking = "packet"
    BY <1>2, <2>3
  <2>4. CASE taking = "data"
    BY <1>2, <2>4
  <2>5. CASE taking = "status"
    BY <1>2, <2>5
  <2> QED BY <1>2, <2>1, <2>2, <2>3, <2>4, <2>5
<1>3. CASE kind = "uhci"
  <2> USE DEF uhci_control_transfer
  <2>1. CASE taking = "setup"
    BY <1>3, <2>1
  <2>2. CASE taking = "packet"
    BY <1>3, <2>2
  <2>3. CASE taking = "data"
    BY <1>3, <2>3
  <2>4. CASE taking = "status"
    BY <1>3, <2>4
  <2> QED BY <1>3, <2>1, <2>2, <2>3, <2>4
<1> QED BY <1>1, <1>2, <1>3

(* Only OHCI frees an address that is not its block's. *)
LEMMA PhysicalOfOhci ==
  ASSUME kind \in {"ehci", "uhci"}, TakingOK
  PROVE  "physical" \notin Row.frees
<1> USE DEF TakingOK, Row, FirstBlock, AfterSetup, Data
<1>1. CASE kind = "ehci"
  <2> USE DEF ehci_control_transfer
  <2>1. CASE taking = "qh" \/ taking = "setup" \/ taking = "data"
    BY <1>1, <2>1
  <2>2. CASE taking = "status" \/ taking = "end"
    BY <1>1, <2>2
  <2> QED BY <1>1, <2>1, <2>2
<1>2. CASE kind = "uhci"
  <2> USE DEF uhci_control_transfer
  <2>1. CASE taking = "setup" \/ taking = "packet" \/ taking = "data"
    BY <1>2, <2>1
  <2>2. CASE taking = "status" \/ taking = "end"
    BY <1>2, <2>2
  <2> QED BY <1>2, <2>1, <2>2
<1> QED BY <1>1, <1>2

(* Nothing is taken yet when a transfer begins. *)
LEMMA FirstRow ==
  ASSUME kind \in {"ehci", "ohci", "uhci"}, kind' = kind, NEW r \in Nat, StartRequest(r)
  PROVE  TakingOK' /\ Holds(Row.frees)' = {}
<1>1. wlen' \in BOOLEAN /\ taking' = FirstBlock
  BY DEF StartRequest, Lengths
<1>2. TakingOK'
  <2>1. FirstBlock # "data" /\ FirstBlock' = FirstBlock
    BY DEF FirstBlock
  <2> QED BY <1>1, <2>1 DEF TakingOK
<1>3. Row'.frees = {}
  <2>1. CASE kind = "ehci"
    BY <1>1, <2>1 DEF Row, FirstBlock, ehci_control_transfer
  <2>2. CASE kind = "ohci"
    BY <1>1, <2>2 DEF Row, FirstBlock, ohci_control_transfer
  <2>3. CASE kind = "uhci"
    BY <1>1, <2>3 DEF Row, FirstBlock, uhci_control_transfer
  <2> QED BY <2>1, <2>2, <2>3
<1> QED BY <1>2, <1>3 DEF Holds

(* A transfer frees what it holds wherever it ends, but for OHCI's packet. *)
LEMMA EndRequestBalance == BalanceInv /\ request # 0 /\ EndRequest => BalanceInv'
<1> SUFFICES ASSUME BalanceInv, request # 0, EndRequest PROVE BalanceInv'
  OBVIOUS
<1>1. /\ held' = {} /\ kind' = kind /\ unfreed' = unfreed \cup (held \ Row.frees)
      /\ misfreed' = misfreed \cup (Row.frees \ held)
  BY DEF EndRequest
<1>2. TakingOK /\ held = Holds(Row.frees) /\ TransfersBalance /\ kind \in {"ehci", "ohci", "uhci"} /\ request \in Nat
  BY DEF BalanceInv, HeldInv
<1>3. TransfersBalance'
  <2>1. kind # "ohci" => "physical" \notin Row.frees
    BY <1>2, PhysicalOfOhci
  <2>2. held \ Row.frees \subseteq {"packet"} /\ Row.frees \ held \subseteq {"physical"}
    BY <1>2 DEF Holds
  <2>3. kind # "ohci" => held \ Row.frees = {} /\ Row.frees \ held = {}
    BY <1>2, <2>1 DEF Holds
  <2> QED BY <1>1, <1>2, <2>2, <2>3 DEF TransfersBalance
<1>4. request' \in Nat /\ HeldInv'
  <2>1. CASE request < 6
    <3>1. PICK r \in Nat : StartRequest(r) /\ r # 0
      BY <1>2, <2>1 DEF EndRequest, NextRequest
    <3>2. TakingOK' /\ Holds(Row.frees)' = {}
      BY <1>1, <1>2, <3>1, FirstRow
    <3>3. request' = r
      BY <3>1 DEF StartRequest
    <3> QED BY <1>1, <3>1, <3>2, <3>3 DEF HeldInv
  <2>2. CASE ~(request < 6)
    BY <1>1, <2>2 DEF EndRequest, HeldInv
  <2> QED BY <2>1, <2>2
<1> QED BY <1>1, <1>2, <1>3, <1>4 DEF BalanceInv

LEMMA BalanceStep == BalanceInv /\ [UsbNext]_usbVars => BalanceInv'
<1> SUFFICES ASSUME BalanceInv, [UsbNext]_usbVars PROVE BalanceInv'
  OBVIOUS
<1>1. CASE UNCHANGED <<kind, request, transfer>>
  <2>1. UNCHANGED <<kind, request, wlen, taking, held, unfreed, misfreed>>
    BY <1>1 DEF transfer
  <2>2. Row' = Row /\ FirstBlock' = FirstBlock
    BY <2>1 DEF Row, FirstBlock, ehci_control_transfer, ohci_control_transfer, uhci_control_transfer, AfterSetup, Data
  <2> QED BY <2>1, <2>2 DEF BalanceInv, TransfersBalance, HeldInv, TakingOK
<1>2. CASE FoundDevice
  <2>1. StartRequest(1) /\ kind' = kind /\ request = 0 /\ UNCHANGED <<held, unfreed, misfreed>> /\ request' = 1
    BY <1>2 DEF FoundDevice, StartRequest
  <2>2. TakingOK' /\ Holds(Row.frees)' = {}
    BY <2>1, FirstRow DEF BalanceInv
  <2> QED BY <2>1, <2>2 DEF BalanceInv, HeldInv, TransfersBalance
<1>3. CASE TakeBlock
  <2>1. /\ taking # "end" /\ UNCHANGED <<kind, request, wlen, unfreed, misfreed>> /\ taking' = Row.next
        /\ held' = held \cup {taking}
    BY <1>3 DEF TakeBlock
  <2>2. request # 0 /\ TakingOK /\ held = Holds(Row.frees)
    BY <2>1 DEF BalanceInv, HeldInv
  <2>3. TakingOK' /\ Holds(Row.frees)' = Holds(Row.frees) \cup {taking}
    BY <2>1, <2>2, NextRow DEF BalanceInv
  <2> QED BY <2>1, <2>2, <2>3 DEF BalanceInv, HeldInv, TransfersBalance
<1>4. CASE NoMemory \/ TransferEnds
  <2>1. request # 0 /\ EndRequest
    BY <1>4 DEF NoMemory, TransferEnds, BalanceInv, HeldInv
  <2> QED BY <2>1, EndRequestBalance
<1> QED BY <1>1, <1>2, <1>3, <1>4
        DEF UsbNext, usbVars, HostInit, ehci_init, ohci_init, uhci_init, SkipPort, Complete, ControlDone,
            Poll, Acknowledge, ehci_handle_interrupt, uhci_handle_interrupt, ohci_handle_interrupt, ohci_walk_freed,
            ScanEnds, pollUnchanged

ReportInv == UsbTypeOK /\ CountsAgree /\ (kind = "ohci" => DoneListInv)

-----------------------------------------------------------------------------
(* Reports *)

LEMMA ReportQuiet ==
  ASSUME ReportInv, UNCHANGED <<kind, devices, completed, handled, scan, donehead>>,
         linked' = linked \/ linked' = 0, request' \in Nat
  PROVE  ReportInv'
<1>1. UsbTypeOK'
  BY DEF ReportInv, UsbTypeOK, ListsDevices, Listable
<1>2. CountsAgree' /\ (kind' = "ohci" => DoneListInv')
  BY DEF ReportInv, CountsAgree, DoneListInv, Distinct, idle
<1> QED BY <1>1, <1>2 DEF ReportInv

LEMMA NewDevice ==
  ASSUME NEW type \in {"other", "keyboard", "mouse"}, NEW d \in Endpoint(type), kind \in {"ehci", "ohci", "uhci"}
  PROVE  d \in Devices /\ d.td \in {"none", "active"}
<1>1. d \in ehci_endpoint(type) \/ d \in ohci_endpoint(type) \/ d \in uhci_endpoint(type)
  BY DEF Endpoint
<1>2. \A desc \in BOOLEAN, td \in {"none", "active"}, buf \in BOOLEAN :
        Device(type, desc, td, buf) \in Devices /\ Device(type, desc, td, buf).td \in {"none", "active"}
  BY DEF Device, Devices
<1> QED BY <1>1, <1>2 DEF ehci_endpoint, ohci_endpoint, uhci_endpoint, Bare

(* A device is entered without a report.  The lists go on to name the others. *)
LEMMA AppendDevice ==
  ASSUME ReportInv, NEW d \in Devices, d.td \in {"none", "active"}, request' \in Nat, UNCHANGED <<kind, scan, donehead>>,
         devices' = Append(devices, d), completed' = Append(completed, 0), handled' = Append(handled, 0),
         linked' \in {linked, Len(devices) + 1}
  PROVE  ReportInv'
<1> DEFINE n == Len(devices)
<1>1. /\ devices \in Seq(Devices) /\ n \in Nat /\ completed \in Seq(Nat) /\ handled \in Seq(Nat)
      /\ Len(completed) = n /\ Len(handled) = n
  BY DEF ReportInv, UsbTypeOK
<1>2. /\ devices' \in Seq(Devices) /\ Len(devices') = n + 1 /\ devices'[n + 1] = d
      /\ \A i \in 1..n : devices'[i] = devices[i]
  BY <1>1
<1>3. /\ completed' \in Seq(Nat) /\ Len(completed') = n + 1 /\ completed'[n + 1] = 0
      /\ \A i \in 1..n : completed'[i] = completed[i]
  BY <1>1
<1>4. /\ handled' \in Seq(Nat) /\ Len(handled') = n + 1 /\ handled'[n + 1] = 0
      /\ \A i \in 1..n : handled'[i] = handled[i]
  BY <1>1
<1>5. DOMAIN devices = 1..n /\ DOMAIN devices' = 1..n + 1 /\ DOMAIN devices \subseteq DOMAIN devices' /\ n + 1 \in DOMAIN devices'
  BY <1>1, <1>2
<1>6. UsbTypeOK'
  <2>1. linked' \in Nat /\ (linked' # 0 => linked' \in DOMAIN devices')
    BY <1>1, <1>5 DEF ReportInv, UsbTypeOK
  <2>2. ListsDevices(scan.list)' /\ ListsDevices(donehead)'
    BY <1>5 DEF ReportInv, UsbTypeOK, ListsDevices, Listable
  <2> QED BY <1>2, <1>3, <1>4, <2>1, <2>2 DEF ReportInv, UsbTypeOK
<1>7. CountsAgree'
  <2>1. \A i \in 1..n + 1 : i \in 1..n \/ i = n + 1
    BY <1>1
  <2>2. \A i \in 1..n : completed'[i] = handled'[i] + (IF Unhanded(devices'[i]) THEN 1 ELSE 0)
    BY <1>2, <1>3, <1>4 DEF ReportInv, CountsAgree
  <2>3. completed'[n + 1] = handled'[n + 1] + (IF Unhanded(devices'[n + 1]) THEN 1 ELSE 0)
    BY <1>2, <1>3, <1>4 DEF Unhanded
  <2> QED BY <1>2, <2>1, <2>2, <2>3 DEF CountsAgree
<1>8. kind' = "ohci" => DoneListInv'
  <2> SUFFICES ASSUME kind = "ohci" PROVE DoneListInv'
    OBVIOUS
  <2>1. DoneListInv
    BY DEF ReportInv
  <2>2. \A i \in DOMAIN donehead : donehead[i] # 0 => devices'[donehead[i]] = devices[donehead[i]]
    BY <1>2, <1>5 DEF ReportInv, UsbTypeOK, ListsDevices, Listable
  <2>3. \A i \in DOMAIN scan.list : scan.list[i] # 0 => devices'[scan.list[i]] = devices[scan.list[i]]
    BY <1>2, <1>5 DEF ReportInv, UsbTypeOK, ListsDevices, Listable
  <2> QED BY <2>1, <2>2, <2>3, ZenonT(60) DEF DoneListInv, Distinct, idle
<1> QED BY <1>6, <1>7, <1>8 DEF ReportInv

LEMMA EndRequestReports == ReportInv /\ EndRequest => ReportInv'
<1> SUFFICES ASSUME ReportInv, EndRequest PROVE ReportInv'
  OBVIOUS
<1>1. request \in Nat /\ kind \in {"ehci", "ohci", "uhci"} /\ UNCHANGED <<kind, scan, donehead>>
  BY DEF ReportInv, UsbTypeOK, EndRequest
<1>2. CASE request < 6
  <2>1. request' \in Nat
    BY <1>1, <1>2 DEF EndRequest, NextRequest, StartRequest
  <2> QED BY <1>1, <1>2, <2>1, ReportQuiet DEF EndRequest
<1>3. CASE ~(request < 6)
  <2>1. PICK type \in Types(request) : \E d \in Endpoint(type) :
             /\ devices' = Append(devices, d)
             /\ linked' = IF d.desc THEN Len(devices) + 1 ELSE linked
    BY <1>3 DEF EndRequest
  <2>2. PICK d \in Endpoint(type) : /\ devices' = Append(devices, d)
                                    /\ linked' = IF d.desc THEN Len(devices) + 1 ELSE linked
    BY <2>1
  <2>3. type \in {"other", "keyboard", "mouse"}
    BY DEF Types
  <2>4. d \in Devices /\ d.td \in {"none", "active"}
    BY <1>1, <2>3, NewDevice
  <2>5. request' = 0 /\ completed' = Append(completed, 0) /\ handled' = Append(handled, 0)
    BY <1>3 DEF EndRequest
  <2>6. linked' \in {linked, Len(devices) + 1} /\ request' \in Nat
    BY <2>2, <2>5
  <2> QED BY <1>1, <2>2, <2>4, <2>5, <2>6, AppendDevice
<1> QED BY <1>2, <1>3

(* A device changes its descriptor; "done" comes with a completed report and goes with a handled one. *)
LEMMA ChangeTd ==
  ASSUME NEW k \in DOMAIN devices, NEW td \in {"none", "active", "done", "retired"}, devices \in Seq(Devices),
         devices' = [devices EXCEPT ![k].td = td]
  PROVE  /\ devices' \in Seq(Devices) /\ Len(devices') = Len(devices) /\ DOMAIN devices' = DOMAIN devices
         /\ devices'[k].td = td /\ devices'[k].buf = devices[k].buf
         /\ \A i \in DOMAIN devices : i # k => devices'[i] = devices[i]
<1> DEFINE d == [devices[k] EXCEPT !.td = td]
<1>1. devices[k] \in Devices
  OBVIOUS
<1>2. d \in Devices /\ d.td = td /\ d.buf = devices[k].buf
  BY <1>1 DEF Devices
<1>3. devices' = [devices EXCEPT ![k] = d]
  OBVIOUS
<1> HIDE DEF d
<1>4. devices' \in Seq(Devices) /\ Len(devices') = Len(devices) /\ DOMAIN devices' = DOMAIN devices
  BY <1>2, <1>3
<1> QED BY <1>2, <1>3, <1>4

LEMMA CompleteReports == ReportInv /\ Complete => ReportInv'
<1> SUFFICES ASSUME ReportInv, Complete PROVE ReportInv'
  OBVIOUS
<1> DEFINE n == Len(devices)
<1>0. PICK k \in DOMAIN devices : k = linked
  BY DEF ReportInv, UsbTypeOK, Complete
<1>1. /\ devices \in Seq(Devices) /\ n \in Nat /\ completed \in Seq(Nat) /\ handled \in Seq(Nat)
      /\ Len(completed) = n /\ Len(handled) = n /\ DOMAIN devices = 1..n /\ k \in 1..n
  BY DEF ReportInv, UsbTypeOK
<1>2. /\ devices[k].td = "active" /\ devices' = [devices EXCEPT ![k].td = "done"]
      /\ completed' = [completed EXCEPT ![k] = @ + 1] /\ UNCHANGED <<kind, request, linked, scan, handled>>
      /\ donehead' = IF kind = "ohci" THEN <<k>> \o donehead ELSE donehead
  BY <1>0 DEF Complete
<1>3. /\ devices' \in Seq(Devices) /\ Len(devices') = n /\ DOMAIN devices' = DOMAIN devices
      /\ devices'[k].td = "done" /\ \A i \in DOMAIN devices : i # k => devices'[i] = devices[i]
  BY <1>1, <1>2, ChangeTd
<1>4. /\ completed' \in Seq(Nat) /\ Len(completed') = n /\ completed'[k] = completed[k] + 1
      /\ \A i \in 1..n : i # k => completed'[i] = completed[i]
  BY <1>1, <1>2
<1>5. ListsDevices(donehead) /\ ListsDevices(scan.list)
  BY DEF ReportInv, UsbTypeOK
<1>6. donehead \in Seq(Nat) /\ donehead' \in Seq(Nat) /\ ListsDevices(donehead)'
  <2>1. donehead \in Seq(Nat)
    BY <1>5 DEF ListsDevices, Listable
  <2>2. CASE kind # "ohci"
    BY <1>2, <1>3, <1>5, <2>1, <2>2 DEF ListsDevices, Listable
  <2>3. CASE kind = "ohci"
    <3>1. donehead' = <<k>> \o donehead /\ donehead' \in Seq(Nat)
      BY <1>1, <1>2, <2>1, <2>3
    <3>2. \A i \in DOMAIN donehead' : donehead'[i] = k \/ \E j \in DOMAIN donehead : donehead'[i] = donehead[j]
      BY <2>1, <3>1
    <3>3. Listable' = Listable
      BY <1>2, <1>3 DEF Listable
    <3>4. k \in Listable
      BY DEF Listable
    <3>5. \A i \in DOMAIN donehead' : donehead'[i] \in Listable
      BY <1>5, <3>2, <3>4 DEF ListsDevices
    <3> QED BY <2>1, <3>1, <3>3, <3>5 DEF ListsDevices
  <2> QED BY <2>2, <2>3
<1>7. UsbTypeOK'
  <2>1. ListsDevices(scan.list)'
    BY <1>2, <1>3, <1>5 DEF ListsDevices, Listable
  <2> QED BY <1>2, <1>3, <1>4, <1>6, <2>1 DEF ReportInv, UsbTypeOK
<1>8. CountsAgree'
  <2> SUFFICES ASSUME NEW i \in 1..n PROVE completed'[i] = handled[i] + (IF Unhanded(devices'[i]) THEN 1 ELSE 0)
    BY <1>2, <1>3 DEF CountsAgree
  <2>1. completed[i] = handled[i] + (IF Unhanded(devices[i]) THEN 1 ELSE 0) /\ handled[i] \in Nat
    BY <1>1 DEF ReportInv, CountsAgree
  <2>2. CASE i = k
    BY <1>1, <1>2, <1>3, <1>4, <2>1, <2>2 DEF Unhanded
  <2>3. CASE i # k
    BY <1>1, <1>3, <1>4, <2>1, <2>3
  <2> QED BY <2>2, <2>3
<1>9. kind' = "ohci" => DoneListInv'
  <2> SUFFICES ASSUME kind = "ohci" PROVE DoneListInv'
    BY <1>2
  <2>1. DoneListInv
    BY DEF ReportInv
  <2>2. \A i \in DOMAIN donehead : donehead[i] # k /\ (donehead[i] = 0 \/ donehead[i] \in DOMAIN devices)
    <3> SUFFICES ASSUME NEW i \in DOMAIN donehead
                 PROVE  donehead[i] # k /\ (donehead[i] = 0 \/ donehead[i] \in DOMAIN devices)
      OBVIOUS
    <3>1. donehead[i] = 0 \/ donehead[i] \in DOMAIN devices
      BY <1>5 DEF ListsDevices, Listable
    <3>2. donehead[i] = 0 \/ devices[donehead[i]].td \in {"done", "retired"}
      BY <2>1 DEF DoneListInv
    <3>3. k # 0
      BY <1>1
    <3> QED BY <1>2, <3>1, <3>2, <3>3
  <2>3. \A i \in DOMAIN scan.list :
          scan.list[i] # 0 /\ devices[scan.list[i]].td = "done" => devices'[scan.list[i]].td = "done"
    BY <1>3, <1>5 DEF ListsDevices, Listable
  <2>4. donehead' = <<k>> \o donehead
    BY <1>2
  <2>5. /\ DOMAIN donehead' = 1..Len(donehead) + 1 /\ donehead'[1] = k /\ Len(donehead) \in Nat
        /\ \A i \in DOMAIN donehead' : i # 1 => i - 1 \in DOMAIN donehead /\ donehead'[i] = donehead[i - 1]
    BY <1>1, <1>6, <2>4, SMTT(40)
  <2>6. Distinct(donehead)'
    <3> SUFFICES ASSUME NEW i \in DOMAIN donehead', NEW j \in DOMAIN donehead', donehead'[i] = donehead'[j] PROVE i = j
      BY DEF Distinct
    <3>1. CASE i = 1 \/ j = 1
      BY <2>2, <2>5, <3>1
    <3>2. CASE i # 1 /\ j # 1
      <4>1. i - 1 = j - 1
        BY <2>1, <2>5, <3>2 DEF DoneListInv, Distinct
      <4> QED BY <2>5, <4>1
    <3> QED BY <3>1, <3>2
  <2>7. \A i \in DOMAIN donehead' : \/ donehead'[i] = 0 \/ devices'[donehead'[i]].td = "done"
                                    \/ scan' # idle /\ devices'[donehead'[i]].td = "retired"
    <3> SUFFICES ASSUME NEW i \in DOMAIN donehead'
                 PROVE  \/ donehead'[i] = 0 \/ devices'[donehead'[i]].td = "done"
                        \/ scan' # idle /\ devices'[donehead'[i]].td = "retired"
      OBVIOUS
    <3>1. CASE i = 1
      BY <1>3, <2>5, <3>1
    <3>2. CASE i # 1
      <4>1. i - 1 \in DOMAIN donehead /\ donehead'[i] = donehead[i - 1]
        BY <2>5, <3>2
      <4>2. donehead[i - 1] # 0 => devices'[donehead[i - 1]] = devices[donehead[i - 1]]
        BY <1>3, <2>2, <4>1
      <4>3. \/ donehead[i - 1] = 0 \/ devices[donehead[i - 1]].td = "done"
            \/ scan # idle /\ devices[donehead[i - 1]].td = "retired"
        BY <2>1, <4>1 DEF DoneListInv
      <4> QED BY <1>2, <4>1, <4>2, <4>3
    <3> QED BY <3>1, <3>2
  <2>8. Distinct(scan.list)' /\ \A i \in DOMAIN scan'.list : i >= scan'.at => scan'.list[i] = 0 \/ devices'[scan'.list[i]].td = "done"
    BY <1>2, <2>1, <2>3 DEF DoneListInv, Distinct
  <2> QED BY <2>6, <2>7, <2>8 DEF DoneListInv
<1> QED BY <1>7, <1>8, <1>9 DEF ReportInv

-----------------------------------------------------------------------------
(* The poll *)

LEMMA ScanAt ==
  ASSUME UsbTypeOK, InScan
  PROVE  scan.at \in DOMAIN scan.list /\ (kind # "ohci" \/ AtDevice # 0 => AtDevice \in DOMAIN devices)
<1>1. scan.list \in Seq(Nat)
  BY DEF UsbTypeOK, ListsDevices, Listable
<1>2. scan.at \in DOMAIN scan.list
  BY <1>1 DEF InScan
<1> QED BY <1>2 DEF UsbTypeOK, ListsDevices, Listable, AtDevice

LEMMA ScanOnward ==
  ASSUME UsbTypeOK, InScan, Onward
  PROVE  /\ scan' = [at |-> scan'.at, list |-> scan'.list] /\ scan'.at = scan.at + 1 /\ scan'.at \in Nat
         /\ scan'.list = scan.list /\ scan' # idle
<1>1. scan = [at |-> scan.at, list |-> scan.list] /\ scan.at \in Nat /\ scan' = [scan EXCEPT !.at = @ + 1]
  BY DEF UsbTypeOK, Onward
<1>2. scan' = [at |-> scan.at + 1, list |-> scan.list]
  BY <1>1
<1>3. scan'.at = scan.at + 1 /\ scan'.list = scan.list /\ scan.at + 1 # 0
  BY <1>1, <1>2
<1> QED BY <1>1, <1>2, <1>3 DEF idle

(* The poll moves on, or ends, without handing anything on. *)
LEMMA ScanMoves ==
  ASSUME ReportInv, UNCHANGED <<kind, request, linked, completed, handled, devices>>,
         donehead' \in {donehead, <<>>}, scan' = [at |-> scan'.at, list |-> scan'.list], scan'.at \in Nat,
         ListsDevices(scan'.list)
  PROVE  UsbTypeOK' /\ CountsAgree'
<1>1. ListsDevices(donehead)'
  <2>1. <<>> \in Seq(Nat) /\ DOMAIN <<>> = {}
    OBVIOUS
  <2> QED BY <2>1 DEF ReportInv, UsbTypeOK, ListsDevices, Listable
<1>2. ListsDevices(scan.list)'
  BY DEF ListsDevices, Listable
<1> QED BY <1>1, <1>2 DEF ReportInv, UsbTypeOK, CountsAgree

(* The report of device k is handed on, or dropped for want of a buffer. *)
LEMMA HandedOn ==
  ASSUME ReportInv, NEW k \in DOMAIN devices, NEW td \in {"none", "active", "retired"}, devices[k].td = "done",
         devices' = [devices EXCEPT ![k].td = td],
         \/ handled' = [handled EXCEPT ![k] = @ + 1] /\ (td = "retired" => devices[k].buf)
         \/ handled' = handled /\ td = "retired" /\ ~devices[k].buf,
         UNCHANGED <<kind, request, linked, completed, donehead>>,
         scan' = [at |-> scan'.at, list |-> scan'.list], scan'.at \in Nat, ListsDevices(scan'.list)
  PROVE  UsbTypeOK' /\ CountsAgree'
<1> DEFINE n == Len(devices)
<1>1. /\ devices \in Seq(Devices) /\ n \in Nat /\ completed \in Seq(Nat) /\ handled \in Seq(Nat)
      /\ Len(completed) = n /\ Len(handled) = n /\ DOMAIN devices = 1..n /\ k \in 1..n
      /\ ListsDevices(donehead)
  BY DEF ReportInv, UsbTypeOK
<1>2. /\ devices' \in Seq(Devices) /\ Len(devices') = n /\ DOMAIN devices' = DOMAIN devices
      /\ devices'[k].td = td /\ devices'[k].buf = devices[k].buf /\ \A i \in DOMAIN devices : i # k => devices'[i] = devices[i]
  BY <1>1, ChangeTd
<1>3. /\ handled' \in Seq(Nat) /\ Len(handled') = n
      /\ handled'[k] = IF td = "retired" /\ ~devices[k].buf THEN handled[k] ELSE handled[k] + 1
      /\ \A i \in 1..n : i # k => handled'[i] = handled[i]
  <2>1. CASE handled' = [handled EXCEPT ![k] = @ + 1] /\ (td = "retired" => devices[k].buf)
    <3>1. ~(td = "retired" /\ ~devices[k].buf)
      BY <2>1, Zenon
    <3> QED BY <1>1, <2>1, <3>1
  <2>2. CASE handled' = handled /\ td = "retired" /\ ~devices[k].buf
    BY <1>1, <2>2
  <2> QED BY <2>1, <2>2
<1>4. ListsDevices(donehead)' /\ ListsDevices(scan.list)'
  BY <1>1, <1>2 DEF ListsDevices, Listable
<1>5. UsbTypeOK'
  BY <1>2, <1>3, <1>4 DEF ReportInv, UsbTypeOK
<1>6. CountsAgree'
  <2> SUFFICES ASSUME NEW i \in 1..n PROVE completed[i] = handled'[i] + (IF Unhanded(devices'[i]) THEN 1 ELSE 0)
    BY <1>2 DEF CountsAgree
  <2>1. completed[i] = handled[i] + (IF Unhanded(devices[i]) THEN 1 ELSE 0) /\ handled[i] \in Nat
    BY <1>1 DEF ReportInv, CountsAgree
  <2>2. CASE i = k
    <3>1. Unhanded(devices[i]) /\ (Unhanded(devices'[i]) <=> td = "retired" /\ ~devices[k].buf)
      BY <1>2, <2>2 DEF Unhanded
    <3> QED BY <1>1, <1>3, <2>1, <2>2, <3>1
  <2>3. CASE i # k
    BY <1>1, <1>2, <1>3, <2>1, <2>3
  <2> QED BY <2>2, <2>3
<1> QED BY <1>5, <1>6

LEMMA AcknowledgeReports == ReportInv /\ Acknowledge => ReportInv'
<1> SUFFICES ASSUME ReportInv, Acknowledge PROVE ReportInv'
  OBVIOUS
<1>1. scan = idle /\ UNCHANGED <<kind, request, linked, completed, handled, devices, donehead>> /\ devices \in Seq(Devices)
  BY DEF Acknowledge, pollUnchanged, ReportInv, UsbTypeOK
<1>2. CASE kind = "ohci"
  <2>1. scan' = [at |-> 1, list |-> donehead]
    BY <1>2 DEF Acknowledge
  <2>2. ListsDevices(scan'.list) /\ scan'.at = 1 /\ scan'.list = donehead /\ scan' = [at |-> scan'.at, list |-> scan'.list]
    BY <2>1 DEF ReportInv, UsbTypeOK
  <2>3. UsbTypeOK' /\ CountsAgree'
    BY <1>1, <2>2, ScanMoves
  <2>4. DoneListInv'
    BY <1>1, <1>2, <2>2 DEF ReportInv, DoneListInv, Distinct
  <2> QED BY <2>3, <2>4 DEF ReportInv
<1>3. CASE kind # "ohci"
  <2> DEFINE all == [d \in 1..Len(devices) |-> d]
  <2>1. scan' = [at |-> 1, list |-> all]
    BY <1>3 DEF Acknowledge
  <2>2. all \in Seq(Nat) /\ DOMAIN all = DOMAIN devices /\ \A i \in DOMAIN all : all[i] \in DOMAIN devices
    BY <1>1
  <2> HIDE DEF all
  <2>3. ListsDevices(scan'.list) /\ scan'.at = 1 /\ scan' = [at |-> scan'.at, list |-> scan'.list]
    BY <2>1, <2>2 DEF ListsDevices, Listable
  <2>4. UsbTypeOK' /\ CountsAgree'
    BY <1>1, <2>3, ScanMoves
  <2> QED BY <1>1, <1>3, <2>4 DEF ReportInv
<1> QED BY <1>2, <1>3

LEMMA EhciReports == ReportInv /\ ehci_handle_interrupt => ReportInv'
<1> SUFFICES ASSUME ReportInv, ehci_handle_interrupt PROVE ReportInv'
  OBVIOUS
<1>1. /\ kind = "ehci" /\ InScan /\ Onward /\ UsbTypeOK
      /\ UNCHANGED <<kind, request, linked, completed, donehead>>
  BY DEF ehci_handle_interrupt, pollUnchanged, ReportInv
<1>2. PICK k \in DOMAIN devices : k = AtDevice
  BY <1>1, ScanAt
<1>3. scan' = [at |-> scan'.at, list |-> scan'.list] /\ scan'.at \in Nat /\ ListsDevices(scan'.list)
  BY <1>1, ScanOnward DEF UsbTypeOK
<1>4. CASE IsDone
  <2>1. PICK td \in {"none", "active"} : devices' = [devices EXCEPT ![k].td = td]
    BY <1>2, <1>4 DEF ehci_handle_interrupt, ehci_resubmit
  <2>2. handled' = [handled EXCEPT ![k] = @ + 1] /\ devices[k].td = "done"
    BY <1>2, <1>4 DEF ehci_handle_interrupt, HandOn, IsDone
  <2> QED BY <1>1, <1>3, <2>1, <2>2, HandedOn DEF ReportInv
<1>5. CASE ~IsDone
  BY <1>1, <1>3, <1>5, ScanMoves DEF ehci_handle_interrupt, ReportInv
<1> QED BY <1>4, <1>5

LEMMA UhciReports == ReportInv /\ uhci_handle_interrupt => ReportInv'
<1> SUFFICES ASSUME ReportInv, uhci_handle_interrupt PROVE ReportInv'
  OBVIOUS
<1>1. /\ kind = "uhci" /\ InScan /\ UsbTypeOK
      /\ UNCHANGED <<kind, request, linked, completed, donehead>>
  BY DEF uhci_handle_interrupt, pollUnchanged, ReportInv
<1>2. PICK k \in DOMAIN devices : k = AtDevice
  BY <1>1, ScanAt
<1>3. CASE IsDone
  <2>1. /\ devices' = [devices EXCEPT ![k].td = "active"] /\ handled' = [handled EXCEPT ![k] = @ + 1]
        /\ devices[k].td = "done" /\ scan' = idle
    BY <1>2, <1>3 DEF uhci_handle_interrupt, uhci_resubmit, HandOn, IsDone
  <2>2. scan' = [at |-> scan'.at, list |-> scan'.list] /\ scan'.at = 0 /\ scan'.list = <<>>
    BY <2>1 DEF idle
  <2>3. ListsDevices(<<>>)
    BY DEF ListsDevices, Listable
  <2>4. UsbTypeOK' /\ CountsAgree'
    <3>1. scan'.at \in Nat /\ ListsDevices(scan'.list) /\ "active" \in {"none", "active", "retired"}
      BY <2>2, <2>3
    <3> QED BY <1>1, <2>1, <2>2, <3>1, HandedOn
  <2> QED BY <1>1, <2>4 DEF ReportInv
<1>4. CASE ~IsDone
  <2>1. Onward /\ UNCHANGED <<devices, handled>>
    BY <1>4 DEF uhci_handle_interrupt
  <2>2. scan' = [at |-> scan'.at, list |-> scan'.list] /\ scan'.at \in Nat /\ ListsDevices(scan'.list)
    BY <1>1, <2>1, ScanOnward DEF UsbTypeOK
  <2> QED BY <1>1, <2>1, <2>2, ScanMoves DEF ReportInv
<1> QED BY <1>3, <1>4

(* OHCI hands on whatever the list names: it is done, and the list names it once. *)
LEMMA OhciReports == ReportInv /\ ohci_handle_interrupt => ReportInv'
<1> SUFFICES ASSUME ReportInv, ohci_handle_interrupt PROVE ReportInv'
  OBVIOUS
<1>1. /\ kind = "ohci" /\ InScan /\ Onward /\ UsbTypeOK /\ DoneListInv /\ AtDevice # 0
      /\ UNCHANGED <<kind, request, linked, completed, donehead>>
  BY DEF ohci_handle_interrupt, pollUnchanged, ReportInv
<1>2. PICK k \in DOMAIN devices : k = AtDevice
  BY <1>1, ScanAt
<1>3. scan.at \in DOMAIN scan.list /\ k = scan.list[scan.at] /\ scan.at \in Nat
  BY <1>1, <1>2, ScanAt DEF AtDevice, UsbTypeOK
<1>4. /\ scan' = [at |-> scan'.at, list |-> scan'.list] /\ scan'.at \in Nat /\ scan'.at = scan.at + 1
      /\ scan'.list = scan.list /\ scan' # idle /\ ListsDevices(scan.list) /\ ListsDevices(donehead)
  BY <1>1, ScanOnward DEF UsbTypeOK
<1>5. /\ devices' = [devices EXCEPT ![k].td = "retired"]
      /\ \/ handled' = [handled EXCEPT ![k] = @ + 1] /\ devices[k].buf
         \/ handled' = handled /\ ~devices[k].buf
  BY <1>2 DEF ohci_handle_interrupt, HandOn
<1>6. devices[k].td = "done"
  <2>1. scan.list[scan.at] # 0 /\ scan.at >= scan.at
    BY <1>1, <1>2, <1>3
  <2> QED BY <1>1, <1>3, <2>1 DEF DoneListInv
<1>7. UsbTypeOK' /\ CountsAgree'
  BY <1>1, <1>4, <1>5, <1>6, HandedOn
<1>8. devices'[k].td = "retired" /\ \A i \in DOMAIN devices : i # k => devices'[i] = devices[i]
  BY <1>1, <1>5, ChangeTd DEF UsbTypeOK
<1>9. DoneListInv'
  <2>1. \A i \in DOMAIN donehead : donehead[i] = 0 \/ devices'[donehead[i]].td \in {"done", "retired"}
    BY <1>1, <1>4, <1>8 DEF DoneListInv, ListsDevices, Listable
  <2>2. \A i \in DOMAIN scan.list : i >= scan'.at => scan.list[i] = 0 \/ devices'[scan.list[i]].td = "done"
    <3> SUFFICES ASSUME NEW i \in DOMAIN scan.list, i >= scan.at + 1, scan.list[i] # 0 PROVE devices'[scan.list[i]].td = "done"
      BY <1>4
    <3>1. i \in Nat
      BY <1>4 DEF ListsDevices, Listable
    <3>2. i # scan.at /\ i >= scan.at
      BY <1>3, <3>1
    <3>3. scan.list[i] # k /\ scan.list[i] \in DOMAIN devices /\ devices[scan.list[i]].td = "done"
      BY <1>1, <1>3, <1>4, <3>2 DEF DoneListInv, Distinct, ListsDevices, Listable
    <3> QED BY <1>8, <3>3
  <2>3. Distinct(donehead)' /\ Distinct(scan.list)'
    BY <1>1, <1>4 DEF DoneListInv, Distinct
  <2> QED BY <1>1, <1>4, <2>1, <2>2, <2>3 DEF DoneListInv
<1> QED BY <1>7, <1>9 DEF ReportInv

LEMMA ScanEndsReports == ReportInv /\ ScanEnds => ReportInv'
<1> SUFFICES ASSUME ReportInv, ScanEnds PROVE ReportInv'
  OBVIOUS
<1>1. /\ scan' = idle /\ donehead' = <<>>
      /\ UNCHANGED <<kind, request, linked, completed, handled, devices>>
  BY DEF ScanEnds, pollUnchanged
<1>2. scan' = [at |-> scan'.at, list |-> scan'.list] /\ scan'.at = 0 /\ scan'.list = <<>>
  BY <1>1 DEF idle
<1>3. ListsDevices(<<>>) /\ DOMAIN <<>> = {}
  BY DEF ListsDevices, Listable
<1>4. UsbTypeOK' /\ CountsAgree'
  BY <1>1, <1>2, <1>3, ScanMoves
<1>5. DoneListInv'
  BY <1>1, <1>2, <1>3 DEF DoneListInv, Distinct
<1> QED BY <1>4, <1>5 DEF ReportInv

(* A control transfer comes onto the list. *)
LEMMA ControlReports == ReportInv /\ ControlDone => ReportInv'
<1> SUFFICES ASSUME ReportInv, ControlDone PROVE ReportInv'
  OBVIOUS
<1>1. UNCHANGED <<kind, request, devices, linked, scan, completed, handled>> /\ request \in Nat
  BY DEF ControlDone, ReportInv, UsbTypeOK
<1>2. CASE donehead' = donehead
  BY <1>1, <1>2, ReportQuiet
<1>3. CASE donehead' # donehead
  <2>1. kind = "ohci" /\ donehead' = <<0>> \o donehead /\ \A i \in DOMAIN donehead : donehead[i] # 0
    BY <1>3 DEF ControlDone, ToSet
  <2>2. donehead \in Seq(Nat) /\ DoneListInv /\ UsbTypeOK /\ CountsAgree
    BY <2>1 DEF ReportInv, UsbTypeOK, ListsDevices
  <2>3. /\ DOMAIN donehead' = 1..Len(donehead) + 1 /\ donehead'[1] = 0 /\ Len(donehead) \in Nat /\ donehead' \in Seq(Nat)
        /\ \A i \in DOMAIN donehead' : i # 1 => i - 1 \in DOMAIN donehead /\ donehead'[i] = donehead[i - 1]
    BY <2>1, <2>2, SMTT(40)
  <2>4. UsbTypeOK'
    <3>1. \A i \in DOMAIN donehead' : donehead'[i] \in Listable'
      BY <1>1, <2>1, <2>2, <2>3 DEF UsbTypeOK, ListsDevices, Listable
    <3>2. ListsDevices(donehead)' /\ ListsDevices(scan.list)'
      BY <1>1, <2>2, <2>3, <3>1 DEF UsbTypeOK, ListsDevices, Listable
    <3> QED BY <1>1, <2>2, <3>2 DEF UsbTypeOK
  <2>5. Distinct(donehead)'
    <3> SUFFICES ASSUME NEW i \in DOMAIN donehead', NEW j \in DOMAIN donehead', donehead'[i] = donehead'[j] PROVE i = j
      BY DEF Distinct
    <3>1. CASE i = 1 \/ j = 1
      BY <2>1, <2>3, <3>1
    <3>2. CASE i # 1 /\ j # 1
      <4>1. i - 1 = j - 1
        BY <2>2, <2>3, <3>2 DEF DoneListInv, Distinct
      <4> QED BY <2>3, <4>1
    <3> QED BY <3>1, <3>2
  <2>6. \A i \in DOMAIN donehead' : \/ donehead'[i] = 0 \/ devices[donehead'[i]].td = "done"
                                    \/ scan # idle /\ devices[donehead'[i]].td = "retired"
    BY <2>2, <2>3 DEF DoneListInv
  <2>7. Distinct(scan.list)' /\ \A i \in DOMAIN scan.list : i >= scan.at => scan.list[i] = 0 \/ devices[scan.list[i]].td = "done"
    BY <1>1, <2>2 DEF DoneListInv, Distinct
  <2>8. DoneListInv'
    BY <1>1, <2>5, <2>6, <2>7 DEF DoneListInv
  <2>9. CountsAgree'
    BY <1>1, <2>2 DEF CountsAgree
  <2> QED BY <2>4, <2>8, <2>9 DEF ReportInv
<1> QED BY <1>2, <1>3

LEMMA ReportStep == ReportInv /\ [UsbNext]_usbVars => ReportInv'
<1> SUFFICES ASSUME ReportInv, [UsbNext]_usbVars PROVE ReportInv'
  OBVIOUS
<1>1. request \in Nat
  BY DEF ReportInv, UsbTypeOK
<1>2. CASE HostInit \/ SkipPort \/ UNCHANGED usbVars
  BY <1>1, <1>2, ReportQuiet DEF HostInit, ehci_init, ohci_init, uhci_init, SkipPort, usbVars
<1>3. CASE FoundDevice
  BY <1>3, ReportQuiet DEF FoundDevice, StartRequest
<1>4. CASE TakeBlock
  BY <1>1, <1>4, ReportQuiet DEF TakeBlock
<1>5. CASE ohci_walk_freed
  BY <1>1, <1>5, ReportQuiet DEF ohci_walk_freed, pollUnchanged
<1> QED BY <1>2, <1>3, <1>4, <1>5, EndRequestReports, CompleteReports, ControlReports, AcknowledgeReports, EhciReports, UhciReports,
           OhciReports, ScanEndsReports DEF UsbNext, NoMemory, TransferEnds, Poll

-----------------------------------------------------------------------------
LEMMA UsbStep == UsbInv /\ [UsbNext]_usbVars => UsbInv'
BY BalanceStep, ReportStep DEF UsbInv, BalanceInv, ReportInv, UsbTypeOK

(* *_control_transfer: whatever allocation fails, in any request of any     *)
(* number of devices, the path that ends a transfer frees each block it     *)
(* holds and nothing else, but for the setup packets of OHCI.               *)
THEOREM TransfersCorrect == UsbSpec => []TransfersBalance
<1>1. UsbInv => TransfersBalance
  BY DEF UsbInv
<1> QED BY <1>1, UsbInitInv, UsbStep, PTL DEF UsbSpec

(* *_handle_interrupt: with any number of devices and reports, and the      *)
(* controller at work between any two steps, every completed report is      *)
(* handed on once or is still waiting.                                      *)
THEOREM ReportsCorrect == UsbSpec => []ReportsOnce
<1>1. UsbInv => ReportsOnce
  BY DEF UsbInv, ReportsOnce
<1> QED BY <1>1, UsbInitInv, UsbStep, PTL DEF UsbSpec
=============================================================================
