--------------------------- MODULE ToolHomeProofs ---------------------------
(***************************************************************************)
(* Proofs about ToolHome, for any processes, packages, versions and paths, *)
(* and any set of environments.                                            *)
(*                                                                         *)
(* The inductive invariant is in parts, by what they take for granted.     *)
(* Nothing: what a command holds fits the place it is at (ShapeInv), and   *)
(* every list of entries, the registry's and those that commands hold, has *)
(* been checked as a whole (FineInv). Of commands that run one at a time   *)
(* and do not name versions of tools that are there: a list has one entry  *)
(* for a package (OnceInv). And if, besides, nothing kills a command or    *)
(* stops its rollback: the tool home has what the entries say, but for     *)
(* what the command that runs has changed and would undo (OrderInv).       *)
(***************************************************************************)
EXTENDS ToolHome, Induction

(* What a command holds, where it is. *)
Shaped(j, at) ==
    /\ at \in Ended => j = NoJob
    /\ at \in {"install", "validate"} => j.cmd = "add"
    /\ at = "uninstall" => j.cmd = "remove"
    /\ at \in {"look", "apply", "applied"} => j.cmd = "update"
    /\ at = "rollback" => j.cmd \in {"add", "update"}
    /\ j.cmd = "add" =>
          /\ j.pkg \in Packages
          /\ j.before \in [Packages -> Versions \cup {None}]
    /\ j.cmd = "remove" => j.pkg \in Packages
    /\ j.cmd = "update" /\ at \in {"apply", "applied", "rollback", "write", "writing"} =>
          /\ j.previous \in Entries /\ j.next \in Entries
          /\ j.next.pkg = j.previous.pkg

ShapeInv == \A p \in Procs : Shaped(job[p], pc[p])

(* The entry is of a version that loads in any home, and is of its tool. *)
Sound(e, contracts, loners) ==
    /\ contracts[<<e.pkg, e.version>>] = [name |-> e.name, path |-> e.path]
    /\ <<e.pkg, e.version>> \notin loners

Fine(entries, contracts, loners) ==
    /\ entries \in Seq(Entries)
    /\ \A e \in ToSet(entries) :
          Sound(e, contracts, loners) /\ ~getConflict(e, entries)

FineInv ==
    /\ registry # Torn => Fine(registry, contract, alone)
    /\ \A p \in Procs : Fine(job[p].entries, contract, alone)

(* One entry for a package. *)
Once(entries) ==
    \A i, k \in DOMAIN entries : entries[i].pkg = entries[k].pkg => i = k

Single == \A p, q \in Procs : pc[p] \notin Ended /\ pc[q] \notin Ended => p = q

(* An add that replaces an entry of the package it has npm install, or one *)
(* that is called so: no entry is left of that package. It finds no other  *)
(* package changed.                                                        *)
Adding(j, at, home) ==
    j.cmd = "add" /\ at \in {"install", "validate", "rollback"} =>
        /\ at = "install" => home = j.before
        /\ at = "validate" =>
              j.changed \in IF j.previous = None THEN {None, j.pkg} ELSE {j.previous.pkg}
        /\ j.previous = None \/ j.previous.pkg # j.pkg =>
              \A e \in ToSet(j.entries) : e.pkg # j.pkg

OnceInv ==
    /\ Single
    /\ registry # Torn => Once(registry)
    /\ \A p \in Procs : Once(job[p].entries) /\ Adding(job[p], pc[p], installed)

Careful == env.atOnce = 1 /\ "again" \notin env.pins

(* A tool home holds what the entries say, and packages named as their     *)
(* tools are called.                                                       *)
Matches(entries, home) ==
    /\ \A e \in ToSet(entries) : home[e.pkg] = e.version
    /\ \A pkg \in Packages :
          home[pkg] # None =>
             pkg \in Namesakes \/ \E e \in ToSet(entries) : e.pkg = pkg

(* The tool home as it was before the command changed it. *)
Before(j, at, home) ==
    IF at \in {"validate", "rollback"} /\ j.cmd = "add" THEN j.before
    ELSE IF at \in {"applied", "rollback"}
    THEN [home EXCEPT ![j.previous.pkg] = j.previous.version]
    ELSE home

Ordered(j, at, reg, home) ==
    at \notin Ended =>
        /\ at # "writing" => reg # Torn
        /\ at \notin {"write", "writing"} => reg = j.entries
        /\ Matches(j.entries, Before(j, at, home))
        /\ \/ at \in {"apply", "applied"}
           \/ at = "install" /\ j.previous # None
           => j.previous \in ToSet(j.entries)
        /\ at \in {"install", "validate", "rollback"} /\ j.cmd = "add" =>
              (j.previous # None /\ j.previous.pkg # j.pkg => j.pkg \in Namesakes)
        /\ at \in {"validate", "rollback"} /\ j.cmd = "add" =>
              /\ home = [j.before EXCEPT ![j.pkg] = home[j.pkg]]
              /\ j.previous = None =>
                    j.changed = j.pkg \/ (j.changed = None /\ home = j.before)
              /\ j.previous # None =>
                    /\ j.changed = j.previous.pkg
                    /\ j.before[j.changed] = j.previous.version

OrderInv ==
    /\ AtRest => registry # Torn /\ Matches(registry, installed)
    /\ \A p \in Procs : Ordered(job[p], pc[p], registry, installed)

IInv ==
    /\ TypeOK /\ ShapeInv /\ FineInv
    /\ Careful => OnceInv
    /\ Orderly => OrderInv

-----------------------------------------------------------------------------
(* Lists of entries.                                                       *)

(* What a list of entries and its set have to do with each other. *)
LEMMA Lists ==
    ASSUME NEW s \in Seq(Entries)
    PROVE  /\ DOMAIN s = 1..Len(s) /\ Len(s) \in Nat
           /\ \A i \in DOMAIN s : s[i] \in Entries /\ s[i] \in ToSet(s)
           /\ ToSet(s) \subseteq Entries
           /\ \A e \in ToSet(s) : \E i \in DOMAIN s : s[i] = e
  BY DEF ToSet

(* What an append adds. *)
LEMMA Appended ==
    ASSUME NEW s \in Seq(Entries), NEW e \in Entries
    PROVE  /\ Append(s, e) \in Seq(Entries)
           /\ ToSet(Append(s, e)) = ToSet(s) \cup {e}
           /\ Once(s) /\ (\A f \in ToSet(s) : f.pkg # e.pkg) => Once(Append(s, e))
  <1>. DEFINE t == Append(s, e)
  <1>1. /\ t \in Seq(Entries) /\ Len(t) = Len(s) + 1 /\ Len(s) \in Nat
        /\ \A i \in 1..Len(s) : t[i] = s[i]
        /\ t[Len(s) + 1] = e
    OBVIOUS
  <1>2. DOMAIN t = 1..Len(t) /\ DOMAIN s = 1..Len(s)
    BY <1>1
  <1>. HIDE DEF t
  <1>3. \A i \in DOMAIN t : i \in DOMAIN s \/ i = Len(s) + 1
    BY <1>1, <1>2
  <1>4. DOMAIN s \subseteq DOMAIN t /\ Len(s) + 1 \in DOMAIN t
    BY <1>1, <1>2
  <1>5. ToSet(t) = ToSet(s) \cup {e}
    BY <1>1, <1>2, <1>3, <1>4 DEF ToSet
  <1>6. ASSUME Once(s), \A f \in ToSet(s) : f.pkg # e.pkg
        PROVE  Once(t)
    <2>1. \A i \in DOMAIN s : s[i].pkg # e.pkg
      BY <1>6 DEF ToSet
    <2>. QED  BY <1>1, <1>2, <1>3, <1>6, <2>1 DEF Once
  <1>. QED  BY <1>1, <1>5, <1>6 DEF t

(* The recursion of Without, up to an index. *)
IsKeep(keep, entries, pkg, n) ==
    keep = [i \in 0..n |->
               IF i = 0 THEN <<>>
               ELSE IF entries[i].pkg = pkg THEN keep[i - 1]
               ELSE Append(keep[i - 1], entries[i])]

(* There is a function as that recursion has it. *)
LEMMA KeepExists ==
    ASSUME NEW entries, NEW pkg, NEW m \in Nat
    PROVE  \E keep : IsKeep(keep, entries, pkg, m)
  <1>. DEFINE Has(n) == \E keep : IsKeep(keep, entries, pkg, n)
              Bad == {n \in Nat : ~Has(n)}
  <1>1. Bad \in SUBSET Nat
    OBVIOUS
  <1>2. ASSUME Bad # {} PROVE FALSE
    <2>. HIDE DEF Bad
    <2>1. PICK n \in Bad : \A k \in Bad : n <= k
      BY <1>1, <1>2, LeastNumber
    <2>. USE DEF Bad
    <2>2. n # 0
      <3>. DEFINE g == [i \in 0..0 |-> <<>>]
      <3>1. IsKeep(g, entries, pkg, 0)
        BY DEF IsKeep
      <3>. QED  BY <2>1, <3>1
    <2>3. n \in Nat /\ n - 1 \in Nat /\ ~(n <= n - 1)
      BY <2>1, <2>2
    <2>4. Has(n - 1)
      BY <2>1, <2>3
    <2>5. PICK h : IsKeep(h, entries, pkg, n - 1)
      BY <2>4
    <2>. DEFINE x == IF entries[n].pkg = pkg THEN h[n - 1]
                     ELSE Append(h[n - 1], entries[n])
                g == [i \in 0..n |-> IF i = n THEN x ELSE h[i]]
    <2>6. ASSUME NEW i \in 0..n
          PROVE  g[i] = IF i = 0 THEN <<>>
                        ELSE IF entries[i].pkg = pkg THEN g[i - 1]
                        ELSE Append(g[i - 1], entries[i])
      <3>1. CASE i = n
        <4>1. g[i] = x /\ g[i - 1] = h[n - 1]
          BY <2>3, <3>1
        <4>. QED  BY <2>2, <3>1, <4>1
      <3>2. CASE i # n /\ i # 0
        <4>1. i \in 0..(n - 1) /\ i - 1 \in 0..n /\ i - 1 # n
          BY <2>3, <3>2
        <4>2. g[i] = h[i] /\ g[i - 1] = h[i - 1]
          BY <3>2, <4>1
        <4>3. h[i] = IF entries[i].pkg = pkg THEN h[i - 1]
                     ELSE Append(h[i - 1], entries[i])
          BY <2>5, <3>2, <4>1 DEF IsKeep
        <4>. QED  BY <3>2, <4>2, <4>3
      <3>3. CASE i = 0
        <4>1. 0 \in 0..(n - 1)
          BY <2>3
        <4>2. g[0] = h[0] /\ h[0] = <<>>
          BY <2>2, <2>5, <3>3, <4>1 DEF IsKeep
        <4>. QED  BY <3>3, <4>2
      <3>. QED  BY <3>1, <3>2, <3>3
    <2>7. IsKeep(g, entries, pkg, n)
      <3>1. g = [i \in 0..n |-> g[i]]
        OBVIOUS
      <3>. HIDE DEF g
      <3>. QED  BY <2>6, <3>1 DEF IsKeep
    <2>. HIDE DEF g
    <2>. QED  BY <2>1, <2>7
  <1>. QED  BY <1>2

(* What a removal keeps. *)
LEMMA Kept ==
    ASSUME NEW s \in Seq(Entries), NEW pkg
    PROVE  /\ Without(s, pkg) \in Seq(Entries)
           /\ ToSet(Without(s, pkg)) = {e \in ToSet(s) : e.pkg # pkg}
           /\ Once(s) => Once(Without(s, pkg))
  <1>1. DOMAIN s = 1..Len(s) /\ Len(s) \in Nat /\ \A i \in DOMAIN s : s[i] \in Entries
    BY Lists
  <1>2. PICK g : IsKeep(g, s, pkg, Len(s)) /\ Without(s, pkg) = g[Len(s)]
    <2>. DEFINE E(keep) == keep = [i \in 0..Len(s) |->
                               IF i = 0 THEN <<>>
                               ELSE IF s[i].pkg = pkg THEN keep[i - 1]
                               ELSE Append(keep[i - 1], s[i])]
    <2>1. Without(s, pkg) = (CHOOSE keep : E(keep))[Len(s)]
      BY DEF Without
    <2>2. \A keep : E(keep) <=> IsKeep(keep, s, pkg, Len(s))
      BY DEF IsKeep
    <2>. HIDE DEF E
    <2>3. \E keep : E(keep)
      BY <1>1, <2>2, KeepExists
    <2>4. E(CHOOSE keep : E(keep))
      BY <2>3
    <2>. QED  BY <2>1, <2>2, <2>4
  <1>. DEFINE Upto(n) == {s[i] : i \in {k \in 1..n : s[k].pkg # pkg}}
              Good(n) == /\ g[n] \in Seq(Entries) /\ ToSet(g[n]) = Upto(n)
                         /\ Once(s) => Once(g[n])
              Bad == {n \in 0..Len(s) : ~Good(n)}
  <1>3. Good(0)
    <2>1. g[0] = <<>>
      BY <1>1, <1>2 DEF IsKeep
    <2>2. ToSet(<<>>) = {} /\ Once(<<>>) /\ <<>> \in Seq(Entries)
      BY DEF ToSet, Once
    <2>3. Upto(0) = {}
      OBVIOUS
    <2>. QED  BY <2>1, <2>2, <2>3
  <1>4. ASSUME NEW n \in 1..Len(s), Good(n - 1)
        PROVE  Good(n)
    <2>1. n \in 0..Len(s) /\ n # 0 /\ n \in DOMAIN s /\ s[n] \in Entries
      BY <1>1
    <2>2. g[n] = IF s[n].pkg = pkg THEN g[n - 1] ELSE Append(g[n - 1], s[n])
      BY <1>2, <2>1 DEF IsKeep
    <2>3. \A k : k \in 1..n <=> k \in 1..(n - 1) \/ k = n
      BY <1>1
    <2>4. CASE s[n].pkg = pkg
      <3>1. Upto(n) = Upto(n - 1)
        BY <2>3, <2>4
      <3>. HIDE DEF Upto
      <3>. QED  BY <1>4, <2>2, <2>4, <3>1
    <2>5. CASE s[n].pkg # pkg
      <3>1. Upto(n) = Upto(n - 1) \cup {s[n]}
        BY <2>3, <2>5
      <3>2. Once(s) => \A f \in Upto(n - 1) : f.pkg # s[n].pkg
        <4>1. ASSUME NEW k \in 1..(n - 1) PROVE k \in DOMAIN s /\ k # n
          BY <1>1
        <4>. QED  BY <2>1, <4>1 DEF Once
      <3>. HIDE DEF Upto
      <3>. QED  BY <1>4, <2>1, <2>2, <2>5, <3>1, <3>2, Appended
    <2>. QED  BY <2>4, <2>5
  <1>. HIDE DEF Good
  <1>5. ASSUME Bad # {} PROVE FALSE
    <2>1. Bad \in SUBSET Nat
      OBVIOUS
    <2>. HIDE DEF Bad
    <2>2. PICK n \in Bad : \A k \in Bad : n <= k
      BY <1>5, <2>1, LeastNumber
    <2>. USE DEF Bad
    <2>3. n # 0
      BY <1>3, <2>2
    <2>4. n \in 1..Len(s) /\ n - 1 \in 0..Len(s) /\ ~(n <= n - 1)
      BY <1>1, <2>2, <2>3
    <2>5. Good(n - 1)
      BY <2>2, <2>4
    <2>. QED  BY <1>4, <2>2, <2>4, <2>5
  <1>6. Good(Len(s))
    BY <1>1, <1>5
  <1>7. Upto(Len(s)) = {e \in ToSet(s) : e.pkg # pkg}
    BY <1>1 DEF ToSet
  <1>. QED  BY <1>2, <1>6, <1>7 DEF Good

(* Replacing the entries of a package by one of the same package. *)
Put(s, e) == [i \in DOMAIN s |-> IF s[i].pkg = e.pkg THEN e ELSE s[i]]

(* What it leaves and what it puts in. *)
LEMMA PutIn ==
    ASSUME NEW s \in Seq(Entries), NEW e \in Entries
    PROVE  /\ Put(s, e) \in Seq(Entries)
           /\ \A f \in ToSet(Put(s, e)) : f = e \/ (f \in ToSet(s) /\ f.pkg # e.pkg)
           /\ \A f \in ToSet(s) : f.pkg # e.pkg => f \in ToSet(Put(s, e))
           /\ \A f \in ToSet(s) : f.pkg = e.pkg => e \in ToSet(Put(s, e))
           /\ Once(s) => Once(Put(s, e))
  <1>1. DOMAIN s = 1..Len(s) /\ Len(s) \in Nat /\ \A i \in DOMAIN s : s[i] \in Entries
    BY Lists
  <1>. DEFINE t == Put(s, e)
  <1>2. DOMAIN t = DOMAIN s /\ t = [i \in 1..Len(s) |-> t[i]]
    BY <1>1 DEF Put
  <1>3. \A i \in DOMAIN s : /\ t[i] = IF s[i].pkg = e.pkg THEN e ELSE s[i]
                            /\ t[i] \in Entries /\ t[i].pkg = s[i].pkg
    BY <1>1 DEF Put
  <1>. HIDE DEF t
  <1>4. t \in Seq(Entries)
    BY <1>1, <1>2, <1>3
  <1>5. ASSUME Once(s) PROVE Once(t)
    <2>1. \A i \in DOMAIN s : t[i].pkg = s[i].pkg
      BY <1>3
    <2>. SUFFICES ASSUME NEW i \in DOMAIN t, NEW k \in DOMAIN t, t[i].pkg = t[k].pkg
                  PROVE  i = k
      BY DEF Once
    <2>2. s[i].pkg = s[k].pkg
      BY <1>2, <2>1
    <2>. QED  BY <1>2, <1>5, <2>2 DEF Once
  <1>6. \A f \in ToSet(t) : f = e \/ (f \in ToSet(s) /\ f.pkg # e.pkg)
    BY <1>2, <1>3 DEF ToSet
  <1>7. /\ \A f \in ToSet(s) : f.pkg # e.pkg => f \in ToSet(t)
        /\ \A f \in ToSet(s) : f.pkg = e.pkg => e \in ToSet(t)
    BY <1>2, <1>3 DEF ToSet
  <1>. QED  BY <1>4, <1>5, <1>6, <1>7 DEF t

(* Entries that are checked one by one are checked as a whole. *)
LEMMA FineFrom ==
    ASSUME NEW contracts, NEW loners, NEW s, Fine(s, contracts, loners),
           NEW t \in Seq(Entries), NEW e \in Entries,
           \A f \in ToSet(t) : f = e \/ f \in ToSet(s),
           e \in ToSet(t) => Sound(e, contracts, loners) /\ ~getConflict(e, s)
    PROVE  Fine(t, contracts, loners)
  <1>1. \A a, b : Collide(a, b) <=> Collide(b, a)
    BY DEF Collide
  <1>2. \A f \in ToSet(t) : Sound(f, contracts, loners) /\ f.path[1] \notin Reserved
                         /\ f.name \notin Reserved
    BY DEF Fine, getConflict
  <1>3. ASSUME NEW f \in ToSet(t), NEW g \in ToSet(t), f.pkg # g.pkg
        PROVE  ~Collide(f.path, g.path)
    <2>1. CASE f = e
      BY <1>3, <2>1 DEF getConflict
    <2>2. CASE g = e
      BY <1>1, <1>3, <2>2 DEF getConflict
    <2>3. CASE f \in ToSet(s) /\ g \in ToSet(s)
      BY <1>3, <2>3 DEF Fine, getConflict
    <2>. QED  BY <2>1, <2>2, <2>3
  <1>. QED  BY <1>2, <1>3 DEF Fine, getConflict

(* Checked lists stay checked when an entry that was checked is added, *)
LEMMA FineAppended ==
    ASSUME NEW contracts, NEW loners, NEW s, Fine(s, contracts, loners),
           NEW e \in Entries, Sound(e, contracts, loners), ~getConflict(e, s)
    PROVE  Fine(Append(s, e), contracts, loners)
  <1>1. s \in Seq(Entries)
    BY DEF Fine
  <1>2. Append(s, e) \in Seq(Entries) /\ ToSet(Append(s, e)) = ToSet(s) \cup {e}
    BY <1>1, Appended
  <1>. QED  BY <1>2, FineFrom

(* when entries are taken out, *)
LEMMA FineKept ==
    ASSUME NEW contracts, NEW loners, NEW s, Fine(s, contracts, loners), NEW pkg
    PROVE  /\ Fine(Without(s, pkg), contracts, loners)
           /\ \A e : ~getConflict(e, s) => ~getConflict(e, Without(s, pkg))
           /\ \A e : e.pkg = pkg /\ ~getConflict(e, Without(s, pkg)) => ~getConflict(e, s)
  <1>1. s \in Seq(Entries)
    BY DEF Fine
  <1>. DEFINE t == Without(s, pkg)
  <1>2. t \in Seq(Entries) /\ ToSet(t) = {e \in ToSet(s) : e.pkg # pkg}
    BY <1>1, Kept
  <1>. HIDE DEF t
  <1>3. Fine(t, contracts, loners)
    BY <1>2 DEF Fine, getConflict
  <1>4. /\ \A e : ~getConflict(e, s) => ~getConflict(e, t)
        /\ \A e : e.pkg = pkg /\ ~getConflict(e, t) => ~getConflict(e, s)
    BY <1>2 DEF getConflict
  <1>. QED  BY <1>3, <1>4 DEF t

(* and when one that was checked takes the place of its package's. *)
LEMMA FinePut ==
    ASSUME NEW contracts, NEW loners, NEW s, Fine(s, contracts, loners),
           NEW e \in Entries, Sound(e, contracts, loners), ~getConflict(e, s)
    PROVE  Fine(Put(s, e), contracts, loners)
  <1>1. s \in Seq(Entries)
    BY DEF Fine
  <1>2. /\ Put(s, e) \in Seq(Entries)
        /\ \A f \in ToSet(Put(s, e)) : f = e \/ f \in ToSet(s)
    BY <1>1, PutIn
  <1>. QED  BY <1>2, FineFrom

(* The empty list, and a process without a command. *)
LEMMA Nothing ==
    /\ <<>> \in Seq(Entries) /\ ToSet(<<>>) = {} /\ Once(<<>>)
    /\ \A contracts, loners : Fine(<<>>, contracts, loners)
    /\ \A at \in Ended : Shaped(NoJob, at)
    /\ NoJob \in Jobs /\ NoJob.entries = <<>>
  <1>1. <<>> \in Seq(Entries) /\ ToSet(<<>>) = {} /\ Once(<<>>)
    BY DEF ToSet, Once
  <1>2. \A contracts, loners : Fine(<<>>, contracts, loners)
    BY <1>1 DEF Fine
  <1>3. \A at \in Ended : Shaped(NoJob, at)
    BY DEF Shaped, NoJob, Ended
  <1>4. NoJob \in Jobs /\ NoJob.entries = <<>>
    BY <1>1 DEF NoJob, Jobs
  <1>. QED  BY <1>1, <1>2, <1>3, <1>4

-----------------------------------------------------------------------------
(* A step of a process leaves it at a place with a job.                    *)

Places == Ended \cup {"install", "validate", "rollback", "write", "writing",
                      "uninstall", "look", "apply", "applied"}
Homes == [Packages -> Versions \cup {None}]

Moves(p, at, j, reg, home) ==
    /\ pc' = [pc EXCEPT ![p] = at] /\ job' = [job EXCEPT ![p] = j]
    /\ registry' = reg /\ installed' = home
    /\ UNCHANGED <<contract, alone, latest, env>>

(* What it must see to, for the invariant. *)
Keeps(p, at, j, reg, home) ==
    /\ at \in Places /\ j \in Jobs /\ home \in Homes
    /\ reg \in Seq(Entries) \cup {Torn}
    /\ Shaped(j, at)
    /\ reg # Torn => Fine(reg, contract, alone)
    /\ Fine(j.entries, contract, alone)
    /\ Careful =>
          /\ pc[p] \in Ended => AtRest
          /\ reg # Torn => Once(reg)
          /\ Once(j.entries) /\ Adding(j, at, home)
    /\ Orderly =>
          /\ at \in Ended => reg # Torn /\ Matches(reg, home)
          /\ Ordered(j, at, reg, home)

(* Such a step keeps the invariant: other processes keep their own parts. *)
LEMMA MovesKeep ==
    ASSUME IInv, NEW p \in Procs, NEW at, NEW j, NEW reg, NEW home,
           Moves(p, at, j, reg, home), Keeps(p, at, j, reg, home),
           runs' \in 0..env.maxRuns
    PROVE  IInv'
  <1>1. /\ pc' \in [Procs -> Places] /\ job' \in [Procs -> Jobs]
        /\ pc'[p] = at /\ job'[p] = j
        /\ \A q \in Procs : q # p => pc'[q] = pc[q] /\ job'[q] = job[q]
        /\ registry' = reg /\ installed' = home
        /\ UNCHANGED <<contract, alone, latest, env>>
    BY DEF Moves, Keeps, IInv, TypeOK, Places
  <1>2. TypeOK'
    BY <1>1 DEF Keeps, IInv, TypeOK, Places, Homes
  <1>3. ShapeInv'
    BY <1>1 DEF Keeps, IInv, ShapeInv
  <1>4. FineInv'
    BY <1>1 DEF Keeps, IInv, FineInv
  <1>5. Namesakes' = Namesakes
    BY <1>1 DEF Namesakes, Called
  <1>6. ASSUME Careful
        PROVE  /\ \A q \in Procs : q # p => pc[q] \in Ended
               /\ OnceInv'
    <2>1. OnceInv
      BY <1>6 DEF IInv
    <2>2. \A q \in Procs : q # p => pc[q] \in Ended
      <3>1. CASE pc[p] \in Ended
        BY <1>6, <3>1 DEF Keeps, AtRest
      <3>2. CASE pc[p] \notin Ended
        BY <2>1, <3>2 DEF OnceInv, Single
      <3>. QED  BY <3>1, <3>2
    <2>3. Single'
      BY <1>1, <2>2 DEF Single
    <2>4. ASSUME NEW q \in Procs
          PROVE  Once(job'[q].entries) /\ Adding(job'[q], pc'[q], installed')
      <3>1. CASE q = p
        BY <1>1, <1>6, <3>1 DEF Keeps
      <3>2. CASE q # p
        BY <1>1, <2>1, <2>2, <3>2 DEF OnceInv, Adding, Ended
      <3>. QED  BY <3>1, <3>2
    <2>5. registry' # Torn => Once(registry')
      BY <1>1, <1>6 DEF Keeps
    <2>. QED  BY <2>2, <2>3, <2>4, <2>5 DEF OnceInv
  <1>7. ASSUME Orderly
        PROVE  OrderInv'
    <2>1. Careful
      BY <1>7 DEF Orderly, Careful
    <2>2. \A q \in Procs : q # p => pc'[q] \in Ended
      BY <1>1, <1>6, <2>1
    <2>3. ASSUME NEW q \in Procs
          PROVE  Ordered(job[q], pc[q], registry, installed)'
      <3>1. CASE q = p
        <4>1. Ordered(job'[q], pc'[q], registry', installed')
          BY <1>1, <1>7, <3>1 DEF Keeps
        <4>. QED  BY <1>5, <4>1 DEF Ordered, Matches, Before
      <3>2. CASE q # p
        BY <2>2, <3>2 DEF Ordered
      <3>. QED  BY <3>1, <3>2
    <2>4. AtRest' => (registry # Torn /\ Matches(registry, installed))'
      BY <1>1, <1>5, <1>7 DEF Keeps, AtRest, Matches
    <2>. QED  BY <2>3, <2>4 DEF OrderInv
  <1>8. (Careful' => OnceInv') /\ (Orderly' => OrderInv')
    <2>1. (Careful' => Careful) /\ (Orderly' => Orderly)
      BY <1>1 DEF Careful, Orderly
    <2>. QED  BY <1>6, <1>7, <2>1
  <1>. QED  BY <1>2, <1>3, <1>4, <1>8 DEF IInv

Sees(p) == \E at, j, reg, home : Moves(p, at, j, reg, home) /\ Keeps(p, at, j, reg, home)

(* What the invariant says of a process, its job and the tool home. *)
LEMMA Here ==
    ASSUME IInv, NEW p \in Procs, NEW j, j = job[p]
    PROVE  /\ j \in Jobs /\ j.entries \in Seq(Entries) /\ ToSet(j.entries) \subseteq Entries
           /\ Shaped(j, pc[p]) /\ Fine(j.entries, contract, alone)
           /\ registry \in Seq(Entries) \cup {Torn} /\ installed \in Homes
           /\ contract \in [Packages \X Versions -> Tools \cup {None}]
           /\ latest \in [Packages -> Versions]
           /\ registry # Torn => Fine(registry, contract, alone)
           /\ Careful => /\ Once(j.entries) /\ Adding(j, pc[p], installed)
                         /\ registry # Torn => Once(registry)
           /\ Orderly => Ordered(j, pc[p], registry, installed)
           /\ Orderly => Careful
  <1>1. j \in Jobs /\ j.entries \in Seq(Entries)
    BY DEF IInv, TypeOK, Jobs
  <1>2. ToSet(j.entries) \subseteq Entries
    BY <1>1, Lists
  <1>3. Orderly => Careful
    BY DEF Orderly, Careful
  <1>4. Shaped(j, pc[p]) /\ Fine(j.entries, contract, alone)
    BY DEF IInv, ShapeInv, FineInv
  <1>5. Careful => /\ Once(j.entries) /\ Adding(j, pc[p], installed)
                   /\ registry # Torn => Once(registry)
    BY DEF IInv, OnceInv
  <1>6. Orderly => Ordered(j, pc[p], registry, installed)
    BY DEF IInv, OrderInv
  <1>7. registry # Torn => Fine(registry, contract, alone)
    BY DEF IInv, FineInv
  <1>. QED  BY <1>1, <1>2, <1>3, <1>4, <1>5, <1>6, <1>7 DEF IInv, TypeOK,
       Homes

(* A command ends. *)
LEMMA EndSees ==
    ASSUME IInv, NEW p \in Procs, pc[p] \notin Ended, NEW how \in Ended,
           NEW reg \in Seq(Entries) \cup {Torn}, NEW home \in Homes,
           reg # Torn => Fine(reg, contract, alone),
           Careful => (reg # Torn => Once(reg)),
           Orderly => reg # Torn /\ Matches(reg, home),
           Moves(p, how, NoJob, reg, home)
    PROVE  Sees(p)
  <1>1. Keeps(p, how, NoJob, reg, home)
    BY Nothing DEF Keeps, Places, Adding, Ordered, Ended
  <1>. QED  BY <1>1 DEF Sees

(* A command ends in a tool home that it left as it was. *)
LEMMA EndsAsBefore ==
    ASSUME IInv, NEW p \in Procs, pc[p] \notin Ended \cup {"write", "writing"},
           NEW home \in Homes, Orderly => home = Before(job[p], pc[p], installed),
           NEW how \in Ended, Moves(p, how, NoJob, registry, home)
    PROVE  Sees(p)
  <1>0. PICK j : j = job[p]
    OBVIOUS
  <1>1. Orderly => registry # Torn /\ Matches(registry, home)
    BY <1>0, Here DEF Ordered
  <1>2. /\ registry \in Seq(Entries) \cup {Torn}
        /\ registry # Torn => Fine(registry, contract, alone)
        /\ Careful => (registry # Torn => Once(registry))
    BY <1>0, Here
  <1>. QED  BY <1>1, <1>2, EndSees

(* npm may have changed the package an add names, and no other. *)
LEMMA InstallSees ==
    ASSUME IInv, NEW p \in Procs, Install(p)
    PROVE  Sees(p)
  <1>0. PICK j : j = job[p]
    OBVIOUS
  <1>1. pc[p] = "install" /\ pc[p] \notin Ended
    BY DEF Install, Ended
  <1>2. /\ j \in Jobs /\ j.entries \in Seq(Entries) /\ ToSet(j.entries) \subseteq Entries
        /\ Shaped(j, "install") /\ Fine(j.entries, contract, alone)
        /\ registry \in Seq(Entries) \cup {Torn} /\ installed \in Homes
        /\ latest \in [Packages -> Versions]
        /\ registry # Torn => Fine(registry, contract, alone)
        /\ Careful => /\ Once(j.entries) /\ Adding(j, "install", installed)
                      /\ registry # Torn => Once(registry)
        /\ Orderly => Careful /\ Ordered(j, "install", registry, installed)
    BY <1>0, <1>1, Here
  <1>3. j.cmd = "add" /\ j.pkg \in Packages /\ j.before \in Homes
    BY <1>2 DEF Shaped, Homes
  <1>4. CASE End(p, "failed") /\ UNCHANGED installed
    <2>1. Moves(p, "failed", NoJob, registry, installed)
      BY <1>4 DEF Install, End, Moves
    <2>2. Before(job[p], pc[p], installed) = installed
      BY <1>1 DEF Before
    <2>. QED  BY <1>1, <1>2, <2>1, <2>2, EndsAsBefore DEF Ended
  <1>5. CASE /\ Npm(j.pkg, IF j.pin = None THEN latest[j.pkg] ELSE j.pin)
             /\ \E ch \in Changed(j) : job' = [job EXCEPT ![p].changed = ch]
             /\ pc' = [pc EXCEPT ![p] = "validate"]
    <2>1. PICK v : v = IF j.pin = None THEN latest[j.pkg] ELSE j.pin
      OBVIOUS
    <2>2. v \in Versions /\ v # None
      BY <1>2, <1>3, <2>1, NoneAssumption DEF Jobs
    <2>3. PICK home : home = [installed EXCEPT ![j.pkg] = v]
      OBVIOUS
    <2>4. home \in Homes /\ home[j.pkg] = v /\ installed' = home
      BY <1>2, <1>3, <1>5, <2>1, <2>2, <2>3 DEF Npm, Homes
    <2>5. PICK ch \in Changed(j) : job' = [job EXCEPT ![p].changed = ch]
      BY <1>5
    <2>6. /\ j.previous # None => ch = j.previous.pkg
          /\ j.previous = None =>
                \/ ch \in Packages /\ home[ch] \notin {None, j.before[ch]}
                \/ ch = None /\ \A x \in Packages : home[x] \in {None, j.before[x]}
      BY <2>4, <2>5 DEF Changed
    <2>7. ch \in Packages \cup {None}
      <3>1. j.previous \in Entries \cup {None}
        BY <1>2 DEF Jobs
      <3>. QED  BY <2>6, <3>1 DEF Entries
    <2>. DEFINE k == [j EXCEPT !.changed = ch]
    <2>8. /\ k \in Jobs /\ k.cmd = j.cmd /\ k.pkg = j.pkg /\ k.before = j.before
          /\ k.previous = j.previous /\ k.entries = j.entries /\ k.changed = ch
      BY <1>2, <2>7 DEF Jobs
    <2>9. job' = [job EXCEPT ![p] = k]
      BY <1>0, <2>5
    <2>. HIDE DEF k
    <2>10. Moves(p, "validate", k, registry, home)
      BY <1>5, <2>4, <2>9 DEF Install, Moves
    <2>11. Shaped(k, "validate")
      BY <1>3, <2>8 DEF Shaped, Ended, Homes
    <2>12. ASSUME Careful
           PROVE  /\ Adding(k, "validate", home)
                  /\ j.previous = None => ch \in {None, j.pkg}
                  /\ installed = j.before
                  /\ \A x \in Packages : x # j.pkg => home[x] = j.before[x]
      <3>1. /\ installed = j.before
            /\ j.previous = None \/ j.previous.pkg # j.pkg =>
                  \A e \in ToSet(j.entries) : e.pkg # j.pkg
        BY <1>2, <1>3, <2>12 DEF Adding
      <3>2. \A x \in Packages : x # j.pkg => home[x] = j.before[x]
        BY <1>3, <2>3, <3>1 DEF Homes
      <3>3. j.previous = None => ch \in {None, j.pkg}
        BY <2>6, <3>2
      <3>4. Adding(k, "validate", home)
        BY <2>6, <2>8, <3>1, <3>3 DEF Adding
      <3>. QED  BY <3>1, <3>2, <3>3, <3>4
    <2>13. ASSUME Orderly
           PROVE  Ordered(k, "validate", registry, home)
      <3>1. Careful
        BY <1>2, <2>13
      <3>2. /\ registry # Torn /\ registry = j.entries
            /\ Matches(j.entries, j.before)
            /\ j.previous # None => j.previous \in ToSet(j.entries)
            /\ j.previous # None /\ j.previous.pkg # j.pkg => j.pkg \in Namesakes
        BY <1>2, <1>3, <2>12, <2>13, <3>1 DEF Ordered, Before, Ended
      <3>3. j.previous # None => ch = j.previous.pkg /\ j.before[ch] = j.previous.version
        BY <2>6, <3>2 DEF Matches
      <3>4. home = [j.before EXCEPT ![j.pkg] = home[j.pkg]]
        BY <2>3, <2>4, <2>12, <3>1
      <3>5. j.previous = None => ch = j.pkg \/ (ch = None /\ home = j.before)
        <4>1. ASSUME j.previous = None, ch = None, ch # j.pkg
              PROVE  home = j.before
          <5>1. home[j.pkg] = j.before[j.pkg]
            BY <1>3, <2>2, <2>4, <2>6, <4>1, NoneAssumption
          <5>. QED  BY <1>3, <3>4, <5>1 DEF Homes
        <4>. QED  BY <2>12, <3>1, <4>1
      <3>6. Before(k, "validate", home) = j.before
        BY <1>3, <2>8 DEF Before
      <3>. QED  BY <2>8, <3>2, <3>3, <3>4, <3>5, <3>6 DEF Ordered
    <2>14. Keeps(p, "validate", k, registry, home)
      BY <1>1, <1>2, <2>4, <2>8, <2>11, <2>12, <2>13 DEF Keeps, Places, Ended
    <2>. QED  BY <2>10, <2>14 DEF Sees
  <1>. QED  BY <1>0, <1>4, <1>5 DEF Install

(* A version that is a tool has an entry. *)
LEMMA ToolEntry ==
    ASSUME TypeOK, NEW pkg \in Packages, NEW version \in Versions, Valid(pkg, version)
    PROVE  /\ contract[<<pkg, version>>] \in Tools
           /\ EntryOf(pkg, version) \in Entries
  <1>1. contract[<<pkg, version>>] \in Tools
    BY DEF Valid, TypeOK
  <1>. QED  BY <1>1 DEF EntryOf, Entries, Tools

(* A tool that loads has an entry. *)
LEMMA LoadedType ==
    ASSUME TypeOK, NEW pkg \in Packages, Loads(pkg)
    PROVE  /\ Loaded(pkg) \in Entries /\ Loaded(pkg).pkg = pkg
           /\ Loaded(pkg).version = installed[pkg]
           /\ Sound(Loaded(pkg), contract, alone)
  <1>1. installed[pkg] \in Versions /\ <<pkg, installed[pkg]>> \notin alone
    BY DEF Loads, Valid, TypeOK
  <1>2. EntryOf(pkg, installed[pkg]) \in Entries
        /\ contract[<<pkg, installed[pkg]>>] \in Tools
    BY <1>1, ToolEntry DEF Loads
  <1>. QED  BY <1>1, <1>2 DEF Loaded, EntryOf, Sound, Tools

(* A list stays checked when an add replaces or appends its entry. *)
LEMMA ReplacedIn ==
    ASSUME NEW contracts, NEW loners, NEW j \in Jobs, Fine(j.entries, contracts, loners),
           NEW e \in Entries, Sound(e, contracts, loners), ~getConflict(e, j.entries)
    PROVE  /\ Fine(Replaced(j, e), contracts, loners)
           /\ e \in ToSet(Replaced(j, e))
  <1>1. j.entries \in Seq(Entries)
    BY DEF Jobs
  <1>2. CASE j.previous = None
    <2>1. Replaced(j, e) = Append(j.entries, e)
      BY <1>2 DEF Replaced
    <2>. QED  BY <1>1, <1>2, <2>1, FineAppended, Appended
  <1>3. CASE j.previous # None
    <2>. DEFINE s == Without(j.entries, j.previous.pkg)
    <2>1. Replaced(j, e) = Append(s, e)
      BY <1>3 DEF Replaced
    <2>2. /\ s \in Seq(Entries)
          /\ Once(j.entries) => Once(s)
          /\ ToSet(s) = {f \in ToSet(j.entries) : f.pkg # j.previous.pkg}
      BY <1>1, Kept
    <2>3. Fine(s, contracts, loners) /\ ~getConflict(e, s)
      BY FineKept
    <2>. HIDE DEF s
    <2>. QED  BY <1>3, <2>1, <2>2, <2>3, FineAppended, Appended
  <1>. QED  BY <1>2, <1>3

(* Whether the add takes the place of an entry or not, its own is the only *)
(* one of the package.                                                     *)
LEMMA ReplacedOnce ==
    ASSUME NEW j, j.entries \in Seq(Entries), NEW e \in Entries,
           \/ j.previous # None /\ j.previous.pkg = e.pkg
           \/ j.previous = None /\ \A f \in ToSet(j.entries) : f.pkg # e.pkg
    PROVE  /\ Once(j.entries) => Once(Replaced(j, e))
           /\ ToSet(Replaced(j, e))
                 = {f \in ToSet(j.entries) : f.pkg # e.pkg} \cup {e}
  <1>1. CASE j.previous = None
    <2>1. Replaced(j, e) = Append(j.entries, e)
      BY <1>1 DEF Replaced
    <2>. QED  BY <1>1, <2>1, Appended
  <1>2. CASE j.previous # None
    <2>. DEFINE s == Without(j.entries, e.pkg)
    <2>1. Replaced(j, e) = Append(s, e)
      BY <1>2 DEF Replaced
    <2>2. /\ s \in Seq(Entries)
          /\ Once(j.entries) => Once(s)
          /\ ToSet(s) = {f \in ToSet(j.entries) : f.pkg # e.pkg}
      BY Kept
    <2>. HIDE DEF s
    <2>. QED  BY <2>1, <2>2, Appended
  <1>. QED  BY <1>1, <1>2

(* An add that goes on to write has loaded and checked its entry. *)
LEMMA ValidateSees ==
    ASSUME IInv, NEW p \in Procs, Validate(p)
    PROVE  Sees(p)
  <1>0. PICK j : j = job[p]
    OBVIOUS
  <1>1. pc[p] = "validate" /\ pc[p] \notin Ended
    BY DEF Validate, Ended
  <1>2. /\ j \in Jobs /\ j.entries \in Seq(Entries) /\ ToSet(j.entries) \subseteq Entries
        /\ Shaped(j, "validate") /\ Fine(j.entries, contract, alone)
        /\ registry \in Seq(Entries) \cup {Torn} /\ installed \in Homes
        /\ registry # Torn => Fine(registry, contract, alone)
        /\ Careful => /\ Once(j.entries) /\ Adding(j, "validate", installed)
                      /\ registry # Torn => Once(registry)
        /\ Orderly => Careful /\ Ordered(j, "validate", registry, installed)
    BY <1>0, <1>1, Here
  <1>3. j.cmd = "add" /\ j.pkg \in Packages /\ j.before \in Homes
    BY <1>2 DEF Shaped, Homes
  <1>4. CASE GoTo(p, "rollback")
    <2>1. Moves(p, "rollback", j, registry, installed)
      BY <1>0, <1>4 DEF Validate, GoTo, Moves, IInv, TypeOK
    <2>2. Shaped(j, "rollback")
      BY <1>3 DEF Shaped, Ended, Homes
    <2>3. Careful => Adding(j, "rollback", installed)
      BY <1>2, <1>3 DEF Adding
    <2>4. Orderly => Ordered(j, "rollback", registry, installed)
      <3>1. Before(j, "rollback", installed) = Before(j, "validate", installed)
        BY <1>3 DEF Before
      <3>. QED  BY <1>2, <3>1 DEF Ordered, Ended
    <2>5. Keeps(p, "rollback", j, registry, installed)
      BY <1>1, <1>2, <2>2, <2>3, <2>4 DEF Keeps, Places, Ended
    <2>. QED  BY <2>1, <2>5 DEF Sees
  <1>5. ASSUME Target(j) # None, Loads(Target(j)),
               ~getConflict(Loaded(Target(j)), j.entries),
               Save(p, Replaced(j, Loaded(Target(j))))
        PROVE  Sees(p)
    <2>1. PICK pkg : pkg = Target(j)
      OBVIOUS
    <2>2. pkg \in Packages
      BY <1>2, <1>5, <2>1 DEF Target, Jobs
    <2>3. PICK e : e = Loaded(pkg)
      OBVIOUS
    <2>4. /\ e \in Entries /\ e.pkg = pkg /\ e.version = installed[pkg]
          /\ Sound(e, contract, alone) /\ ~getConflict(e, j.entries)
      BY <1>5, <2>1, <2>2, <2>3, LoadedType DEF IInv
    <2>5. PICK s : s = Replaced(j, e)
      OBVIOUS
    <2>6. Fine(s, contract, alone) /\ s \in Seq(Entries) /\ e \in ToSet(s)
      BY <1>2, <2>4, <2>5, ReplacedIn DEF Fine
    <2>. DEFINE k == [j EXCEPT !.entries = s]
    <2>7. /\ k \in Jobs /\ k.cmd = j.cmd /\ k.pkg = j.pkg /\ k.before = j.before
          /\ k.previous = j.previous /\ k.entries = s
      BY <1>2, <2>6 DEF Jobs
    <2>8. job' = [job EXCEPT ![p] = k]
      BY <1>0, <1>5, <2>1, <2>3, <2>5 DEF Save
    <2>. HIDE DEF k
    <2>9. Moves(p, "write", k, registry, installed)
      BY <1>5, <2>8 DEF Validate, Save, Moves
    <2>10. Shaped(k, "write") /\ Adding(k, "write", installed)
      BY <1>3, <2>7 DEF Shaped, Ended, Homes, Adding
    <2>11. ASSUME Careful
           PROVE  /\ Once(s)
                  /\ ToSet(s) = {f \in ToSet(j.entries) : f.pkg # pkg} \cup {e}
                  /\ pkg = IF j.previous = None THEN j.pkg ELSE j.previous.pkg
                  /\ pkg # j.pkg => \A f \in ToSet(j.entries) : f.pkg # j.pkg
      <3>1. /\ Once(j.entries)
            /\ j.changed \in IF j.previous = None THEN {None, j.pkg} ELSE {j.previous.pkg}
            /\ j.previous = None \/ j.previous.pkg # j.pkg =>
                  \A f \in ToSet(j.entries) : f.pkg # j.pkg
        BY <1>2, <1>3, <2>11 DEF Adding
      <3>2. pkg = IF j.previous = None THEN j.pkg ELSE j.previous.pkg
        <4>1. j.previous # None => j.previous.pkg # None
          BY <1>2, NoneAssumption DEF Jobs, Entries
        <4>. QED  BY <1>5, <2>1, <3>1, <4>1 DEF Target
      <3>3. \/ j.previous # None /\ j.previous.pkg = e.pkg
            \/ j.previous = None /\ \A f \in ToSet(j.entries) : f.pkg # e.pkg
        BY <2>4, <3>1, <3>2
      <3>4. /\ Once(j.entries) => Once(s)
            /\ ToSet(s) = {f \in ToSet(j.entries) : f.pkg # e.pkg} \cup {e}
        BY <1>2, <2>4, <2>5, <3>3, ReplacedOnce
      <3>. QED  BY <2>4, <3>1, <3>2, <3>4
    <2>12. ASSUME Orderly
           PROVE  Ordered(k, "write", registry, installed)
      <3>1. /\ registry # Torn /\ Matches(j.entries, j.before)
            /\ installed = [j.before EXCEPT ![j.pkg] = installed[j.pkg]]
            /\ j.previous # None /\ j.previous.pkg # j.pkg => j.pkg \in Namesakes
        BY <1>2, <1>3, <2>12 DEF Ordered, Before, Ended
      <3>2. \A x \in Packages : x # j.pkg => installed[x] = j.before[x]
        BY <1>3, <3>1 DEF Homes
      <3>3. \A f \in ToSet(s) : installed[f.pkg] = f.version
        <4>1. ASSUME NEW f \in ToSet(j.entries), f.pkg # pkg
              PROVE  installed[f.pkg] = f.version
          <5>1. f.pkg # j.pkg /\ f.pkg \in Packages
            BY <1>2, <2>11, <2>12, <4>1 DEF Entries
          <5>. QED  BY <3>1, <3>2, <5>1 DEF Matches
        <4>. QED  BY <1>2, <2>4, <2>11, <2>12, <4>1
      <3>4. ASSUME NEW x \in Packages, installed[x] # None
            PROVE  x \in Namesakes \/ \E f \in ToSet(s) : f.pkg = x
        <4>1. CASE x = pkg
          BY <2>4, <2>6, <4>1
        <4>2. CASE x # pkg /\ x # j.pkg
          <5>1. j.before[x] # None
            BY <3>2, <3>4, <4>2
          <5>. QED  BY <1>2, <2>11, <2>12, <3>1, <4>2, <5>1 DEF Matches
        <4>3. CASE x # pkg /\ x = j.pkg
          BY <1>2, <2>11, <2>12, <3>1, <4>3
        <4>. QED  BY <4>1, <4>2, <4>3
      <3>5. Matches(s, installed)
        BY <3>3, <3>4 DEF Matches
      <3>. QED  BY <2>7, <3>1, <3>5 DEF Ordered, Before
    <2>13. Keeps(p, "write", k, registry, installed)
      BY <1>1, <1>2, <2>6, <2>7, <2>10, <2>11, <2>12 DEF Keeps, Places, Ended
    <2>. QED  BY <2>9, <2>13 DEF Sees
  <1>. QED  BY <1>0, <1>4, <1>5 DEF Validate

(* An update goes on to look at its next target. *)
LEMMA LookOnSees ==
    ASSUME IInv, NEW p \in Procs, pc[p] \notin Ended,
           NEW k \in Jobs, k.cmd = "update", Fine(k.entries, contract, alone),
           NEW reg \in Seq(Entries) \cup {Torn}, NEW home \in Homes,
           reg # Torn => Fine(reg, contract, alone),
           Careful => Once(k.entries) /\ (reg # Torn => Once(reg)),
           Orderly => reg # Torn /\ reg = k.entries /\ Matches(reg, home),
           Moves(p, "look", k, reg, home)
    PROVE  Sees(p)
  <1>1. Shaped(k, "look") /\ Adding(k, "look", home)
    BY DEF Shaped, Adding, Ended
  <1>2. Orderly => Ordered(k, "look", reg, home)
    BY DEF Ordered, Before
  <1>3. Keeps(p, "look", k, reg, home)
    BY <1>1, <1>2 DEF Keeps, Places, Ended
  <1>. QED  BY <1>3 DEF Sees

(* An update that goes on to its next target starts from the same entries. *)
LEMMA ContinueSees ==
    ASSUME IInv, NEW p \in Procs, pc[p] \notin Ended, job[p].cmd = "update",
           NEW reg \in Seq(Entries) \cup {Torn}, NEW home \in Homes,
           reg # Torn => Fine(reg, contract, alone),
           Careful => (reg # Torn => Once(reg)),
           Orderly => reg # Torn /\ reg = job[p].entries /\ Matches(reg, home),
           Continue(p), registry' = reg, installed' = home,
           UNCHANGED <<contract, alone, latest, env>>
    PROVE  Sees(p)
  <1>0. PICK j : j = job[p]
    OBVIOUS
  <1>1. /\ j \in Jobs /\ Fine(j.entries, contract, alone)
        /\ Careful => Once(j.entries)
    BY <1>0, Here
  <1>2. CASE End(p, "done")
    <2>1. Moves(p, "done", NoJob, reg, home)
      BY <1>2 DEF End, Moves
    <2>. QED  BY <2>1, EndSees DEF Ended
  <1>3. CASE ~End(p, "done")
    <2>1. PICK left \in SUBSET Packages :
              /\ pc' = [pc EXCEPT ![p] = "look"]
              /\ job' = [job EXCEPT ![p].todo = left, ![p].previous = None,
                                    ![p].next = None]
      BY <1>0, <1>1, <1>3 DEF Continue, Jobs
    <2>. DEFINE k == [j EXCEPT !.todo = left, !.previous = None, !.next = None]
    <2>2. k \in Jobs /\ k.cmd = "update" /\ k.entries = j.entries
      BY <1>0, <1>1 DEF Jobs
    <2>3. job' = [job EXCEPT ![p] = k]
      BY <1>0, <2>1
    <2>. HIDE DEF k
    <2>4. Moves(p, "look", k, reg, home)
      BY <2>1, <2>3 DEF Moves
    <2>5. Fine(k.entries, contract, alone)
          /\ (Careful => Once(k.entries) /\ (reg # Torn => Once(reg)))
      BY <1>1, <2>2
    <2>6. Orderly => reg # Torn /\ reg = k.entries /\ Matches(reg, home)
      BY <1>0, <2>2
    <2>. QED  BY <2>2, <2>4, <2>5, <2>6, LookOnSees
  <1>. QED  BY <1>2, <1>3

(* A rollback puts the tool home back to what the registry says. *)
LEMMA RollbackSees ==
    ASSUME IInv, NEW p \in Procs, Rollback(p)
    PROVE  Sees(p)
  <1>0. PICK j : j = job[p]
    OBVIOUS
  <1>1. pc[p] = "rollback" /\ pc[p] \notin Ended
    BY DEF Rollback, Ended
  <1>2. /\ j \in Jobs /\ j.entries \in Seq(Entries) /\ ToSet(j.entries) \subseteq Entries
        /\ Shaped(j, "rollback") /\ Fine(j.entries, contract, alone)
        /\ registry \in Seq(Entries) \cup {Torn} /\ installed \in Homes
        /\ contract \in [Packages \X Versions -> Tools \cup {None}]
        /\ latest \in [Packages -> Versions]
        /\ registry # Torn => Fine(registry, contract, alone)
        /\ Careful => /\ Once(j.entries) /\ Adding(j, "rollback", installed)
                      /\ registry # Torn => Once(registry)
        /\ Orderly => Careful /\ Ordered(j, "rollback", registry, installed)
    BY <1>0, <1>1, Here
  <1>3. PICK home : home = installed'
    OBVIOUS
  <1>4. /\ j.cmd \in {"add", "update"}
        /\ j.cmd = "add" => j.pkg \in Packages /\ j.before \in Homes
        /\ j.cmd = "update" => j.previous \in Entries
    BY <1>2 DEF Shaped, Homes
  <1>5. Undo(j) \/ (env.rollbackFails /\ home = installed)
    BY <1>0, <1>3 DEF Rollback
  <1>6. home \in Homes
    <2>1. ASSUME NEW x, NEW v \in Versions \cup {None}, Npm(x, v)
          PROVE  home \in Homes
      BY <1>2, <1>3, <2>1 DEF Npm, Homes
    <2>2. CASE j.cmd = "add" /\ UndoAdd(j)
      <3>1. j.previous # None => j.previous.version \in Versions
        BY <1>2 DEF Jobs, Entries
      <3>. QED  BY <1>2, <1>3, <2>1, <2>2, <3>1 DEF UndoAdd
    <2>3. CASE j.cmd = "update" /\ UndoUpdate(j)
      <3>1. j.previous.version \in Versions
        BY <1>4, <2>3 DEF Entries
      <3>. QED  BY <2>1, <2>3, <3>1 DEF UndoUpdate
    <2>. QED  BY <1>2, <1>4, <1>5, <2>2, <2>3 DEF Undo
  <1>7. CASE j.cmd = "add"
    <2>1. ASSUME Orderly
          PROVE  registry # Torn /\ Matches(registry, home)
      <3>1. UndoAdd(j)
        BY <1>5, <1>7, <2>1 DEF Orderly, Undo
      <3>2. /\ installed = [j.before EXCEPT ![j.pkg] = installed[j.pkg]]
            /\ j.previous = None =>
                  j.changed = j.pkg \/ (j.changed = None /\ installed = j.before)
            /\ j.previous # None => j.before[j.previous.pkg] = j.previous.version
            /\ j.previous # None /\ j.previous.pkg # j.pkg => j.pkg \in Namesakes
            /\ registry # Torn /\ registry = j.entries
            /\ Matches(j.entries, j.before)
        BY <1>2, <1>7, <2>1 DEF Ordered, Ended, Before
      <3>3. j.previous = None \/ j.previous.pkg # j.pkg =>
               \A e \in ToSet(j.entries) : e.pkg # j.pkg
        BY <1>2, <1>7, <2>1 DEF Adding
      <3>4. \A x \in Packages : x # j.pkg => installed[x] = j.before[x]
        BY <1>4, <1>7, <3>2 DEF Homes
      <3>5. j.previous \in Entries \cup {None} /\ (j.previous # None => j.previous.pkg \in Packages)
        BY <1>2 DEF Jobs, Entries
      <3>6. /\ \A x \in Packages : x # j.pkg => home[x] = j.before[x]
            /\ \/ home[j.pkg] \in {None, j.before[j.pkg]}
               \/ j.pkg \in Namesakes
            /\ (\E e \in ToSet(j.entries) : e.pkg = j.pkg) => home[j.pkg] = j.before[j.pkg]
        <4>1. CASE j.previous # None
          <5>1. home = [installed EXCEPT ![j.previous.pkg] = j.previous.version]
            BY <1>3, <3>1, <4>1 DEF UndoAdd, Npm
          <5>2. \A x \in Packages : home[x] = IF x = j.previous.pkg
                                              THEN j.previous.version ELSE installed[x]
            BY <1>2, <5>1 DEF Homes
          <5>. QED  BY <1>4, <1>7, <3>2, <3>3, <3>4, <4>1, <5>2
        <4>2. CASE j.previous = None /\ j.changed # None
          <5>1. home = [installed EXCEPT ![j.pkg] = None]
            BY <1>3, <3>1, <3>2, <4>2 DEF UndoAdd, Npm
          <5>2. \A x \in Packages : home[x] = IF x = j.pkg THEN None ELSE installed[x]
            BY <1>2, <5>1 DEF Homes
          <5>. QED  BY <1>4, <1>7, <3>3, <3>4, <4>2, <5>2
        <4>3. CASE j.previous = None /\ j.changed = None
          <5>1. home = installed
            BY <1>3, <3>1, <4>3 DEF UndoAdd
          <5>2. installed = j.before
            BY <1>4, <1>7, <3>2, <4>3, NoneAssumption
          <5>. QED  BY <1>4, <1>7, <5>1, <5>2
        <4>. QED  BY <4>1, <4>2, <4>3
      <3>7. ASSUME NEW e \in ToSet(j.entries)
            PROVE  home[e.pkg] = e.version
        <4>1. e.pkg \in Packages /\ j.before[e.pkg] = e.version
          BY <1>2, <3>2 DEF Entries, Matches
        <4>. QED  BY <3>6, <4>1
      <3>8. ASSUME NEW x \in Packages, home[x] # None
            PROVE  x \in Namesakes \/ \E e \in ToSet(j.entries) : e.pkg = x
        BY <3>2, <3>6, <3>8 DEF Matches
      <3>. QED  BY <3>2, <3>7, <3>8 DEF Matches
    <2>2. Moves(p, "failed", NoJob, registry, home)
      BY <1>0, <1>3, <1>7 DEF Rollback, End, Moves
    <2>. QED  BY <1>1, <1>2, <1>6, <2>1, <2>2, EndSees DEF Ended
  <1>8. CASE j.cmd = "update"
    <2>1. ASSUME Orderly
          PROVE  registry # Torn /\ registry = j.entries /\ Matches(registry, home)
      <3>1. UndoUpdate(j)
        BY <1>5, <1>8, <2>1 DEF Orderly, Undo
      <3>2. home = [installed EXCEPT ![j.previous.pkg] = j.previous.version]
        BY <1>3, <3>1 DEF UndoUpdate, Npm
      <3>3. Before(j, "rollback", installed) = home
        BY <1>8, <3>2 DEF Before
      <3>. QED  BY <1>2, <2>1, <3>3 DEF Ordered, Ended
    <2>2. Continue(p) /\ registry' = registry /\ UNCHANGED <<contract, alone, latest, env>>
      BY <1>0, <1>8 DEF Rollback
    <2>. QED  BY <1>0, <1>1, <1>2, <1>3, <1>6, <1>8, <2>1, <2>2, ContinueSees
  <1>. QED  BY <1>4, <1>7, <1>8

(* While it is written, the registry is torn. *)
LEMMA TruncateSees ==
    ASSUME IInv, NEW p \in Procs, Truncate(p)
    PROVE  Sees(p)
  <1>0. PICK j : j = job[p]
    OBVIOUS
  <1>1. pc[p] = "write" /\ pc[p] \notin Ended
    BY DEF Truncate, Ended
  <1>2. /\ j \in Jobs /\ j.entries \in Seq(Entries) /\ ToSet(j.entries) \subseteq Entries
        /\ Shaped(j, "write") /\ Fine(j.entries, contract, alone)
        /\ registry \in Seq(Entries) \cup {Torn} /\ installed \in Homes
        /\ contract \in [Packages \X Versions -> Tools \cup {None}]
        /\ latest \in [Packages -> Versions]
        /\ registry # Torn => Fine(registry, contract, alone)
        /\ Careful => /\ Once(j.entries) /\ Adding(j, "write", installed)
                      /\ registry # Torn => Once(registry)
        /\ Orderly => Careful /\ Ordered(j, "write", registry, installed)
    BY <1>0, <1>1, Here
  <1>3. Moves(p, "writing", j, Torn, installed)
    BY <1>0 DEF Truncate, GoTo, Moves, IInv, TypeOK
  <1>4. Shaped(j, "writing") /\ Adding(j, "writing", installed)
    BY <1>2 DEF Shaped, Adding, Ended
  <1>5. Orderly => Ordered(j, "writing", Torn, installed)
    BY <1>2 DEF Ordered, Before, Ended
  <1>6. Keeps(p, "writing", j, Torn, installed)
    BY <1>1, <1>2, <1>4, <1>5 DEF Keeps, Places, Ended
  <1>. QED  BY <1>3, <1>6 DEF Sees

(* What is written is what the command holds, which was checked. *)
LEMMA WriteSees ==
    ASSUME IInv, NEW p \in Procs, Write(p)
    PROVE  Sees(p)
  <1>0. PICK j : j = job[p]
    OBVIOUS
  <1>1. pc[p] = "writing" /\ pc[p] \notin Ended
    BY DEF Write, Ended
  <1>2. /\ j \in Jobs /\ j.entries \in Seq(Entries) /\ ToSet(j.entries) \subseteq Entries
        /\ Shaped(j, "writing") /\ Fine(j.entries, contract, alone)
        /\ registry \in Seq(Entries) \cup {Torn} /\ installed \in Homes
        /\ contract \in [Packages \X Versions -> Tools \cup {None}]
        /\ latest \in [Packages -> Versions]
        /\ registry # Torn => Fine(registry, contract, alone)
        /\ Careful => /\ Once(j.entries) /\ Adding(j, "writing", installed)
                      /\ registry # Torn => Once(registry)
        /\ Orderly => Careful /\ Ordered(j, "writing", registry, installed)
    BY <1>0, <1>1, Here
  <1>3. /\ registry' = j.entries /\ installed' = installed
        /\ UNCHANGED <<contract, alone, latest, env>>
    BY <1>0 DEF Write
  <1>4. Orderly => j.entries # Torn /\ Matches(j.entries, installed)
    BY <1>2, NoneAssumption DEF Ordered, Before, Ended
  <1>5. CASE j.cmd = "update"
    <2>1. Continue(p)
      BY <1>0, <1>5 DEF Write
    <2>. QED  BY <1>0, <1>1, <1>2, <1>3, <1>4, <1>5, <2>1, ContinueSees
  <1>6. CASE j.cmd # "update"
    <2>1. Moves(p, "done", NoJob, j.entries, installed)
      BY <1>0, <1>3, <1>6 DEF Write, End, Moves
    <2>. QED  BY <1>1, <1>2, <1>4, <2>1, EndSees DEF Ended
  <1>. QED  BY <1>5, <1>6

(* Entry and package are taken out together. *)
LEMMA UninstallSees ==
    ASSUME IInv, NEW p \in Procs, Uninstall(p)
    PROVE  Sees(p)
  <1>0. PICK j : j = job[p]
    OBVIOUS
  <1>1. pc[p] = "uninstall" /\ pc[p] \notin Ended
    BY DEF Uninstall, Ended
  <1>2. /\ j \in Jobs /\ j.entries \in Seq(Entries) /\ ToSet(j.entries) \subseteq Entries
        /\ Shaped(j, "uninstall") /\ Fine(j.entries, contract, alone)
        /\ registry \in Seq(Entries) \cup {Torn} /\ installed \in Homes
        /\ contract \in [Packages \X Versions -> Tools \cup {None}]
        /\ latest \in [Packages -> Versions]
        /\ registry # Torn => Fine(registry, contract, alone)
        /\ Careful => /\ Once(j.entries) /\ Adding(j, "uninstall", installed)
                      /\ registry # Torn => Once(registry)
        /\ Orderly => Careful /\ Ordered(j, "uninstall", registry, installed)
    BY <1>0, <1>1, Here
  <1>3. j.cmd = "remove" /\ j.pkg \in Packages
    BY <1>2 DEF Shaped
  <1>4. CASE End(p, "failed") /\ UNCHANGED installed
    <2>1. Moves(p, "failed", NoJob, registry, installed)
      BY <1>4 DEF Uninstall, End, Moves
    <2>2. Before(job[p], pc[p], installed) = installed
      BY <1>1 DEF Before
    <2>. QED  BY <1>1, <1>2, <2>1, <2>2, EndsAsBefore DEF Ended
  <1>5. CASE UninstallPackage(j.pkg) /\ Save(p, Without(j.entries, j.pkg))
    <2>1. PICK home : home = [installed EXCEPT ![j.pkg] = None]
      OBVIOUS
    <2>2. home \in Homes /\ installed' = home
      BY <1>2, <1>5, <2>1 DEF UninstallPackage, Npm, Homes
    <2>3. PICK s : s = Without(j.entries, j.pkg)
      OBVIOUS
    <2>4. /\ s \in Seq(Entries) /\ Fine(s, contract, alone)
          /\ Once(j.entries) => Once(s)
          /\ ToSet(s) = {e \in ToSet(j.entries) : e.pkg # j.pkg}
      BY <1>2, <2>3, Kept, FineKept
    <2>. DEFINE k == [j EXCEPT !.entries = s]
    <2>5. k \in Jobs /\ k.cmd = j.cmd /\ k.pkg = j.pkg /\ k.entries = s
      BY <1>2, <2>4 DEF Jobs
    <2>6. job' = [job EXCEPT ![p] = k]
      BY <1>0, <1>5, <2>3 DEF Save
    <2>. HIDE DEF k
    <2>7. Moves(p, "write", k, registry, home)
      BY <1>5, <2>2, <2>6 DEF Uninstall, Save, Moves
    <2>8. Shaped(k, "write") /\ Adding(k, "write", home)
      BY <1>3, <2>5 DEF Shaped, Adding, Ended
    <2>9. ASSUME Orderly
          PROVE  Ordered(k, "write", registry, home)
      <3>1. registry # Torn /\ Matches(j.entries, installed)
        BY <1>2, <2>9 DEF Ordered, Before, Ended
      <3>2. \A x \in Packages : home[x] = IF x = j.pkg THEN None ELSE installed[x]
        BY <1>2, <2>1 DEF Homes
      <3>3. \A e \in ToSet(s) : e.pkg \in Packages
        BY <1>2, <2>4 DEF Entries
      <3>4. Matches(s, home)
        BY <2>4, <3>1, <3>2, <3>3 DEF Matches
      <3>. QED  BY <2>5, <3>1, <3>4 DEF Ordered, Before
    <2>10. Keeps(p, "write", k, registry, home)
      BY <1>1, <1>2, <2>2, <2>4, <2>5, <2>8, <2>9 DEF Keeps, Places, Ended
    <2>. QED  BY <2>7, <2>10 DEF Sees
  <1>. QED  BY <1>0, <1>4, <1>5 DEF Uninstall

(* Looking at a target changes nothing. *)
LEMMA LookSees ==
    ASSUME IInv, NEW p \in Procs, Look(p)
    PROVE  Sees(p)
  <1>0. PICK j : j = job[p]
    OBVIOUS
  <1>1. pc[p] = "look" /\ pc[p] \notin Ended
    BY DEF Look, Ended
  <1>2. /\ j \in Jobs /\ j.entries \in Seq(Entries) /\ ToSet(j.entries) \subseteq Entries
        /\ Shaped(j, "look") /\ Fine(j.entries, contract, alone)
        /\ registry \in Seq(Entries) \cup {Torn} /\ installed \in Homes
        /\ contract \in [Packages \X Versions -> Tools \cup {None}]
        /\ latest \in [Packages -> Versions]
        /\ registry # Torn => Fine(registry, contract, alone)
        /\ Careful => /\ Once(j.entries) /\ Adding(j, "look", installed)
                      /\ registry # Torn => Once(registry)
        /\ Orderly => Careful /\ Ordered(j, "look", registry, installed)
    BY <1>0, <1>1, Here
  <1>3. j.cmd = "update"
    BY <1>2 DEF Shaped
  <1>4. Orderly => registry # Torn /\ registry = j.entries /\ Matches(j.entries, installed)
    BY <1>2 DEF Ordered, Before, Ended
  <1>5. PICK e \in ToSet(j.entries) :
          \/ /\ Updates(j, e)
             /\ pc' = [pc EXCEPT ![p] = "apply"]
             /\ job' = [job EXCEPT ![p].previous = e, ![p].next = inspectLatest(e.pkg)]
          \/ LET left == j.todo \ {e.pkg}
             IN  IF left = {} THEN End(p, "done")
                 ELSE job' = [job EXCEPT ![p].todo = left] /\ UNCHANGED pc
    BY <1>0 DEF Look
  <1>6. e \in Entries
    BY <1>2, <1>5
  <1>7. CASE /\ Updates(j, e)
             /\ pc' = [pc EXCEPT ![p] = "apply"]
             /\ job' = [job EXCEPT ![p].previous = e, ![p].next = inspectLatest(e.pkg)]
    <2>1. PICK next : next = inspectLatest(e.pkg)
      OBVIOUS
    <2>2. next \in Entries /\ next.pkg = e.pkg
      <3>1. e.pkg \in Packages /\ latest[e.pkg] \in Versions
        BY <1>2, <1>6 DEF Entries
      <3>2. EntryOf(e.pkg, latest[e.pkg]) \in Entries
        BY <1>7, <3>1, ToolEntry DEF Updates, IInv
      <3>. QED  BY <2>1, <3>2 DEF inspectLatest, EntryOf
    <2>. DEFINE k == [j EXCEPT !.previous = e, !.next = next]
    <2>3. /\ k \in Jobs /\ k.cmd = "update" /\ k.entries = j.entries
          /\ k.previous = e /\ k.next = next
      BY <1>2, <1>3, <1>6, <2>2 DEF Jobs
    <2>4. job' = [job EXCEPT ![p] = k]
      BY <1>0, <1>7, <2>1
    <2>. HIDE DEF k
    <2>5. Moves(p, "apply", k, registry, installed)
      BY <1>7, <2>4 DEF Look, Moves
    <2>6. Shaped(k, "apply") /\ Adding(k, "apply", installed)
      BY <1>6, <2>2, <2>3 DEF Shaped, Adding, Ended
    <2>7. Orderly => Ordered(k, "apply", registry, installed)
      BY <1>4, <1>5, <2>3 DEF Ordered, Before
    <2>8. Keeps(p, "apply", k, registry, installed)
      BY <1>1, <1>2, <2>3, <2>6, <2>7 DEF Keeps, Places, Ended
    <2>. QED  BY <2>5, <2>8 DEF Sees
  <1>8. CASE End(p, "done")
    <2>1. Moves(p, "done", NoJob, registry, installed)
      BY <1>8 DEF Look, End, Moves
    <2>2. Before(job[p], pc[p], installed) = installed
      BY <1>1 DEF Before
    <2>. QED  BY <1>1, <1>2, <2>1, <2>2, EndsAsBefore DEF Ended
  <1>9. CASE job' = [job EXCEPT ![p].todo = j.todo \ {e.pkg}] /\ UNCHANGED pc
    <2>. DEFINE k == [j EXCEPT !.todo = j.todo \ {e.pkg}]
    <2>1. k \in Jobs /\ k.cmd = "update" /\ k.entries = j.entries
      BY <1>2, <1>3 DEF Jobs
    <2>2. job' = [job EXCEPT ![p] = k]
      BY <1>0, <1>9
    <2>. HIDE DEF k
    <2>3. Moves(p, "look", k, registry, installed)
      BY <1>1, <1>9, <2>2 DEF Look, Moves, IInv, TypeOK
    <2>. QED  BY <1>1, <1>2, <1>4, <2>1, <2>3, LookOnSees
  <1>. QED  BY <1>5, <1>7, <1>8, <1>9

(* npm changes the target of an update only. *)
LEMMA ApplySees ==
    ASSUME IInv, NEW p \in Procs, Apply(p)
    PROVE  Sees(p)
  <1>0. PICK j : j = job[p]
    OBVIOUS
  <1>1. pc[p] = "apply" /\ pc[p] \notin Ended
    BY DEF Apply, Ended
  <1>2. /\ j \in Jobs /\ j.entries \in Seq(Entries) /\ ToSet(j.entries) \subseteq Entries
        /\ Shaped(j, "apply") /\ Fine(j.entries, contract, alone)
        /\ registry \in Seq(Entries) \cup {Torn} /\ installed \in Homes
        /\ contract \in [Packages \X Versions -> Tools \cup {None}]
        /\ latest \in [Packages -> Versions]
        /\ registry # Torn => Fine(registry, contract, alone)
        /\ Careful => /\ Once(j.entries) /\ Adding(j, "apply", installed)
                      /\ registry # Torn => Once(registry)
        /\ Orderly => Careful /\ Ordered(j, "apply", registry, installed)
    BY <1>0, <1>1, Here
  <1>3. /\ j.cmd = "update" /\ j.previous \in Entries /\ j.next \in Entries
        /\ j.next.pkg = j.previous.pkg
    BY <1>2 DEF Shaped
  <1>4. j.previous.pkg \in Packages /\ j.next.version \in Versions
    BY <1>3 DEF Entries
  <1>5. ASSUME Orderly
        PROVE  /\ registry # Torn /\ registry = j.entries /\ Matches(j.entries, installed)
               /\ j.previous \in ToSet(j.entries)
               /\ installed[j.previous.pkg] = j.previous.version
    <2>1. /\ registry # Torn /\ registry = j.entries /\ Matches(j.entries, installed)
          /\ j.previous \in ToSet(j.entries)
      BY <1>2, <1>5 DEF Ordered, Before, Ended
    <2>. QED  BY <2>1 DEF Matches
  <1>6. ASSUME NEW home \in Homes, NEW at \in {"applied", "rollback"},
               Moves(p, at, j, registry, home),
               home = installed \/ home = [installed EXCEPT ![j.previous.pkg] = j.next.version]
        PROVE  Sees(p)
    <2>1. Orderly => Before(j, at, home) = installed
      BY <1>2, <1>3, <1>4, <1>5, <1>6 DEF Before, Homes
    <2>2. Orderly => Ordered(j, at, registry, home)
      BY <1>3, <1>5, <2>1 DEF Ordered
    <2>3. Shaped(j, at) /\ Adding(j, at, home)
      BY <1>3 DEF Shaped, Adding, Ended
    <2>4. Keeps(p, at, j, registry, home)
      BY <1>1, <1>2, <2>2, <2>3 DEF Keeps, Places, Ended
    <2>. QED  BY <1>6, <2>4 DEF Sees
  <1>7. CASE Npm(j.next.pkg, j.next.version) /\ GoTo(p, "applied")
    <2>1. PICK home : home = [installed EXCEPT ![j.previous.pkg] = j.next.version]
      OBVIOUS
    <2>2. home \in Homes
      BY <1>2, <1>4, <2>1 DEF Homes
    <2>3. Moves(p, "applied", j, registry, home)
      BY <1>0, <1>3, <1>7, <2>1 DEF Apply, Npm, GoTo, Moves, IInv, TypeOK
    <2>. QED  BY <1>6, <2>1, <2>2, <2>3
  <1>8. CASE GoTo(p, "rollback") /\ UNCHANGED installed
    <2>1. Moves(p, "rollback", j, registry, installed)
      BY <1>0, <1>8 DEF Apply, GoTo, Moves, IInv, TypeOK
    <2>. QED  BY <1>2, <1>6, <2>1
  <1>. QED  BY <1>0, <1>7, <1>8 DEF Apply

(* An update that goes on to write has loaded and checked the new entry. *)
LEMMA AppliedSees ==
    ASSUME IInv, NEW p \in Procs, Applied(p)
    PROVE  Sees(p)
  <1>0. PICK j : j = job[p]
    OBVIOUS
  <1>1. pc[p] = "applied" /\ pc[p] \notin Ended
    BY DEF Applied, Ended
  <1>2. /\ j \in Jobs /\ j.entries \in Seq(Entries) /\ ToSet(j.entries) \subseteq Entries
        /\ Shaped(j, "applied") /\ Fine(j.entries, contract, alone)
        /\ registry \in Seq(Entries) \cup {Torn} /\ installed \in Homes
        /\ contract \in [Packages \X Versions -> Tools \cup {None}]
        /\ latest \in [Packages -> Versions]
        /\ registry # Torn => Fine(registry, contract, alone)
        /\ Careful => /\ Once(j.entries) /\ Adding(j, "applied", installed)
                      /\ registry # Torn => Once(registry)
        /\ Orderly => Careful /\ Ordered(j, "applied", registry, installed)
    BY <1>0, <1>1, Here
  <1>3. /\ j.cmd = "update" /\ j.previous \in Entries /\ j.next \in Entries
        /\ j.next.pkg = j.previous.pkg
    BY <1>2 DEF Shaped
  <1>4. PICK pkg \in Packages : pkg = j.previous.pkg
    BY <1>3 DEF Entries
  <1>5. CASE GoTo(p, "rollback")
    <2>1. Moves(p, "rollback", j, registry, installed)
      BY <1>0, <1>5 DEF Applied, GoTo, Moves, IInv, TypeOK
    <2>2. Before(j, "rollback", installed) = Before(j, "applied", installed)
      BY <1>3 DEF Before
    <2>3. Orderly => Ordered(j, "rollback", registry, installed)
      BY <1>2, <1>3, <2>2 DEF Ordered, Ended
    <2>4. Shaped(j, "rollback") /\ Adding(j, "rollback", installed)
      BY <1>3 DEF Shaped, Adding, Ended
    <2>5. Keeps(p, "rollback", j, registry, installed)
      BY <1>1, <1>2, <2>3, <2>4 DEF Keeps, Places, Ended
    <2>. QED  BY <2>1, <2>5 DEF Sees
  <1>6. ASSUME Loads(pkg), ~getConflict(Loaded(pkg), Without(j.entries, pkg)),
               Save(p, [i \in DOMAIN j.entries |->
                           IF j.entries[i].pkg = pkg THEN Loaded(pkg)
                           ELSE j.entries[i]])
        PROVE  Sees(p)
    <2>1. PICK e : e = Loaded(pkg)
      OBVIOUS
    <2>2. /\ e \in Entries /\ e.pkg = pkg /\ e.version = installed[pkg]
          /\ Sound(e, contract, alone)
      BY <1>6, <2>1, LoadedType DEF IInv
    <2>3. ~getConflict(e, j.entries)
      BY <1>2, <1>6, <2>1, <2>2, FineKept
    <2>4. PICK s : s = Put(j.entries, e)
      OBVIOUS
    <2>5. Fine(s, contract, alone)
      BY <1>2, <2>2, <2>3, <2>4, FinePut
    <2>6. /\ s \in Seq(Entries)
          /\ \A f \in ToSet(s) : f = e \/ (f \in ToSet(j.entries) /\ f.pkg # pkg)
          /\ \A f \in ToSet(j.entries) : f.pkg # pkg => f \in ToSet(s)
          /\ \A f \in ToSet(j.entries) : f.pkg = pkg => e \in ToSet(s)
          /\ Once(j.entries) => Once(s)
      BY <1>2, <2>2, <2>4, PutIn
    <2>. DEFINE k == [j EXCEPT !.entries = s]
    <2>7. /\ k \in Jobs /\ k.cmd = j.cmd /\ k.entries = s
          /\ k.previous = j.previous /\ k.next = j.next
      BY <1>2, <2>6 DEF Jobs
    <2>8. s = [i \in DOMAIN j.entries |->
                  IF j.entries[i].pkg = pkg THEN e ELSE j.entries[i]]
      BY <2>2, <2>4 DEF Put
    <2>9. job' = [job EXCEPT ![p] = k]
      BY <1>0, <1>6, <2>1, <2>8 DEF Save
    <2>. HIDE DEF k
    <2>10. Moves(p, "write", k, registry, installed)
      BY <1>6, <2>9 DEF Applied, Save, Moves
    <2>11. Shaped(k, "write") /\ Adding(k, "write", installed)
      BY <1>3, <2>7 DEF Shaped, Adding, Ended
    <2>12. ASSUME Orderly
           PROVE  Ordered(k, "write", registry, installed)
      <3>1. /\ registry # Torn /\ j.previous \in ToSet(j.entries)
            /\ Matches(j.entries, Before(j, "applied", installed))
        BY <1>2, <2>12 DEF Ordered, Ended
      <3>2. \A x \in Packages : x # pkg => Before(j, "applied", installed)[x] = installed[x]
        BY <1>2, <1>3, <1>4 DEF Before, Homes
      <3>3. ASSUME NEW f \in ToSet(s)
            PROVE  installed[f.pkg] = f.version
        <4>1. CASE f = e
          BY <2>2, <4>1
        <4>2. CASE f # e
          <5>1. f \in ToSet(j.entries) /\ f.pkg # pkg /\ f.pkg \in Packages
            BY <1>2, <2>6, <4>2 DEF Entries
          <5>. QED  BY <3>1, <3>2, <5>1 DEF Matches
        <4>. QED  BY <4>1, <4>2
      <3>4. ASSUME NEW x \in Packages, installed[x] # None
            PROVE  x \in Namesakes \/ \E f \in ToSet(s) : f.pkg = x
        <4>1. CASE x = pkg
          BY <1>4, <2>2, <2>6, <3>1, <4>1
        <4>2. CASE x # pkg /\ x \notin Namesakes
          <5>1. PICK f \in ToSet(j.entries) : f.pkg = x
            BY <3>1, <3>2, <3>4, <4>2 DEF Matches
          <5>. QED  BY <2>6, <4>2, <5>1
        <4>. QED  BY <4>1, <4>2
      <3>5. Matches(s, installed)
        BY <3>3, <3>4 DEF Matches
      <3>. QED  BY <2>7, <3>1, <3>5, <1>3 DEF Ordered, Before
    <2>13. Keeps(p, "write", k, registry, installed)
      BY <1>1, <1>2, <2>5, <2>6, <2>7, <2>11, <2>12 DEF Keeps, Places, Ended
    <2>. QED  BY <2>10, <2>13 DEF Sees
  <1>. QED  BY <1>0, <1>4, <1>5, <1>6 DEF Applied

(* A killed command leaves files as they are. *)
LEMMA CrashSees ==
    ASSUME IInv, NEW p \in Procs, Crash(p)
    PROVE  Sees(p)
  <1>0. PICK j : j = job[p]
    OBVIOUS
  <1>1. pc[p] \notin Ended /\ ~Orderly /\ Moves(p, "failed", NoJob, registry, installed)
    BY DEF Crash, End, Moves, Orderly
  <1>2. /\ registry \in Seq(Entries) \cup {Torn} /\ installed \in Homes
        /\ registry # Torn => Fine(registry, contract, alone)
        /\ Careful => (registry # Torn => Once(registry))
    BY <1>0, Here
  <1>. QED  BY <1>1, <1>2, EndSees DEF Ended

-----------------------------------------------------------------------------
(* Beginnings.                                                             *)

(* If commands run one at a time, one begins only when none runs. *)
LEMMA OneAtATime ==
    ASSUME NEW p \in Procs, NEW where, NEW j, Begin(p, where, j), env.atOnce = 1
    PROVE  AtRest
  <1>. DEFINE Running == {q \in Procs : pc[q] \notin Ended}
  <1>1. IsFiniteSet(Running)
    BY ProcsAssumption, FS_Subset
  <1>2. Cardinality(Running) < 1
    BY DEF Begin
  <1>. HIDE DEF Running
  <1>3. Cardinality(Running) = 0
    BY <1>1, <1>2, FS_CardinalityType
  <1>4. Running = {}
    BY <1>1, <1>3, FS_EmptySet
  <1>. QED  BY <1>4 DEF Running, AtRest

(* A command that begins holds the registry's entries. *)
LEMMA BeginSees ==
    ASSUME IInv, NEW p \in Procs, NEW where \in {"install", "uninstall", "look"},
           NEW j \in Jobs, Begin(p, where, j), registry # Torn, Shaped(j, where),
           where = "install" =>
               /\ j.before = installed
               /\ j.previous # None => j.previous \in ToSet(registry)
               /\ Careful /\ (j.previous = None \/ j.previous.pkg # j.pkg) =>
                     \A e \in ToSet(registry) : e.pkg # j.pkg
               /\ j.previous # None /\ j.previous.pkg # j.pkg => j.pkg \in Namesakes
    PROVE  Sees(p)
  <1>0. PICK old : old = job[p]
    OBVIOUS
  <1>1. /\ registry \in Seq(Entries) /\ installed \in Homes
        /\ Fine(registry, contract, alone) /\ (Careful => Once(registry))
        /\ Orderly => Careful
    BY <1>0, Here
  <1>2. Careful => AtRest
    BY OneAtATime DEF Careful
  <1>3. Orderly => Matches(registry, installed)
    BY <1>1, <1>2 DEF IInv, OrderInv
  <1>. DEFINE k == [j EXCEPT !.entries = registry]
  <1>4. /\ k \in Jobs /\ k.entries = registry /\ k.cmd = j.cmd /\ k.pkg = j.pkg
        /\ k.before = j.before /\ k.previous = j.previous /\ k.next = j.next
    BY <1>1 DEF Jobs
  <1>5. job' = [job EXCEPT ![p] = k]
    BY DEF Begin
  <1>. HIDE DEF k
  <1>6. Moves(p, where, k, registry, installed)
    BY <1>5 DEF Begin, Moves
  <1>7. Shaped(k, where)
    BY <1>4 DEF Shaped, Ended
  <1>8. Careful => Adding(k, where, installed)
    BY <1>4 DEF Adding
  <1>9. Orderly => Ordered(k, where, registry, installed)
    BY <1>3, <1>4 DEF Ordered, Before
  <1>10. Keeps(p, where, k, registry, installed)
    BY <1>1, <1>2, <1>4, <1>7, <1>8, <1>9 DEF Keeps, Places, Ended
  <1>. QED  BY <1>6, <1>10 DEF Sees

(* So do add, remove and update. *)
LEMMA BeginAddSees ==
    ASSUME IInv, NEW p \in Procs, BeginAdd(p)
    PROVE  Sees(p)
  <1>1. registry # Torn /\ registry \in Seq(Entries) /\ installed \in Homes
    BY DEF BeginAdd, IInv, TypeOK, Homes
  <1>2. ToSet(registry) \subseteq Entries
    BY <1>1, Lists
  <1>3. PICK pkg \in Packages, pin \in Versions \cup {None} :
          /\ pin # None =>
                /\ pin <= latest[pkg]
                /\ IF \E e \in ToSet(registry) : e.pkg = pkg
                   THEN "again" \in env.pins ELSE "new" \in env.pins
          /\ \E prev \in IF Previous(pkg, pin) = {} THEN {None} ELSE Previous(pkg, pin) :
                Begin(p, "install",
                      [NoJob EXCEPT !.cmd = "add", !.pkg = pkg, !.pin = pin,
                                    !.previous = prev, !.before = installed])
    BY DEF BeginAdd
  <1>4. PICK prev \in IF Previous(pkg, pin) = {} THEN {None} ELSE Previous(pkg, pin) :
          Begin(p, "install",
                [NoJob EXCEPT !.cmd = "add", !.pkg = pkg, !.pin = pin,
                              !.previous = prev, !.before = installed])
    BY <1>3
  <1>. DEFINE own == {e \in ToSet(registry) : e.pkg = pkg}
              called == {i \in DOMAIN registry : Called(registry[i], pkg)}
  <1>5. /\ Previous(pkg, pin) \in {{}, own, {registry[i] : i \in called}}
        /\ pin = None /\ own # {} => Previous(pkg, pin) = own
    BY DEF Previous
  <1>6. prev # None =>
           /\ prev \in ToSet(registry)
           /\ prev.pkg = pkg \/ (Called(prev, pkg) /\ (pin = None => own = {}))
    <2>1. ASSUME prev \in Previous(pkg, pin), Previous(pkg, pin) # own
          PROVE  Called(prev, pkg) /\ prev \in ToSet(registry) /\ (pin = None => own = {})
      BY <1>1, <1>5, <2>1, Lists
    <2>2. prev # None => prev \in Previous(pkg, pin)
      BY <1>4
    <2>. QED  BY <2>1, <2>2
  <1>7. prev = None => Previous(pkg, pin) = {}
    <2>1. None \notin Previous(pkg, pin)
      <3>1. \A i \in DOMAIN registry : registry[i] # None
        BY <1>1, Lists, NoneAssumption
      <3>2. None \notin own
        BY <1>2, NoneAssumption
      <3>. QED  BY <1>5, <3>1, <3>2
    <2>. QED  BY <1>4, <2>1
  <1>8. Careful /\ (prev = None \/ prev.pkg # pkg) => \A e \in ToSet(registry) : e.pkg # pkg
    <2>1. CASE pin = None
      BY <1>5, <1>6, <1>7, <2>1
    <2>2. CASE pin # None
      BY <1>3, <2>2 DEF Careful
    <2>. QED  BY <2>1, <2>2
  <1>9. prev # None /\ prev.pkg # pkg => pkg \in Namesakes
    <2>. SUFFICES ASSUME prev # None, prev.pkg # pkg PROVE pkg \in Namesakes
      OBVIOUS
    <2>1. prev \in ToSet(registry) /\ prev \in Entries /\ Called(prev, pkg)
      BY <1>2, <1>6
    <2>2. contract[<<prev.pkg, prev.version>>] = [name |-> prev.name, path |-> prev.path]
      BY <1>1, <2>1 DEF IInv, FineInv, Fine, Sound
    <2>3. prev.pkg \in Packages \ {pkg} /\ prev.version \in Versions
      BY <2>1 DEF Entries
    <2>4. contract[<<prev.pkg, prev.version>>] # None
      BY <2>1, <2>2, NoneAssumption DEF Entries, Tools
    <2>5. Called(contract[<<prev.pkg, prev.version>>], pkg)
      BY <2>1, <2>2 DEF Called
    <2>. QED  BY <2>3, <2>4, <2>5 DEF Namesakes
  <1>. DEFINE j == [NoJob EXCEPT !.cmd = "add", !.pkg = pkg, !.pin = pin,
                                 !.previous = prev, !.before = installed]
  <1>10. /\ j \in Jobs /\ j.cmd = "add" /\ j.pkg = pkg /\ j.previous = prev
         /\ j.before = installed
    <2>1. prev \in Entries \cup {None}
      BY <1>2, <1>6
    <2>. QED  BY <1>1, <2>1, Nothing DEF NoJob, Jobs, Homes
  <1>11. Begin(p, "install", j)
    BY <1>4
  <1>. HIDE DEF j
  <1>12. Shaped(j, "install")
    BY <1>1, <1>10 DEF Shaped, Ended, Homes
  <1>. QED  BY <1>1, <1>6, <1>8, <1>9, <1>10, <1>11, <1>12, BeginSees

LEMMA BeginRemoveSees ==
    ASSUME IInv, NEW p \in Procs, BeginRemove(p)
    PROVE  Sees(p)
  <1>1. registry # Torn /\ registry \in Seq(Entries)
    BY DEF BeginRemove, IInv, TypeOK
  <1>2. PICK e \in ToSet(registry) :
          Begin(p, "uninstall", [NoJob EXCEPT !.cmd = "remove", !.pkg = e.pkg])
    BY DEF BeginRemove
  <1>3. e.pkg \in Packages
    BY <1>1, <1>2, Lists DEF Entries
  <1>. DEFINE j == [NoJob EXCEPT !.cmd = "remove", !.pkg = e.pkg]
  <1>4. j \in Jobs /\ j.cmd = "remove" /\ j.pkg = e.pkg
    BY <1>3, Nothing DEF NoJob, Jobs
  <1>5. Begin(p, "uninstall", j)
    BY <1>2
  <1>. HIDE DEF j
  <1>6. Shaped(j, "uninstall")
    BY <1>3, <1>4 DEF Shaped, Ended
  <1>. QED  BY <1>1, <1>4, <1>5, <1>6, BeginSees

LEMMA BeginUpdateSees ==
    ASSUME IInv, NEW p \in Procs, BeginUpdate(p)
    PROVE  Sees(p)
  <1>1. registry # Torn /\ registry \in Seq(Entries)
    BY DEF BeginUpdate, IInv, TypeOK
  <1>2. PICK targets :
          /\ targets \in {{e.pkg : e \in ToSet(registry)}}
                         \cup {{pkg} : pkg \in {e.pkg : e \in ToSet(registry)}}
          /\ Begin(p, "look", [NoJob EXCEPT !.cmd = "update", !.todo = targets])
    BY DEF BeginUpdate
  <1>3. targets \in SUBSET Packages
    <2>1. {e.pkg : e \in ToSet(registry)} \subseteq Packages
      BY <1>1, Lists DEF Entries
    <2>. QED  BY <1>2, <2>1
  <1>. DEFINE j == [NoJob EXCEPT !.cmd = "update", !.todo = targets]
  <1>4. j \in Jobs /\ j.cmd = "update"
    BY <1>3, Nothing DEF NoJob, Jobs
  <1>5. Begin(p, "look", j)
    BY <1>2
  <1>. HIDE DEF j
  <1>6. Shaped(j, "look")
    BY <1>4 DEF Shaped, Ended
  <1>. QED  BY <1>1, <1>4, <1>5, <1>6, BeginSees

-----------------------------------------------------------------------------
(* The invariant.                                                          *)

(* The invariant holds at first. *)
LEMMA InitHolds == Init => IInv
  <1>. SUFFICES ASSUME Init PROVE IInv
    OBVIOUS
  <1>1. registry = <<>> /\ \A p \in Procs : job[p] = NoJob /\ pc[p] = "done"
    BY DEF Init
  <1>2. env.tools \subseteq Tools /\ env.maxRuns \in Nat
    BY EnvironmentsAssumption DEF Init, EnvironmentType
  <1>3. TypeOK
    <2>1. contract \in [Packages \X Versions -> Tools \cup {None}]
      BY <1>2 DEF Init
    <2>2. alone \subseteq Packages \X Versions
      BY <2>1 DEF Init
    <2>3. latest \in [Packages -> Versions]
      BY VersionsAssumption DEF Init, Versions
    <2>4. pc \in [Procs -> Places] /\ job \in [Procs -> Jobs]
      BY Nothing DEF Init, Places, Ended
    <2>. QED  BY <1>1, <1>2, <2>1, <2>2, <2>3, <2>4, Nothing DEF TypeOK, Init,
         Places
  <1>4. ShapeInv
    BY <1>1, Nothing DEF ShapeInv, Ended
  <1>5. FineInv
    BY <1>1, Nothing DEF FineInv
  <1>6. OnceInv
    BY <1>1, Nothing DEF OnceInv, Single, Adding, Ended
  <1>7. OrderInv
    <2>1. Matches(registry, installed)
      BY <1>1, Nothing DEF Matches, Init
    <2>2. registry # Torn
      BY <1>1, Nothing, NoneAssumption
    <2>. QED  BY <1>1, <2>1, <2>2 DEF OrderInv, Ordered, Ended
  <1>. QED  BY <1>3, <1>4, <1>5, <1>6, <1>7 DEF IInv

(* Every step keeps the invariant. *)
LEMMA NextKeeps == IInv /\ [Next]_vars => IInv'
  <1>. SUFFICES ASSUME IInv, [Next]_vars PROVE IInv'
    OBVIOUS
  <1>1. ASSUME NEW p \in Procs, Sees(p), runs' \in 0..env.maxRuns
        PROVE  IInv'
    BY <1>1, MovesKeep DEF Sees
  <1>2. runs \in 0..env.maxRuns /\ env.maxRuns \in Nat
    BY EnvironmentsAssumption DEF IInv, TypeOK, EnvironmentType
  <1>3. ASSUME NEW p \in Procs, Step(p) \/ Crash(p)
        PROVE  IInv'
    <2>1. runs' = runs
      BY <1>3 DEF Step, Install, Validate, Rollback, Truncate, Write,
         Uninstall, Look, Apply, Applied, Crash
    <2>2. Sees(p)
      BY <1>3, InstallSees, ValidateSees, RollbackSees, TruncateSees,
         WriteSees, UninstallSees, LookSees, ApplySees, AppliedSees, CrashSees
         DEF Step
    <2>. QED  BY <1>1, <1>2, <2>1, <2>2
  <1>4. ASSUME NEW p \in Procs, BeginAdd(p) \/ BeginRemove(p) \/ BeginUpdate(p)
        PROVE  IInv'
    <2>1. runs' = runs + 1 /\ runs < env.maxRuns
      BY <1>4 DEF BeginAdd, BeginRemove, BeginUpdate, Begin
    <2>2. Sees(p)
      BY <1>4, BeginAddSees, BeginRemoveSees, BeginUpdateSees
    <2>. QED  BY <1>1, <1>2, <2>1, <2>2
  <1>5. ASSUME /\ UNCHANGED <<contract, alone, registry, installed, runs, env, pc, job>>
               /\ latest' \in [Packages -> Versions]
        PROVE  IInv'
    <2>1. TypeOK' /\ ShapeInv' /\ FineInv'
      BY <1>5 DEF IInv, TypeOK, ShapeInv, FineInv
    <2>2. (Careful' <=> Careful) /\ (Orderly' <=> Orderly)
      BY <1>5 DEF Careful, Orderly
    <2>3. OnceInv => OnceInv'
      BY <1>5 DEF OnceInv, Single
    <2>4. Namesakes' = Namesakes
      BY <1>5 DEF Namesakes, Called
    <2>5. OrderInv => OrderInv'
      BY <1>5, <2>4 DEF OrderInv, AtRest, Ordered, Matches, Before
    <2>. QED  BY <2>1, <2>2, <2>3, <2>5 DEF IInv
  <1>6. ASSUME NEW pkg \in Packages, Publish(pkg)
        PROVE  IInv'
    <2>1. latest' \in [Packages -> Versions]
      BY <1>6 DEF Publish, IInv, TypeOK
    <2>. QED  BY <1>5, <1>6, <2>1 DEF Publish
  <1>7. CASE UNCHANGED vars
    BY <1>5, <1>7 DEF vars, IInv, TypeOK
  <1>. QED  BY <1>3, <1>4, <1>6, <1>7 DEF Next

(* The invariant holds in every reachable state. *)
THEOREM Invariance == Spec => []IInv
  BY InitHolds, NextKeeps, PTL DEF Spec

(* The registry holds entries of published tools or is torn, and npm is    *)
(* only asked for versions that there are (manager.ts:381).                *)
THEOREM TypeCorrect == Spec => []TypeOK
  <1>1. IInv => TypeOK
    BY DEF IInv
  <1>. QED  BY <1>1, Invariance, PTL

(* The registry never holds two packages whose commands collide, or a      *)
(* command in place of a root command (manager.ts:457): whatever commands  *)
(* overlap, are killed or fail.                                            *)
THEOREM NeverConflicts == Spec => []NoConflicts
  <1>1. IInv => NoConflicts
    BY DEF IInv, FineInv, Fine, getConflict, NoConflicts
  <1>. QED  BY <1>1, Invariance, PTL

(* As long as commands run one at a time, mounting the tools never fails   *)
(* (index.ts:49), wherever a command was killed.                           *)
THEOREM AlwaysStarts == Spec => []CliStarts
  <1>1. IInv => CliStarts
    <2>. SUFFICES ASSUME IInv, Careful PROVE Mounts
      BY DEF CliStarts, Careful
    <2>. SUFFICES ASSUME NEW i \in Mounted, NEW k \in Mounted, i # k
                  PROVE  ~Collide(registry[i].path, registry[k].path)
      BY DEF Mounts
    <2>1. registry # Torn /\ i \in DOMAIN registry /\ k \in DOMAIN registry
      BY DEF Mounted
    <2>2. registry[i].pkg # registry[k].pkg
      BY <2>1 DEF IInv, OnceInv, Once
    <2>3. registry[i] \in ToSet(registry) /\ registry[k] \in ToSet(registry)
      BY <2>1 DEF ToSet
    <2>. QED  BY <2>1, <2>2, <2>3 DEF IInv, FineInv, Fine, getConflict
  <1>. QED  BY <1>1, Invariance, PTL

(* Between commands, every tool of the registry is installed as the        *)
(* registry has it and its command is mounted (manager.ts:516).            *)
THEOREM ToolsAlwaysWork == Spec => []ToolsWork
  <1>1. IInv => ToolsWork
    <2>. SUFFICES ASSUME IInv, Orderly, AtRest
                  PROVE  /\ registry # Torn
                         /\ \A e \in ToSet(registry) : ToolState(e) = "ok"
      BY DEF ToolsWork
    <2>1. /\ registry # Torn /\ Matches(registry, installed)
          /\ Fine(registry, contract, alone)
      BY DEF IInv, OrderInv, FineInv
    <2>2. ASSUME NEW e \in ToSet(registry)
          PROVE  ToolState(e) = "ok"
      <3>1. e \in Entries
        BY <2>1, Lists DEF Fine
      <3>2. /\ installed[e.pkg] = e.version /\ Sound(e, contract, alone)
            /\ ~getConflict(e, registry)
        BY <2>1 DEF Fine, Matches
      <3>3. e.version \in Versions /\ [name |-> e.name, path |-> e.path] \in Tools
        BY <3>1 DEF Entries, Tools
      <3>4. Loads(e.pkg)
        BY <3>2, <3>3, NoneAssumption DEF Loads, Valid, Sound
      <3>5. Loaded(e.pkg) = e
        BY <3>1, <3>2 DEF Loaded, EntryOf, Entries, Sound
      <3>. QED  BY <3>2, <3>4, <3>5 DEF ToolState
    <2>. QED  BY <2>1, <2>2
  <1>. QED  BY <1>1, Invariance, PTL

(* Between commands, the tool home holds no package that is not a          *)
(* registered tool (test/cli-tool-manager.test.ts:854), but for packages   *)
(* named by a word that another package's tool is called by, wherever adds *)
(* find the entry they replace (manager.ts:399).                           *)
THEOREM NeverStrays == Spec => []NoStrays
  <1>1. IInv => NoStrays
    BY DEF IInv, OrderInv, NoStrays, Matches
  <1>. QED  BY <1>1, Invariance, PTL

(* An add that fails leaves every tool that it found at the version it     *)
(* found (manager.ts:499, test/cli-tool-manager.test.ts:854).              *)
THEOREM FailedAddsBreakNothing == Spec => FailedAddBreaksNothing
  <1>1. ASSUME IInv, IInv', [Next]_vars, NEW p \in Procs, Orderly,
               job[p].cmd = "add", pc[p] # "failed", pc'[p] = "failed"
        PROVE  \A e \in ToSet(job[p].entries) : installed'[e.pkg] = e.version
    <2>0. PICK j : j = job[p]
      OBVIOUS
    <2>1. pc[p] \notin Ended
      <3>1. Shaped(j, pc[p])
        BY <2>0, <1>1, Here
      <3>. QED  BY <1>1, <2>0, <3>1 DEF Shaped, NoJob
    <2>2. pc \in [Procs -> Places]
      BY <1>1 DEF IInv, TypeOK, Places
    <2>3. PICK q \in Procs : \/ BeginAdd(q) \/ BeginRemove(q) \/ BeginUpdate(q)
                             \/ Step(q) \/ Crash(q)
      BY <1>1 DEF Next, vars, Publish
    <2>4. ~Crash(q)
      BY <1>1 DEF Crash, Orderly
    <2>5. ~(BeginAdd(q) \/ BeginRemove(q) \/ BeginUpdate(q))
      BY <1>1, <2>1, OneAtATime
         DEF BeginAdd, BeginRemove, BeginUpdate, AtRest, Orderly
    <2>6. Step(q)
      BY <2>3, <2>4, <2>5
    <2>7. pc[q] \notin Ended
      BY <2>6 DEF Step, Install, Validate, Rollback, Truncate, Write,
         Uninstall, Look, Apply, Applied, Ended
    <2>8. q = p
      BY <1>1, <2>1, <2>7 DEF IInv, OnceInv, Single, Careful, Orderly
    <2>9. /\ pc[p] \notin {"write", "writing"}
          /\ registry' = registry
      BY <1>1, <2>2, <2>6, <2>8 DEF Step, Install, Validate, Rollback,
         Truncate, Write, Uninstall, Look, Apply, Applied, End, GoTo, Save,
         Continue
    <2>10. registry' = j.entries
      BY <1>1, <2>0, <2>1, <2>9 DEF IInv, OrderInv, Ordered
    <2>11. env' = env
      BY <2>6 DEF Step, Install, Validate, Rollback, Truncate, Write,
         Uninstall, Look, Apply, Applied
    <2>12. Orderly' /\ Careful'
      BY <1>1, <2>11 DEF Orderly, Careful
    <2>13. \A x \in Procs : x # p => pc'[x] = pc[x]
      BY <2>2, <2>6, <2>8 DEF Step, Install, Validate, Rollback, Truncate,
         Write, Uninstall, Look, Apply, Applied, End, GoTo, Save, Continue
    <2>14. AtRest'
      <3>1. \A x \in Procs : x # p => pc[x] \in Ended
        BY <1>1, <2>1 DEF IInv, OnceInv, Single, Careful, Orderly
      <3>. QED  BY <1>1, <2>13, <3>1 DEF AtRest, Ended
    <2>15. Matches(registry, installed)'
      BY <1>1, <2>12, <2>14 DEF IInv, OrderInv
    <2>. QED  BY <2>0, <2>10, <2>15 DEF Matches
  <1>2. IInv /\ IInv' /\ [Next]_vars =>
           [\A p \in Procs :
              Orderly /\ job[p].cmd = "add" /\ pc[p] # "failed" /\ pc'[p] = "failed" =>
                 \A e \in ToSet(job[p].entries) :
                    job[p].before[e.pkg] = e.version => installed'[e.pkg] = e.version]_vars
    BY <1>1
  <1>. QED  BY <1>2, Invariance, PTL DEF Spec, FailedAddBreaksNothing

=============================================================================
