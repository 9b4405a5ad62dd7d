-------------------------------- MODULE Edfs --------------------------------
(***************************************************************************)
(* The EtherDFS server (edfs.c): the cluster table that stands between the *)
(* 8.3 paths and cluster numbers of the DOS client and the paths of the    *)
(* host directory, and one action per request of edfs_handle_packet.       *)
(*                                                                         *)
(* A path is a sequence of names, <<>> the shared root. A host name is any *)
(* member of Names; the client only knows the 8.3 names, Name83[n]. An 8.3 *)
(* name is a host name too: it is what a file gets that the client creates.*)
(* The client sends 8.3 paths of at most MaxDepth names; it never renames  *)
(* or removes the root.                                                    *)
(***************************************************************************)
EXTENDS Integers, Sequences, FiniteSets, SequencesExt

CONSTANTS
    Names,          \* names of the host directory
    Name83,         \* unixpath_to_path83 on one name: upper case, cut to 8.3
    HostOrder,      \* the order readdir returns names in
    MaxDepth,       \* longest path
    MaxSize,        \* largest file, in units of one write
    ClusterMax,     \* EDFS_CLUSTER_MAX
    Searches        \* what the client looks for: 8.3 names that its pattern
                    \* covers, and whether it wants directories

Dots == {".", ".."}

ASSUME EdfsAssumption ==
    /\ Name83 \in [Names -> Names]
    /\ \A n \in Names : Name83[Name83[n]] = Name83[n]
    /\ Names \cap Dots = {}
    /\ Searches \subseteq [dirs : BOOLEAN, pattern : SUBSET (Names \cup Dots)]
    /\ HostOrder \in Seq(Names) /\ ToSet(HostOrder) = Names
    /\ Len(HostOrder) = Cardinality(Names)
    /\ MaxDepth \in Nat \ {0} /\ MaxSize \in Nat \ {0} /\ ClusterMax \in Nat \ {0}

DosNames == {Name83[n] : n \in Names}
Root == <<>>
Paths == UNION {[1 .. d -> Names] : d \in 1 .. MaxDepth}
Paths83 == UNION {[1 .. d -> DosNames] : d \in 1 .. MaxDepth}
TablePaths == Paths \cup {Root} \cup {Append(p, dot) : p \in Paths, dot \in Dots}
NoPath == <<"none">>

File(size) == [kind |-> "file", size |-> size]
Dir == [kind |-> "dir", size |-> 0]
Absent == [kind |-> "none", size |-> 0]

\* The action word of an open: what to do with a file that exists (1 open it,
\* 2 truncate it), and whether to create one that does not.
Actions == [exists : 0 .. 2, create : BOOLEAN]

VARIABLES
    fs,         \* the host directory, Absent where there is nothing
    table,      \* edfs_cluster[0 .. edfs_cluster_used - 1], cluster c at c + 1
    opened,     \* per cluster, the path it stood for when an open returned it
    reply       \* the last reply, and the request it answers

vars == <<fs, table, opened, reply>>

Parent(p) == Front(p)
Kind(tree, p) == IF p = Root THEN "dir" ELSE tree[p].kind
Below(p, q) == Len(q) > Len(p) /\ SubSeq(q, 1, Len(p)) = p
WellFormed(tree) ==
    \A p \in Paths : tree[p] # Absent => Kind(tree, Parent(p)) = "dir"

\* The host resolves a trailing "." or ".." of what is still a directory.
Resolve(p) ==
    IF p # Root /\ Last(p) = "." THEN Front(p)
    ELSE IF p # Root /\ Last(p) = ".." THEN Front(Front(p))
    ELSE p
Stat(p) ==
    IF p # Root /\ Last(p) \in Dots /\ Kind(fs, Front(p)) # "dir" THEN Absent
    ELSE IF Resolve(p) = Root THEN Dir ELSE fs[Resolve(p)]

TypeOK ==
    /\ fs \in [Paths -> {Absent, Dir} \cup {File(s) : s \in 0 .. MaxSize}]
    /\ WellFormed(fs)
    /\ Len(table) \in 1 .. ClusterMax
    /\ \A i \in DOMAIN table : table[i].path \in TablePaths
    /\ opened \in [1 .. ClusterMax -> Paths \cup {NoPath}]
-----------------------------------------------------------------------------
(* Names and the cluster table.                                            *)

\* unixpath_to_path83. "." and ".." are their own 8.3 names.
unixpath_to_path83(p) ==
    [i \in DOMAIN p |-> IF p[i] \in Dots THEN p[i] ELSE Name83[p[i]]]

\* Faulty: no look at the clusters in use.
edfs_cluster_register_again(t, p, p83) ==
    IF Len(t) >= ClusterMax THEN t ELSE Append(t, [path |-> p, path83 |-> p83])

\* Faulty: an emptied slot is used again.
edfs_cluster_register_reuses(t, p, p83) ==
    LET empty == {i \in DOMAIN t : i > 1 /\ t[i].path = Root}
    IN IF (\E i \in DOMAIN t : t[i].path = p) \/ Len(t) >= ClusterMax THEN t
       ELSE IF empty # {} THEN [t EXCEPT ![CHOOSE i \in empty : TRUE] =
                                   [path |-> p, path83 |-> p83]]
       ELSE Append(t, [path |-> p, path83 |-> p83])

edfs_cluster_register(t, p, p83) ==
    IF (\E i \in DOMAIN t : t[i].path = p) \/ Len(t) >= ClusterMax THEN t
    ELSE Append(t, [path |-> p, path83 |-> p83])

\* Faulty: the 8.3 path stays in the table.
edfs_cluster_unregister_half(t, p) ==
    LET hits == {i \in DOMAIN t : t[i].path = p}
    IN IF hits = {} THEN t
       ELSE [t EXCEPT ![CHOOSE i \in hits : \A j \in hits : i <= j].path = Root]

\* The slot is emptied, not given back: it reads as the root from then on.
edfs_cluster_unregister(t, p) ==
    LET hits == {i \in DOMAIN t : t[i].path = p}
    IN IF hits = {} THEN t
       ELSE [t EXCEPT ![CHOOSE i \in hits : \A j \in hits : i <= j] =
                [path |-> Root, path83 |-> Root]]

\* The index in the table, one more than the cluster; 0 for NULL.
edfs_cluster_lookup_83(t, p83) ==
    LET hits == {i \in DOMAIN t : t[i].path83 = p83}
    IN IF p83 = Root THEN 1
       ELSE IF hits = {} THEN 0
       ELSE CHOOSE i \in hits : \A j \in hits : i <= j

\* The path of a lookup; the root is answered without the table.
PathOf(t, i, p83) == IF p83 = Root THEN Root ELSE t[i].path

\* Only the directory part is looked up; the last name stays as it is.
path83_to_unixpath(t, p83) ==
    LET dir == edfs_cluster_lookup_83(t, Parent(p83))
    IN IF dir # 0 THEN Append(PathOf(t, dir, Parent(p83)), Last(p83)) ELSE p83
-----------------------------------------------------------------------------
(* The host calls, and what each does to the tree.                         *)

CanCreate(p) == Len(p) <= MaxDepth /\ Kind(fs, Parent(p)) = "dir" /\ fs[p] # Dir
CanMkdir(p) == Len(p) <= MaxDepth /\ Kind(fs, Parent(p)) = "dir" /\ fs[p] = Absent
Empty(p) == \A q \in Paths : Below(p, q) => fs[q] = Absent

CanRename(p, q) ==
    /\ Stat(p) # Absent /\ Len(q) <= MaxDepth
    /\ Kind(fs, Parent(q)) = "dir" /\ ~Below(p, q)
    /\ \/ fs[q] = Absent \/ p = q
       \/ fs[p] # Dir /\ fs[q] # Dir
       \/ fs[p] = Dir /\ fs[q] = Dir /\ Empty(q)
    /\ \A r \in Paths : Below(p, r) /\ fs[r] # Absent => Len(r) - Len(p) + Len(q) <= MaxDepth

Moved(p, q) ==
    [r \in Paths |->
        IF p = q THEN fs[r]
        ELSE IF r = q THEN fs[p]
        ELSE IF Below(q, r)
             THEN LET from == p \o SubSeq(r, Len(q) + 1, Len(r))
                  IN IF from \in Paths THEN fs[from] ELSE Absent
        ELSE IF r = p \/ Below(p, r) THEN Absent
        ELSE fs[r]]
-----------------------------------------------------------------------------
(* The requests.                                                           *)

Reply(func, result) ==
    [func |-> func, result |-> result, size |-> 0,
     action |-> [exists |-> 0, create |-> FALSE]]

\* An answer that goes with no change of state.
Answer(func, result) ==
    reply' = Reply(func, result) /\ UNCHANGED <<fs, table, opened>>

\* edfs_open answers with the file's size and cluster.
OpenReply(p, i, action, tree) ==
    /\ fs' = tree
    /\ IF Resolve(p) \in Paths /\ tree[Resolve(p)].kind = "file"
       THEN /\ reply' = [Reply("OPEN", "OK") EXCEPT !.size = tree[Resolve(p)].size,
                                                   !.action = action]
            /\ opened' = [opened EXCEPT ![i] = p]
       ELSE /\ reply' = [Reply("OPEN", "NOT_FOUND") EXCEPT !.action = action]
            /\ UNCHANGED opened

\* edfs_open of a path that is not in the table. Creating it opens the host
\* file with "w+b".
open_unknown(p83, action) ==
    /\ edfs_cluster_lookup_83(table, p83) = 0
    /\ LET p == path83_to_unixpath(table, p83)
           t == edfs_cluster_register(table, p, p83)
           i == edfs_cluster_lookup_83(t, p83)
           tree == [fs EXCEPT ![p] = File(0)]
       IN IF ~action.create THEN Answer("OPEN", "NOT_FOUND")
          ELSE IF ~CanCreate(p) THEN Answer("OPEN", "NOT_FOUND")
          ELSE /\ table' = t
               /\ IF i = 0
                  THEN /\ fs' = tree
                       /\ reply' = [Reply("OPEN", "NOT_FOUND") EXCEPT !.action = action]
                       /\ UNCHANGED opened
                  ELSE OpenReply(t[i].path, i, action, tree)

\* edfs_open of a path that is in the table. Truncating it derives the host
\* path from the 8.3 path again, the answer is about the one in the table.
open_known(p83, action) ==
    LET i == edfs_cluster_lookup_83(table, p83)
        p == path83_to_unixpath(table, p83)
    IN /\ i # 0
       /\ UNCHANGED table
       /\ IF action.exists # 2 THEN OpenReply(table[i].path, i, action, fs)
          ELSE IF CanCreate(p)
               THEN OpenReply(table[i].path, i, action, [fs EXCEPT ![p] = File(0)])
               ELSE Answer("OPEN", "NOT_FOUND")

edfs_open == \E p83 \in Paths83, action \in Actions :
                open_unknown(p83, action) \/ open_known(p83, action)

\* A directory can be opened for reading, and gives no bytes.
edfs_read == \E c \in 0 .. ClusterMax :
    Answer("READFILE", IF c >= Len(table) THEN "NOT_FOUND"
                     ELSE IF Stat(table[c + 1].path) = Absent THEN "DENIED" ELSE "OK")

\* Only at the end of the file. A directory cannot be opened for appending.
edfs_write == \E c \in 0 .. ClusterMax, offset \in 0 .. MaxSize - 1 :
    IF c >= Len(table) \/ Stat(table[c + 1].path) = Absent
    THEN Answer("WRITEFILE", "NOT_FOUND")
    ELSE IF Stat(table[c + 1].path) # File(offset)
    THEN Answer("WRITEFILE", "DENIED")
    ELSE /\ fs' = [fs EXCEPT ![table[c + 1].path] = File(offset + 1)]
         /\ reply' = Reply("WRITEFILE", "OK")
         /\ UNCHANGED <<table, opened>>

\* edfs_rmdir and edfs_delete differ in the host call.
RemoveEntry(func, p83, Removable(_)) ==
    LET i == edfs_cluster_lookup_83(table, p83)
    IN IF i = 0 THEN Answer(func, "NOT_FOUND")
       ELSE IF ~Removable(table[i].path) THEN Answer(func, "DENIED")
       ELSE /\ fs' = [fs EXCEPT ![table[i].path] = Absent]
            /\ table' = edfs_cluster_unregister(table, table[i].path)
            /\ reply' = Reply(func, "OK")
            /\ UNCHANGED opened

edfs_rmdir == \E p83 \in Paths83 :
    RemoveEntry("RMDIR", p83, LAMBDA p : p \in Paths /\ fs[p] = Dir /\ Empty(p))

edfs_delete == \E p83 \in Paths83 :
    RemoveEntry("DELETE", p83, LAMBDA p : p \in Paths /\ fs[p].kind = "file")

edfs_mkdir == \E p83 \in Paths83 :
    LET p == path83_to_unixpath(table, p83)
    IN IF ~CanMkdir(p) THEN Answer("MKDIR", "DENIED")
       ELSE /\ fs' = [fs EXCEPT ![p] = Dir]
            /\ table' = edfs_cluster_register(table, p, p83)
            /\ reply' = Reply("MKDIR", "OK")
            /\ UNCHANGED opened

edfs_rename == \E src \in Paths83, dst \in Paths83 :
    LET i == edfs_cluster_lookup_83(table, src)
        q == path83_to_unixpath(table, dst)
    IN IF i = 0 THEN Answer("RENAME", "NOT_FOUND")
       ELSE IF ~CanRename(table[i].path, q) THEN Answer("RENAME", "DENIED")
       ELSE /\ fs' = Moved(table[i].path, q)
            /\ table' = edfs_cluster_register(
                           edfs_cluster_unregister(table, table[i].path), q, dst)
            /\ reply' = Reply("RENAME", "OK")
            /\ UNCHANGED opened

\* edfs_chdir and edfs_getattr only look; CLOSEFILE, SETATTR and DISKSPACE do
\* not even do that.
edfs_chdir == \E p83 \in Paths83 \cup {Root} :
    LET i == edfs_cluster_lookup_83(table, p83)
    IN Answer("CHDIR", IF i # 0 /\ Stat(PathOf(table, i, p83)) = Dir THEN "OK" ELSE "NOT_FOUND")

edfs_getattr == \E p83 \in Paths83 :
    LET i == edfs_cluster_lookup_83(table, p83)
    IN Answer("GETATTR", IF i # 0 /\ Stat(table[i].path) # Absent THEN "OK" ELSE "NOT_FOUND")

edfs_nothing == \E func \in {"CLOSEFILE", "SETATTR", "DISKSPACE"} : Answer(func, "OK")

\* A search for the volume label.
edfs_find_volume == Answer("FINDVOLUME", "NO_MORE_MATCH")
-----------------------------------------------------------------------------
(* Directory search.                                                       *)

\* What readdir goes through; "." and ".." are skipped in the root. Hidden
\* files and what is neither a file nor a directory are passed over without a
\* trace, and have no name here.
ReadOrder(dir) == (IF dir = Root THEN <<>> ELSE <<".", "..">>) \o HostOrder

InDirectory(dir, n) ==
    n \in Dots \/ (Append(dir, n) \in Paths /\ fs[Append(dir, n)] # Absent)

\* One turn of edfs_find's loop over the entries of dir. Each entry has a
\* position; directories are passed over unless the client asks for them;
\* every other one is registered; the search stops at the first match, or for
\* FINDNEXT at a match in the position after the last one.
edfs_find_entry(dir, what, target, s, n) ==
    LET p == Append(dir, n)
        pos == s.pos + 1
        name == unixpath_to_path83(<<n>>)[1]
    IN IF s.found \/ ~InDirectory(dir, n) THEN s
       ELSE IF Stat(p) = Dir /\ ~what.dirs THEN [s EXCEPT !.pos = pos]
       ELSE [table |-> edfs_cluster_register(s.table, p, unixpath_to_path83(p)),
             pos   |-> pos,
             found |-> name \in what.pattern /\ (target = 0 \/ target + 1 = pos)]

\* The loop: its state after the first k names.
FindLoop(dir, what, target) ==
    LET after[k \in 0 .. Len(ReadOrder(dir))] ==
            IF k = 0 THEN [table |-> table, pos |-> 0, found |-> FALSE]
            ELSE edfs_find_entry(dir, what, target, after[k - 1], ReadOrder(dir)[k])
    IN after

\* edfs_find in a directory of the host. It gives up at a name that stat fails
\* on, such as a dangling link, which may stand anywhere in the directory; the
\* entries before it stay registered.
edfs_find(func, dir, what, target) ==
    LET after == FindLoop(dir, what, target)
        last == Len(ReadOrder(dir))
    IN IF Stat(dir) # Dir THEN Answer(func, "NOT_FOUND")
       ELSE /\ \/ /\ table' = after[last].table
                  /\ reply' = Reply(func, IF after[last].found THEN "OK" ELSE "NO_MORE_MATCH")
               \/ \E k \in 0 .. last :
                     /\ ~after[k].found
                     /\ table' = after[k].table /\ reply' = Reply(func, "NOT_FOUND")
            /\ UNCHANGED <<fs, opened>>

edfs_findfirst == \E dir83 \in Paths83 \cup {Root}, what \in Searches :
    LET i == edfs_cluster_lookup_83(table, dir83)
    IN IF i = 0 THEN Answer("FINDFIRST", "NOT_FOUND")
       ELSE edfs_find("FINDFIRST", PathOf(table, i, dir83), what, 0)

\* The client passes on the cluster and the position of any earlier answer,
\* any number of other requests later: what the cluster stood for may be gone.
\* It searches no directory by the names "." and "..".
edfs_findnext == \E i \in DOMAIN table, pos \in 1 .. Len(HostOrder) + 2, what \in Searches :
    /\ table[i].path \in Paths \cup {Root}
    /\ edfs_find("FINDNEXT", table[i].path, what, pos)

edfs_handle_packet ==
    \/ edfs_open \/ edfs_read \/ edfs_write \/ edfs_rmdir \/ edfs_delete
    \/ edfs_mkdir \/ edfs_rename \/ edfs_chdir \/ edfs_getattr \/ edfs_nothing
    \/ edfs_find_volume \/ edfs_findfirst \/ edfs_findnext

\* Any tree the host directory may hold; edfs_init registers the root.
Init ==
    /\ fs \in {tree \in [Paths -> {Absent, Dir, File(1)}] : WellFormed(tree)}
    /\ table = <<[path |-> Root, path83 |-> Root]>>
    /\ opened = [i \in 1 .. ClusterMax |-> NoPath]
    /\ reply = Reply("NONE", "OK")

Spec == Init /\ [][edfs_handle_packet]_vars
-----------------------------------------------------------------------------
(* Properties.                                                             *)

\* A cluster number that an open returned never comes to stand for another
\* file, however files are removed, renamed and created meanwhile: its slot
\* holds the path it was opened as, or has been emptied.
HandleStable ==
    \A i \in DOMAIN table :
       opened[i] # NoPath => table[i].path \in {opened[i], Root}

\* A host path has one cluster, so that two handles of a file agree.
OneClusterPerPath ==
    \A i, j \in DOMAIN table :
       table[i].path = table[j].path /\ table[i].path # Root => i = j

\* The 8.3 path of a cluster is the conversion of its host path, also for
\* paths that came from the client and went through path83_to_unixpath.
Path83Agrees ==
    \A i \in DOMAIN table : table[i].path83 = unixpath_to_path83(table[i].path)
=============================================================================
