------------------------------ MODULE SsfsProofs ------------------------------
(***************************************************************************)
(* Proofs about Ssfs, for disks and directories of any size and any names, *)
(* with one thread that may be killed at every step.  The directory on     *)
(* disk is always well formed, even when the block map is damaged.  As     *)
(* long as none of the three flaws that break the disk has occurred, its   *)
(* blocks are divided into the free list and one list for every file, and  *)
(* no call disturbs the files that it does not name.  With more threads    *)
(* none of this is so: when another handler reads the directory again      *)
(* before do_unlink has saved it, the removal is undone and do_rename      *)
(* enters the new name a second time.                                      *)
(***************************************************************************)
EXTENDS MCSsfs, FiniteSetTheorems, WellFoundedInduction, TLAPS

(* A directory, whatever its sizes and first blocks are. *)
EntryFields == {"name", "size_bytes", "first_block"}
Table(dir) ==
  /\ DOMAIN dir = Index
  /\ \A i \in Index : DOMAIN dir[i] = EntryFields /\ dir[i].name \in Name \cup {Empty}

(* The first n entries have names, no two the same, and the others have none. *)
Packed(dir, n) ==
  /\ n \in 0 .. DIR_ENTRIES
  /\ \A i \in Index : dir[i].name # Empty <=> i < n
  /\ \A i, j \in Index : dir[i].name = dir[j].name /\ dir[i].name # Empty => i = j
WellFormed(dir) == \E n \in 0 .. DIR_ENTRIES : Packed(dir, n)

SameNames(dir, other) == \A i \in Index : dir[i].name = other[i].name
Lacks(dir, path) == \A i \in Index : dir[i].name # path

(* i is not behind the first empty entry *)
Reaches(dir, i) == i > 0 => dir[i - 1].name # Empty

-------------------------------------------------------------------------------
(* Lemmas about the directory. *)

(* A member that no other is below is the minimum. *)
LEMMA MinIsLeast ==
  ASSUME NEW S \in SUBSET Int, NEW m \in S, \A y \in S : m <= y
  PROVE  Min(S) = m
<1>1. Min(S) \in S /\ \A y \in S : Min(S) <= y
  BY Zenon DEF Min
<1>2. Min(S) <= m /\ m <= Min(S) /\ Min(S) \in Int /\ m \in Int
  BY <1>1
<1>3. QED
  BY <1>2

(* first_empty_dir_entry returns the length of a packed table. *)
LEMMA PackedFirstEmpty ==
  ASSUME NEW dir, NEW n, Packed(dir, n)
  PROVE  FirstEmpty(dir) = n
<1> DEFINE S == {i \in Index : dir[i].name = Empty} \cup {DIR_ENTRIES}
<1>1. S \in SUBSET Int
  BY FsAssumption DEF Index
<1>2. n \in S
  BY FsAssumption DEF Packed, Index
<1>3. \A y \in S : n <= y
  BY FsAssumption DEF Packed, Index
<1> HIDE DEF S
<1>4. Min(S) = n
  BY <1>1, <1>2, <1>3, MinIsLeast
<1>5. QED
  BY <1>4 DEF S, FirstEmpty

(* find_dir_entry sees every entry that has the name. *)
LEMMA PackedMatches ==
  ASSUME NEW dir, NEW n, Packed(dir, n), NEW path \in Name
  PROVE  Matches(dir, path) = {i \in Index : dir[i].name = path}
<1>1. Active(dir) = 0 .. n - 1
  BY PackedFirstEmpty DEF Active
<1>2. path # Empty
  BY FsAssumption
<1>3. \A i \in Index : dir[i].name = path => i \in 0 .. n - 1
  BY <1>2, FsAssumption DEF Packed, Index
<1>4. 0 .. n - 1 \subseteq Index
  BY FsAssumption DEF Packed, Index
<1>5. QED
  BY <1>1, <1>3, <1>4 DEF Matches

(* find_dir_entry returns the entry that has the name, if there is one. *)
LEMMA FoundEntry ==
  ASSUME NEW dir, WellFormed(dir), NEW path \in Name, Exists(dir, path)
  PROVE  /\ find_dir_entry(dir, path) \in Index
         /\ dir[find_dir_entry(dir, path)].name = path
<1>1. PICK n \in 0 .. DIR_ENTRIES : Packed(dir, n)
  BY DEF WellFormed
<1>2. Matches(dir, path) = {i \in Index : dir[i].name = path}
  BY <1>1, PackedMatches
<1>3. PICK i \in Matches(dir, path) : TRUE
  BY DEF Exists
<1>4. i \in Index /\ dir[i].name = path /\ i \in Int
  BY <1>2, <1>3, FsAssumption DEF Index
<1>5. Matches(dir, path) = {i}
  <2>1. path # Empty
    BY FsAssumption
  <2>2. \A j \in Matches(dir, path) : j = i
    BY <1>1, <1>2, <1>4, <2>1 DEF Packed
  <2> QED BY <1>3, <2>2
<1>6. Min({i}) = i
  BY <1>4, MinIsLeast
<1>7. find_dir_entry(dir, path) = i
  BY <1>5, <1>6 DEF find_dir_entry
<1>8. QED
  BY <1>4, <1>7

LEMMA MissingEntry ==
  ASSUME NEW dir, WellFormed(dir), NEW path \in Name, ~Exists(dir, path)
  PROVE  Lacks(dir, path)
<1>1. PICK n \in 0 .. DIR_ENTRIES : Packed(dir, n)
  BY DEF WellFormed
<1>2. Matches(dir, path) = {i \in Index : dir[i].name = path}
  BY <1>1, PackedMatches
<1>3. QED
  BY <1>2 DEF Exists, Lacks

(* Being well formed and lacking a name are a matter of the names alone. *)
LEMMA NamesDecide ==
  ASSUME NEW dir, NEW other, SameNames(dir, other)
  PROVE  /\ WellFormed(other) => WellFormed(dir)
         /\ \A path : Lacks(other, path) => Lacks(dir, path)
         /\ \A i \in Index : Reaches(other, i) => Reaches(dir, i)
<1>1. \A n : Packed(other, n) => Packed(dir, n)
  BY DEF Packed, SameNames
<1>2. WellFormed(other) => WellFormed(dir)
  BY <1>1 DEF WellFormed
<1>3. \A i \in Index : i > 0 => i - 1 \in Index
  BY FsAssumption DEF Index
<1>4. QED
  BY <1>2, <1>3 DEF SameNames, Lacks, Reaches

(* An entry with a name is not behind the first empty one. *)
LEMMA NamedIsReached ==
  ASSUME NEW dir, WellFormed(dir), NEW i \in Index, dir[i].name # Empty
  PROVE  Reaches(dir, i)
BY FsAssumption DEF WellFormed, Packed, Reaches, Index

(* A new name may go where a name stands or into the first empty entry. *)
LEMMA NewName ==
  ASSUME NEW dir, WellFormed(dir), NEW path \in Name, Lacks(dir, path),
         NEW i \in Index, Reaches(dir, i),
         NEW new, new[i].name = path, \A j \in Index \ {i} : new[j].name = dir[j].name
  PROVE  WellFormed(new)
<1>1. PICK n \in 0 .. DIR_ENTRIES : Packed(dir, n)
  BY DEF WellFormed
<1>2. n \in Int /\ i \in Int /\ DIR_ENTRIES \in Int /\ i <= n /\ i >= 0 /\ i < DIR_ENTRIES
  BY <1>1, FsAssumption DEF Packed, Reaches, Index
<1>3. path # Empty
  BY FsAssumption
<1>4. \A j, k \in Index : new[j].name = new[k].name /\ new[j].name # Empty => j = k
  BY <1>1 DEF Packed, Lacks
<1>5. CASE i < n
  <2>1. \A j \in Index : new[j].name # Empty <=> j < n
    BY <1>1, <1>3, <1>5 DEF Packed
  <2>2. Packed(new, n)
    BY <1>4, <2>1 DEF Packed
  <2> QED BY <2>2 DEF WellFormed
<1>6. CASE i = n
  <2>1. \A j \in Index : new[j].name # Empty <=> j < n + 1
    <3> TAKE j \in Index
    <3>1. j \in Int
      BY FsAssumption DEF Index
    <3>2. CASE j = i
      BY <1>2, <1>3, <1>6, <3>2
    <3>3. CASE j # i
      <4>1. new[j].name # Empty <=> j < n
        BY <1>1, <3>3 DEF Packed
      <4> QED BY <1>2, <1>6, <3>1, <3>3, <4>1
    <3> QED BY <3>2, <3>3
  <2>2. n + 1 \in 0 .. DIR_ENTRIES
    BY <1>2, <1>6
  <2>3. Packed(new, n + 1)
    BY <1>4, <2>1, <2>2 DEF Packed
  <2> QED BY <2>2, <2>3 DEF WellFormed
<1>7. QED
  BY <1>2, <1>5, <1>6

(* scooch_dir_entries stops at the last entry that has a name. *)
LEMMA PackedLastMoved ==
  ASSUME NEW dir, NEW n, Packed(dir, n), NEW di \in Index, dir[di].name # Empty
  PROVE  LastMoved(dir, di) = n - 1
<1> DEFINE S == {i \in Index : i >= di /\ (i = DIR_ENTRIES - 1 \/ dir[i + 1].name = Empty)}
<1>1. n \in Int /\ di \in Int /\ DIR_ENTRIES \in Int
      /\ di < n /\ 0 <= di /\ n <= DIR_ENTRIES
  BY FsAssumption DEF Packed, Index
<1>2. S \in SUBSET Int
  BY FsAssumption DEF Index
<1>3. n - 1 \in S
  <2>1. n - 1 \in Index /\ n - 1 >= di
    BY <1>1 DEF Index
  <2>2. CASE n = DIR_ENTRIES
    BY <2>1, <2>2
  <2>3. CASE n # DIR_ENTRIES
    <3>1. n \in Index /\ n - 1 + 1 = n
      BY <1>1, <2>3 DEF Index
    <3>2. dir[n].name = Empty
      BY <1>1, <3>1 DEF Packed
    <3> QED BY <2>1, <3>1, <3>2
  <2> QED BY <2>2, <2>3
<1>4. \A y \in S : n - 1 <= y
  <2> TAKE y \in S
  <2>1. y \in Int /\ y \in Index
    BY FsAssumption DEF Index
  <2>2. CASE y = DIR_ENTRIES - 1
    BY <1>1, <2>1, <2>2
  <2>3. CASE y # DIR_ENTRIES - 1
    <3>1. y + 1 \in Index /\ dir[y + 1].name = Empty
      BY <1>1, <2>1, <2>3 DEF Index
    <3>2. ~(y + 1 < n)
      BY <3>1 DEF Packed
    <3> QED BY <1>1, <2>1, <3>2
  <2> QED BY <2>2, <2>3
<1> HIDE DEF S
<1>5. Min(S) = n - 1
  BY <1>2, <1>3, <1>4, MinIsLeast
<1>6. QED
  BY <1>5 DEF S, LastMoved

(* scooch_dir_entries takes one name out of the table and leaves no hole; an
   index that held a name is then at most the first empty entry. *)
LEMMA Scooched ==
  ASSUME NEW dir, Table(dir), WellFormed(dir), NEW di \in Index, dir[di].name # Empty
  PROVE  LET new == scooch_dir_entries(dir, di) IN
         /\ Table(new) /\ WellFormed(new) /\ Lacks(new, dir[di].name)
         /\ \A i \in Index : dir[i].name # Empty => Reaches(new, i)
<1> DEFINE new == scooch_dir_entries(dir, di)
<1>1. PICK n \in 0 .. DIR_ENTRIES : Packed(dir, n)
  BY DEF WellFormed
<1>2. n \in Int /\ di \in Int /\ DIR_ENTRIES \in Int
      /\ di < n /\ 0 <= di /\ n <= DIR_ENTRIES
  BY <1>1, FsAssumption DEF Packed, Index
<1>3. new = [i \in Index |-> IF i \in di .. (n - 1) - 1 THEN dir[i + 1]
                             ELSE IF i = n - 1 THEN [dir[i] EXCEPT !.name = Empty]
                             ELSE dir[i]]
  BY <1>1, PackedLastMoved DEF scooch_dir_entries
<1> HIDE DEF new
<1>4. \A i \in Index : i \in Int /\ 0 <= i /\ i < DIR_ENTRIES
  BY FsAssumption DEF Index
<1>5. \A i \in Index : di <= i /\ i < n - 1 => i + 1 \in Index /\ new[i] = dir[i + 1]
  BY <1>2, <1>3, <1>4 DEF Index
<1>6. \A i \in Index : i < di \/ i >= n => new[i] = dir[i]
  BY <1>2, <1>3, <1>4
<1>7. n - 1 \in Index /\ DOMAIN new[n - 1] = EntryFields /\ new[n - 1].name = Empty
  <2>1. n - 1 \in Index
    BY <1>2 DEF Index
  <2>2. new[n - 1] = [dir[n - 1] EXCEPT !.name = Empty]
    BY <1>2, <1>3, <2>1
  <2> QED BY <2>1, <2>2 DEF Table, EntryFields
<1>8. Table(new)
  <2>1. DOMAIN new = Index
    BY <1>3
  <2>2. ASSUME NEW i \in Index
        PROVE  DOMAIN new[i] = EntryFields /\ new[i].name \in Name \cup {Empty}
    <3>1. CASE di <= i /\ i < n - 1
      BY <1>5, <3>1 DEF Table
    <3>2. CASE i < di \/ i >= n
      BY <1>6, <3>2 DEF Table
    <3>3. CASE i = n - 1
      BY <1>7, <3>3
    <3> QED BY <1>2, <1>4, <3>1, <3>2, <3>3
  <2> QED BY <2>1, <2>2 DEF Table
<1>9. \A i \in Index : new[i].name # Empty <=> i < n - 1
  <2> TAKE i \in Index
  <2>1. CASE di <= i /\ i < n - 1
    <3>1. dir[i + 1].name # Empty <=> i + 1 < n
      BY <1>1, <1>5, <2>1 DEF Packed
    <3> QED BY <1>2, <1>4, <1>5, <2>1, <3>1
  <2>2. CASE i < di \/ i >= n
    BY <1>1, <1>2, <1>4, <1>6, <2>2 DEF Packed
  <2>3. CASE i = n - 1
    BY <1>2, <1>7, <2>3
  <2>4. (di <= i /\ i < n - 1) \/ (i < di \/ i >= n) \/ i = n - 1
    BY <1>2, <1>4
  <2> QED BY <2>1, <2>2, <2>3, <2>4
(* each name of the new table stood in the old one at another index than di,
   at distinct indices for distinct entries *)
<1> DEFINE from(i) == IF i < di THEN i ELSE i + 1
<1>10. \A i \in Index : new[i].name # Empty =>
         from(i) \in Index /\ from(i) # di /\ new[i].name = dir[from(i)].name
  <2> SUFFICES ASSUME NEW i \in Index, i < n - 1
               PROVE  from(i) \in Index /\ from(i) # di /\ new[i].name = dir[from(i)].name
    BY <1>9
  <2>1. CASE i < di
    BY <1>2, <1>4, <1>6, <2>1
  <2>2. CASE ~(i < di)
    BY <1>2, <1>4, <1>5, <2>2
  <2> QED BY <2>1, <2>2
<1>11. \A i, j \in Index : new[i].name = new[j].name /\ new[i].name # Empty => i = j
  <2> SUFFICES ASSUME NEW i \in Index, NEW j \in Index,
                      new[i].name = new[j].name, new[i].name # Empty
               PROVE  i = j
    OBVIOUS
  <2>1. from(i) = from(j)
    <3> HIDE DEF from
    <3> QED BY <1>1, <1>10 DEF Packed
  <2>2. i \in Int /\ j \in Int
    BY <1>4
  <2>3. CASE i < di
    BY <1>2, <2>1, <2>2, <2>3
  <2>4. CASE ~(i < di)
    BY <1>2, <2>1, <2>2, <2>4
  <2> QED BY <2>3, <2>4
<1>12. Lacks(new, dir[di].name)
  <2> HIDE DEF from
  <2> QED BY <1>1, <1>10 DEF Packed, Lacks
<1>13. n - 1 \in 0 .. DIR_ENTRIES
  BY <1>2
<1>14. WellFormed(new)
  <2>1. Packed(new, n - 1)
    BY <1>9, <1>11, <1>13 DEF Packed
  <2> QED BY <1>13, <2>1 DEF WellFormed
<1>15. \A i \in Index : dir[i].name # Empty => Reaches(new, i)
  <2> SUFFICES ASSUME NEW i \in Index, dir[i].name # Empty, i > 0
               PROVE  new[i - 1].name # Empty
    BY DEF Reaches
  <2>1. i < n /\ i - 1 \in Index /\ i - 1 < n - 1
    BY <1>1, <1>2, <1>4 DEF Packed, Index
  <2> QED BY <1>9, <2>1
<1>16. QED
  BY <1>8, <1>12, <1>14, <1>15 DEF new

(* What well formed means for the two operators of the property. *)
LEMMA WellFormedIsProperty ==
  ASSUME NEW dir, WellFormed(dir)
  PROVE  /\ \A i \in Index : dir[i].name # Empty => i \in Active(dir)
         /\ \A path \in Name : Cardinality(Matches(dir, path)) <= 1
<1>1. PICK n \in 0 .. DIR_ENTRIES : Packed(dir, n)
  BY DEF WellFormed
<1>2. Active(dir) = 0 .. n - 1
  BY <1>1, PackedFirstEmpty DEF Active
<1>3. \A i \in Index : dir[i].name # Empty => i \in Active(dir)
  BY <1>1, <1>2, FsAssumption DEF Packed, Index
<1>4. ASSUME NEW path \in Name
      PROVE  Cardinality(Matches(dir, path)) <= 1
  <2>1. Matches(dir, path) = {i \in Index : dir[i].name = path}
    BY <1>1, PackedMatches
  <2>2. CASE Matches(dir, path) = {}
    <3>1. Cardinality(Matches(dir, path)) = 0
      BY <2>2, FS_EmptySet
    <3> QED BY <3>1
  <2>3. CASE \E i : Matches(dir, path) = {i}
    <3>1. Cardinality(Matches(dir, path)) = 1
      BY <2>3, FS_Singleton
    <3> QED BY <3>1
  <2>4. Matches(dir, path) # {} => \E i : Matches(dir, path) = {i}
    <3> SUFFICES ASSUME NEW i \in Matches(dir, path)
                 PROVE  Matches(dir, path) = {i}
      OBVIOUS
    <3>1. path # Empty
      BY FsAssumption
    <3> QED BY <1>1, <2>1, <3>1 DEF Packed
  <2> QED BY <2>2, <2>3, <2>4
<1>5. QED
  BY <1>3, <1>4

-------------------------------------------------------------------------------
(* The invariant. *)

ThreadFields == {"pc", "call", "di", "udi", "tdi", "crtblk", "blkoffs", "fresh"}
Removed(c) == IF c.op = "rename" THEN c.npath ELSE c.path

(* The variables of a thread: indices into the directory, and at each place a
   call whose handler gets there. *)
Shaped(s) ==
  /\ DOMAIN s = ThreadFields
  /\ {s.di, s.udi, s.tdi} \subseteq Index
  /\ s.pc \in PC
  /\ s.pc \notin {"idle", "getattr"} => s.call.path \in Name
  /\ s.call.op = "rename" => s.call.npath \in Name
Serves(s) ==
  /\ s.pc \in {"create", "create_save"} => s.call.op = "create"
  /\ s.pc \in {"write", "write_map", "write_save", "navigate"} => s.call.op = "write"
  /\ s.pc \in {"truncate", "freeing", "truncate_save"} =>
       s.call.op \in {"truncate", "unlink", "rename"}
  /\ s.pc \in {"unlink", "scooch", "unlink_save"} => s.call.op \in {"unlink", "rename"}
  /\ s.pc \in {"rename", "rename_entry", "rename_save"} => s.call.op = "rename"

(* What a thread at a place knows of the directory on disk, dir, and of the
   cache: where the cache is new it may be saved, elsewhere it has the names
   of the disk. *)
CacheFits(s, dir, cache) ==
  /\ s.pc \in {"create_save", "unlink_save", "rename_save"} => WellFormed(cache)
  /\ s.pc \in {"write_map", "write_save", "freeing", "truncate_save", "scooch", "rename_entry"} =>
       SameNames(cache, dir)

(* do_unlink holds the entry it removes; do_rename holds one with a name, and
   after the removal one that is at most the first empty entry *)
IndicesFit(s, dir, cache) ==
  /\ s.pc = "create" => Lacks(dir, s.call.path)
  /\ s.pc \in {"truncate", "freeing", "truncate_save", "scooch"} /\ s.call.op # "truncate" =>
       dir[s.udi].name = Removed(s.call)
  /\ s.call.op = "rename" =>
       (s.pc \in {"unlink", "truncate", "freeing", "truncate_save", "scooch"} =>
          dir[s.di].name # Empty)
  /\ s.pc = "unlink_save" /\ s.call.op = "rename" =>
       Lacks(cache, s.call.npath) /\ Reaches(cache, s.di)
  /\ s.pc = "rename_entry" => Lacks(dir, s.call.npath) /\ Reaches(dir, s.di)

Good(s, dir, cache) ==
  Shaped(s) /\ Serves(s) /\ CacheFits(s, dir, cache) /\ IndicesFit(s, dir, cache)

IInv ==
  /\ Table(disk_dir) /\ WellFormed(disk_dir) /\ Table(bdir)
  /\ DOMAIN thread = Thread
  /\ \A t \in Thread : Good(thread[t], disk_dir, bdir)

(* mounted with -s *)
SingleThread == \A t, u \in Thread : t = u

-------------------------------------------------------------------------------
(* Every step keeps the invariant. *)

LEMMA IdleIsGood ==
  ASSUME NEW dir, NEW cache
  PROVE  Good(Idle, dir, cache)
<1>1. 0 \in Index
  BY FsAssumption DEF Index
<1>2. QED
  BY <1>1 DEF Good, Shaped, Serves, CacheFits, IndicesFit, Idle, NoCall, ThreadFields, PC

(* What a step of the only thread has to show. *)
LEMMA Stepped ==
  ASSUME IInv, SingleThread, NEW t \in Thread, NEW s, thread' = [thread EXCEPT ![t] = s],
         Table(disk_dir'), WellFormed(disk_dir'), Table(bdir'), Good(s, disk_dir', bdir')
  PROVE  IInv'
<1>1. DOMAIN thread' = Thread /\ thread'[t] = s
  BY DEF IInv
<1>2. \A u \in Thread : u = t
  BY DEF SingleThread
<1>3. \A u \in Thread : Good(thread'[u], disk_dir', bdir')
  BY <1>1, <1>2
<1>4. QED
  BY <1>1, <1>3 DEF IInv

LEMMA Returned ==
  ASSUME IInv, SingleThread, NEW t \in Thread, Return(t),
         Table(disk_dir'), WellFormed(disk_dir'), Table(bdir')
  PROVE  IInv'
BY IdleIsGood, Stepped DEF Return

(* An entry of a directory changes, but not its name. *)
LEMMA EntryResized ==
  ASSUME NEW dir, Table(dir), NEW i \in Index, NEW entry,
         DOMAIN entry = EntryFields, entry.name = dir[i].name,
         NEW new, new = [dir EXCEPT ![i] = entry]
  PROVE  Table(new) /\ SameNames(new, dir)
BY DEF Table, SameNames

LEMMA BeginKeeps ==
  ASSUME IInv, SingleThread, NEW t \in Thread, Begin(t)
  PROVE  IInv'
<1>1. PICK c \in Call : Admitted(c) /\ thread' = [thread EXCEPT ![t].pc = c.op, ![t].call = c]
  BY DEF Begin
<1> DEFINE s == [thread[t] EXCEPT !.pc = c.op, !.call = c]
<1>2. Good(thread[t], disk_dir, bdir) /\ thread[t] = Idle
  BY DEF IInv, Begin
<1>3. c.op \in {"getattr", "create", "truncate", "unlink", "rename", "write"} /\ c.path \in Name
      /\ (c.op = "rename" => c.npath \in Name)
  BY DEF Call
<1>4. c.op = "create" => Lacks(disk_dir, c.path)
  BY <1>1, <1>3, MissingEntry DEF Admitted, IInv
<1>5. s.pc = c.op /\ s.call = c /\ DOMAIN s = ThreadFields /\ {s.di, s.udi, s.tdi} \subseteq Index
  BY <1>2 DEF Good, Shaped, ThreadFields
<1> HIDE DEF s
<1>6. Good(s, disk_dir, bdir)
  <2>1. Shaped(s)
    BY <1>3, <1>5 DEF Shaped, PC
  <2>2. Serves(s)
    BY <1>3, <1>5 DEF Serves
  <2>3. CacheFits(s, disk_dir, bdir)
    BY <1>3, <1>5 DEF CacheFits
  <2>4. IndicesFit(s, disk_dir, bdir)
    <3>1. s.pc = "unlink" => s.call.op = "unlink"
      BY <1>5
    <3>2. s.pc = "truncate" => s.call.op = "truncate"
      BY <1>5
    <3> QED BY <1>3, <1>4, <1>5, <3>1, <3>2 DEF IndicesFit
  <2> QED BY <2>1, <2>2, <2>3, <2>4 DEF Good
<1>7. thread' = [thread EXCEPT ![t] = s] /\ disk_dir' = disk_dir /\ bdir' = bdir
  BY <1>1 DEF Begin, s
<1>8. QED
  BY <1>6, <1>7, Stepped DEF IInv

LEMMA CreateKeeps ==
  ASSUME IInv, SingleThread, NEW t \in Thread,
         GetAttr(t) \/ CreateFull(t) \/ CreateEntry(t) \/ CreateSave(t)
  PROVE  IInv'
<1>1. Good(thread[t], disk_dir, bdir) /\ Table(disk_dir) /\ WellFormed(disk_dir) /\ Table(bdir)
  BY DEF IInv
<1>2. CASE GetAttr(t) \/ CreateFull(t)
  BY <1>1, <1>2, Returned DEF GetAttr, CreateFull
<1>3. CASE CreateEntry(t)
  <2> DEFINE i == FirstEmpty(disk_dir)
             entry == [name |-> Path(t), size_bytes |-> 0, first_block |-> EOF_BLOCK]
             s == [thread[t] EXCEPT !.pc = "create_save"]
  <2>1. Path(t) \in Name /\ Lacks(disk_dir, Path(t))
    BY <1>1, <1>3 DEF CreateEntry, At, Path, Good, Shaped, IndicesFit
  <2>2. i \in Index /\ Reaches(disk_dir, i)
    <3>1. PICK n \in 0 .. DIR_ENTRIES : Packed(disk_dir, n)
      BY <1>1 DEF WellFormed
    <3>2. i = n /\ n < DIR_ENTRIES
      BY <1>3, <3>1, PackedFirstEmpty DEF CreateEntry
    <3>3. n \in Index /\ (n > 0 => n - 1 \in Index /\ n - 1 < n)
      BY <3>2, FsAssumption DEF Index
    <3> HIDE DEF i
    <3> QED BY <3>1, <3>2, <3>3 DEF Packed, Reaches
  <2>3. bdir' = [disk_dir EXCEPT ![i] = entry] /\ disk_dir' = disk_dir
        /\ thread' = [thread EXCEPT ![t] = s]
    BY <1>3 DEF CreateEntry, GoTo
  <2>4. DOMAIN entry = EntryFields /\ entry.name = Path(t)
    BY DEF EntryFields
  <2> HIDE DEF i, entry
  <2>5. Table(bdir') /\ bdir'[i].name = Path(t)
        /\ \A j \in Index \ {i} : bdir'[j].name = disk_dir[j].name
    <3>1. entry.name \in Name \cup {Empty}
      BY <2>1, <2>4
    <3>2. bdir' = [disk_dir EXCEPT ![i] = entry]
      BY <2>3
    <3> QED BY <1>1, <2>2, <2>4, <3>1, <3>2 DEF Table
  <2>6. WellFormed(bdir')
    BY <1>1, <2>1, <2>2, <2>5, NewName
  <2>7. Good(s, disk_dir', bdir')
    <3>1. DOMAIN s = ThreadFields /\ s.pc = "create_save" /\ s.call = thread[t].call
          /\ s.di = thread[t].di /\ s.udi = thread[t].udi /\ s.tdi = thread[t].tdi
      BY <1>1 DEF Good, Shaped, ThreadFields
    <3>2. s.call.op = "create" /\ s.call.path \in Name
      BY <1>1, <1>3, <2>1, <3>1 DEF Good, Serves, CreateEntry, At, Path
    <3> HIDE DEF s
    <3> QED BY <1>1, <2>6, <3>1, <3>2 DEF Good, Shaped, Serves, CacheFits, IndicesFit, PC
  <2> HIDE DEF s
  <2> QED BY <1>1, <2>3, <2>5, <2>7, Stepped
<1>4. CASE CreateSave(t)
  BY <1>1, <1>4, Returned DEF CreateSave, SaveDirectory, At, Good, CacheFits
<1>5. QED
  BY <1>2, <1>3, <1>4

LEMMA WriteKeeps ==
  ASSUME IInv, SingleThread, NEW t \in Thread,
         WriteLookup(t) \/ WriteGrow(t) \/ WriteSave(t) \/ Navigate(t) \/ WriteData(t)
  PROVE  IInv'
<1>1. Good(thread[t], disk_dir, bdir) /\ Table(disk_dir) /\ WellFormed(disk_dir) /\ Table(bdir)
  BY DEF IInv
<1>2. /\ thread[t].call.op = "write"
      /\ thread[t].call.path \in Name
      /\ DOMAIN thread[t] = ThreadFields
      /\ {thread[t].di, thread[t].udi, thread[t].tdi} \subseteq Index
  BY <1>1 DEF Good, Shaped, Serves, WriteLookup, WriteGrow, WriteSave, Navigate, WriteData, At
(* a thread that serves a write knows nothing but whether the cache has the
   names of the disk *)
<1>3. ASSUME NEW s, DOMAIN s = ThreadFields, {s.di, s.udi, s.tdi} \subseteq Index,
             s.call = thread[t].call, s.pc \in {"write_map", "write_save", "navigate"},
             NEW dir, NEW cache, s.pc # "navigate" => SameNames(cache, dir)
      PROVE  Good(s, dir, cache)
  BY <1>2, <1>3 DEF Good, Shaped, Serves, CacheFits, IndicesFit, PC
<1>4. CASE WriteLookup(t)
  <2> DEFINE s == [thread[t] EXCEPT !.pc = "write_map", !.di = find_dir_entry(disk_dir, Path(t))]
  <2>1. find_dir_entry(disk_dir, Path(t)) \in Index
    BY <1>1, <1>2, <1>4, FoundEntry DEF WriteLookup, Found, Path
  <2>2. DOMAIN s = ThreadFields /\ {s.di, s.udi, s.tdi} \subseteq Index
        /\ s.call = thread[t].call /\ s.pc = "write_map"
    BY <1>2, <2>1 DEF ThreadFields
  <2>3. thread' = [thread EXCEPT ![t] = s] /\ disk_dir' = disk_dir /\ bdir' = disk_dir
    BY <1>4 DEF WriteLookup, Found
  <2> HIDE DEF s
  <2>4. SameNames(bdir', disk_dir')
    BY <2>3 DEF SameNames
  <2>5. Good(s, disk_dir', bdir')
    BY <1>3, <2>2, <2>4
  <2> QED BY <1>1, <2>3, <2>5, Stepped
<1>5. CASE WriteGrow(t)
  <2>1. SameNames(bdir, disk_dir) /\ disk_dir' = disk_dir
    BY <1>1, <1>5 DEF Good, CacheFits, WriteGrow, At
  <2>2. PICK size, first :
          \/ /\ bdir' = [bdir EXCEPT ![thread[t].di] =
                          [bdir[thread[t].di] EXCEPT !.size_bytes = size, !.first_block = first]]
             /\ \E fresh : thread' = [thread EXCEPT ![t].pc = "write_save", ![t].fresh = fresh]
          \/ Return(t) /\ UNCHANGED bdir
          \/ /\ \E crtblk, blkoffs : thread' = [thread EXCEPT ![t].pc = "navigate",
                                      ![t].crtblk = crtblk, ![t].blkoffs = blkoffs]
             /\ UNCHANGED bdir
    BY <1>5, Zenon DEF WriteGrow
  <2>3. CASE Return(t) /\ UNCHANGED bdir
    BY <1>1, <2>1, <2>3, Returned
  <2>4. ASSUME NEW fresh, thread' = [thread EXCEPT ![t].pc = "write_save", ![t].fresh = fresh],
               bdir' = [bdir EXCEPT ![thread[t].di] =
                          [bdir[thread[t].di] EXCEPT !.size_bytes = size, !.first_block = first]]
        PROVE  IInv'
    <3> DEFINE s == [thread[t] EXCEPT !.pc = "write_save", !.fresh = fresh]
               de == [bdir[thread[t].di] EXCEPT !.size_bytes = size, !.first_block = first]
    <3>1. DOMAIN de = EntryFields /\ de.name = bdir[thread[t].di].name
      BY <1>1, <1>2 DEF Table, EntryFields
    <3>2. bdir' = [bdir EXCEPT ![thread[t].di] = de] /\ thread' = [thread EXCEPT ![t] = s]
      BY <2>4
    <3>3. DOMAIN s = ThreadFields /\ {s.di, s.udi, s.tdi} \subseteq Index
          /\ s.call = thread[t].call /\ s.pc = "write_save"
      BY <1>2 DEF ThreadFields
    <3> HIDE DEF s, de
    <3>4. Table(bdir') /\ SameNames(bdir', bdir)
      BY <1>1, <1>2, <3>1, <3>2, EntryResized
    <3>5. SameNames(bdir', disk_dir')
      BY <2>1, <3>4 DEF SameNames
    <3>6. Good(s, disk_dir', bdir')
      BY <1>3, <3>3, <3>5
    <3> QED BY <1>1, <2>1, <3>2, <3>4, <3>6, Stepped
  <2>5. ASSUME UNCHANGED bdir, NEW crtblk, NEW blkoffs,
               thread' = [thread EXCEPT ![t].pc = "navigate",
                            ![t].crtblk = crtblk, ![t].blkoffs = blkoffs]
        PROVE  IInv'
    <3> DEFINE s == [thread[t] EXCEPT !.pc = "navigate", !.crtblk = crtblk, !.blkoffs = blkoffs]
    <3>1. DOMAIN s = ThreadFields /\ {s.di, s.udi, s.tdi} \subseteq Index
          /\ s.call = thread[t].call /\ s.pc = "navigate"
      BY <1>2 DEF ThreadFields
    <3>2. thread' = [thread EXCEPT ![t] = s]
      BY <2>5
    <3> HIDE DEF s
    <3>3. Good(s, disk_dir', bdir')
      BY <1>3, <3>1
    <3> QED BY <1>1, <2>1, <2>5, <3>2, <3>3, Stepped
  <2> QED BY <2>2, <2>3, <2>4, <2>5
<1>6. CASE WriteSave(t)
  <2> DEFINE s == [thread[t] EXCEPT !.pc = "navigate",
                     !.crtblk = bdir[thread[t].di].first_block,
                     !.blkoffs = thread[t].call.offset \div BLOCK_SIZE]
  <2>1. WellFormed(bdir)
    BY <1>1, <1>6, NamesDecide DEF Good, CacheFits, WriteSave, At
  <2>2. DOMAIN s = ThreadFields /\ {s.di, s.udi, s.tdi} \subseteq Index
        /\ s.call = thread[t].call /\ s.pc = "navigate"
    BY <1>2 DEF ThreadFields
  <2>3. thread' = [thread EXCEPT ![t] = s] /\ disk_dir' = bdir /\ bdir' = bdir
    BY <1>6 DEF WriteSave, SaveDirectory
  <2> HIDE DEF s
  <2>4. Good(s, disk_dir', bdir')
    BY <1>3, <2>2
  <2> QED BY <1>1, <2>1, <2>3, <2>4, Stepped
<1>7. CASE Navigate(t)
  <2>1. disk_dir' = disk_dir /\ bdir' = bdir
    BY <1>7 DEF Navigate
  <2>2. Return(t) \/ \E b : thread' = [thread EXCEPT ![t].crtblk = b, ![t].blkoffs = @ - 1]
    BY <1>7, Zenon DEF Navigate
  <2>3. CASE Return(t)
    BY <1>1, <2>1, <2>3, Returned
  <2>4. ASSUME NEW b, thread' = [thread EXCEPT ![t].crtblk = b, ![t].blkoffs = @ - 1]
        PROVE  IInv'
    <3> DEFINE s == [thread[t] EXCEPT !.crtblk = b, !.blkoffs = @ - 1]
    <3>1. DOMAIN s = ThreadFields /\ {s.di, s.udi, s.tdi} \subseteq Index
          /\ s.call = thread[t].call /\ s.pc = "navigate"
      BY <1>2, <1>7 DEF ThreadFields, Navigate, At
    <3>2. thread' = [thread EXCEPT ![t] = s]
      BY <2>4
    <3> HIDE DEF s
    <3>3. Good(s, disk_dir', bdir')
      BY <1>3, <3>1
    <3> QED BY <1>1, <2>1, <3>2, <3>3, Stepped
  <2> QED BY <2>2, <2>3, <2>4
<1>8. CASE WriteData(t)
  BY <1>1, <1>8, Returned DEF WriteData
<1>9. QED
  BY <1>4, <1>5, <1>6, <1>7, <1>8

(* The path that is removed, and an index it is found at. *)
LEMMA RemovedName ==
  ASSUME NEW t \in Thread, NEW dir, NEW cache, Good(thread[t], dir, cache),
         thread[t].pc \in {"truncate", "freeing", "truncate_save", "unlink", "scooch", "unlink_save"}
  PROVE  RemovedPath(t) = Removed(thread[t].call) /\ Removed(thread[t].call) \in Name
BY DEF RemovedPath, Removed, Path, Good, Shaped

LEMMA TruncateKeeps ==
  ASSUME IInv, SingleThread, NEW t \in Thread,
         TruncateLookup(t) \/ TruncateFree(t) \/ TruncateSaveMap(t) \/ TruncateSave(t)
  PROVE  IInv'
<1>1. Good(thread[t], disk_dir, bdir) /\ Table(disk_dir) /\ WellFormed(disk_dir) /\ Table(bdir)
  BY DEF IInv
<1>2. /\ thread[t].call.op \in {"truncate", "unlink", "rename"}
      /\ thread[t].call.path \in Name
      /\ thread[t].call.op = "rename" => thread[t].call.npath \in Name
      /\ DOMAIN thread[t] = ThreadFields
      /\ {thread[t].di, thread[t].udi, thread[t].tdi} \subseteq Index
      /\ thread[t].pc \in {"truncate", "freeing", "truncate_save"}
  BY <1>1 DEF Good, Shaped, Serves, TruncateLookup, TruncateFree, TruncateSaveMap, TruncateSave, At
<1>3. /\ thread[t].call.op # "truncate" => disk_dir[thread[t].udi].name = Removed(thread[t].call)
      /\ thread[t].call.op = "rename" => disk_dir[thread[t].di].name # Empty
  BY <1>1, <1>2 DEF Good, IndicesFit
(* the thread goes on with its call and its other two indices *)
<1>4. ASSUME NEW s, DOMAIN s = ThreadFields, s.tdi \in Index,
             s.di = thread[t].di, s.udi = thread[t].udi, s.call = thread[t].call,
             \/ s.pc \in {"freeing", "truncate_save"}
             \/ s.pc = "scooch" /\ s.call.op # "truncate",
             NEW dir, NEW cache, SameNames(cache, dir), SameNames(dir, disk_dir)
      PROVE  Good(s, dir, cache)
  <2>1. Shaped(s)
    BY <1>2, <1>4 DEF Shaped, PC
  <2>2. Serves(s)
    BY <1>2, <1>4 DEF Serves
  <2>3. CacheFits(s, dir, cache)
    BY <1>2, <1>4 DEF CacheFits
  <2>4. dir[s.udi].name = disk_dir[s.udi].name /\ dir[s.di].name = disk_dir[s.di].name
    BY <1>2, <1>4 DEF SameNames
  <2>5. IndicesFit(s, dir, cache)
    BY <1>2, <1>3, <1>4, <2>4 DEF IndicesFit
  <2> QED BY <2>1, <2>2, <2>3, <2>5 DEF Good
<1>5. SameNames(disk_dir, disk_dir)
  BY DEF SameNames
<1>6. CASE TruncateLookup(t)
  <2> DEFINE tdi == find_dir_entry(disk_dir, RemovedPath(t))
             de == [disk_dir[tdi] EXCEPT !.size_bytes = 0]
             s == [thread[t] EXCEPT !.pc = "freeing", !.tdi = tdi]
  <2>1. tdi \in Index
    BY <1>1, <1>2, <1>6, RemovedName, FoundEntry DEF TruncateLookup
  <2>2. bdir' = [disk_dir EXCEPT ![tdi] = de] /\ disk_dir' = disk_dir
        /\ thread' = [thread EXCEPT ![t] = s]
    BY <1>6 DEF TruncateLookup
  <2> HIDE DEF tdi
  <2>3. DOMAIN de = EntryFields /\ de.name = disk_dir[tdi].name
    BY <1>1, <2>1 DEF Table, EntryFields
  <2>4. DOMAIN s = ThreadFields /\ s.tdi \in Index /\ s.di = thread[t].di
        /\ s.udi = thread[t].udi /\ s.call = thread[t].call /\ s.pc = "freeing"
    BY <1>2, <2>1 DEF ThreadFields
  <2> HIDE DEF de, s
  <2>5. Table(bdir') /\ SameNames(bdir', disk_dir)
    BY <1>1, <2>1, <2>2, <2>3, EntryResized
  <2>6. Good(s, disk_dir', bdir')
    BY <1>4, <1>5, <2>2, <2>4, <2>5
  <2> QED BY <1>1, <2>2, <2>5, <2>6, Stepped
<1>7. CASE TruncateFree(t)
  <2> DEFINE tdi == thread[t].tdi
             first == bdir[tdi].first_block
             de == [bdir[tdi] EXCEPT !.first_block = NextToFree(first, bmap[first])]
  <2>1. bdir' = [bdir EXCEPT ![tdi] = de] /\ disk_dir' = disk_dir /\ thread' = thread
        /\ thread[t].pc = "freeing"
    BY <1>7 DEF TruncateFree, At
  <2>2. DOMAIN de = EntryFields /\ de.name = bdir[tdi].name
    BY <1>1, <1>2 DEF Table, EntryFields
  <2> HIDE DEF de
  <2>3. Table(bdir') /\ SameNames(bdir', bdir)
    BY <1>1, <1>2, <2>1, <2>2, EntryResized
  <2>4. SameNames(bdir', disk_dir)
    BY <1>1, <2>1, <2>3 DEF Good, CacheFits, SameNames
  <2>5. Good(thread[t], disk_dir', bdir')
    BY <1>2, <1>4, <1>5, <2>1, <2>4
  <2>6. \A u \in Thread : Good(thread'[u], disk_dir', bdir')
    BY <2>1, <2>5 DEF SingleThread
  <2> QED BY <1>1, <2>1, <2>3, <2>6 DEF IInv
<1>8. CASE TruncateSaveMap(t)
  <2> DEFINE s == [thread[t] EXCEPT !.pc = "truncate_save"]
  <2>1. bdir' = bdir /\ disk_dir' = disk_dir /\ thread' = [thread EXCEPT ![t] = s]
        /\ thread[t].pc = "freeing"
    BY <1>8 DEF TruncateSaveMap, GoTo, At
  <2>2. DOMAIN s = ThreadFields /\ s.tdi \in Index /\ s.di = thread[t].di
        /\ s.udi = thread[t].udi /\ s.call = thread[t].call /\ s.pc = "truncate_save"
    BY <1>2 DEF ThreadFields
  <2> HIDE DEF s
  <2>3. SameNames(bdir, disk_dir)
    BY <1>1, <2>1 DEF Good, CacheFits
  <2>4. Good(s, disk_dir', bdir')
    BY <1>4, <1>5, <2>1, <2>2, <2>3
  <2> QED BY <1>1, <2>1, <2>4, Stepped
<1>9. CASE TruncateSave(t)
  <2>1. SameNames(bdir, disk_dir) /\ disk_dir' = bdir /\ bdir' = bdir
    BY <1>1, <1>9 DEF Good, CacheFits, TruncateSave, SaveDirectory, At
  <2>2. WellFormed(bdir)
    BY <1>1, <2>1, NamesDecide
  <2>3. CASE thread[t].call.op = "truncate"
    <3>1. Return(t)
      BY <1>9, <2>3 DEF TruncateSave, Leave
    <3> QED BY <1>1, <2>1, <2>2, <3>1, Returned
  <2>4. CASE thread[t].call.op # "truncate"
    <3> DEFINE s == [thread[t] EXCEPT !.pc = "scooch"]
    <3>1. thread' = [thread EXCEPT ![t] = s]
      BY <1>9, <2>4 DEF TruncateSave, Leave, GoTo
    <3>2. DOMAIN s = ThreadFields /\ s.tdi \in Index /\ s.di = thread[t].di
          /\ s.udi = thread[t].udi /\ s.call = thread[t].call /\ s.pc = "scooch"
      BY <1>2 DEF ThreadFields
    <3> HIDE DEF s
    <3>3. SameNames(bdir', disk_dir')
      BY <2>1 DEF SameNames
    <3>4. Good(s, disk_dir', bdir')
      BY <1>4, <2>1, <2>4, <3>2, <3>3
    <3> QED BY <1>1, <2>1, <2>2, <3>1, <3>4, Stepped
  <2> QED BY <2>3, <2>4
<1>10. QED
  BY <1>6, <1>7, <1>8, <1>9

LEMMA UnlinkKeeps ==
  ASSUME IInv, SingleThread, NEW t \in Thread,
         UnlinkLookup(t) \/ UnlinkScooch(t) \/ UnlinkSave(t)
  PROVE  IInv'
<1>1. Good(thread[t], disk_dir, bdir) /\ Table(disk_dir) /\ WellFormed(disk_dir) /\ Table(bdir)
  BY DEF IInv
<1>2. /\ thread[t].call.op \in {"unlink", "rename"}
      /\ thread[t].call.path \in Name
      /\ thread[t].call.op = "rename" => thread[t].call.npath \in Name
      /\ DOMAIN thread[t] = ThreadFields
      /\ {thread[t].di, thread[t].udi, thread[t].tdi} \subseteq Index
      /\ thread[t].pc \in {"unlink", "scooch", "unlink_save"}
  BY <1>1 DEF Good, Shaped, Serves, UnlinkLookup, UnlinkScooch, UnlinkSave, At
<1>3. RemovedPath(t) = Removed(thread[t].call) /\ Removed(thread[t].call) \in Name
      /\ (thread[t].call.op = "rename" => Removed(thread[t].call) = thread[t].call.npath)
  BY <1>1, <1>2, RemovedName DEF Removed
<1>4. CASE UnlinkLookup(t)
  <2> DEFINE udi == find_dir_entry(disk_dir, RemovedPath(t))
             s == [thread[t] EXCEPT !.pc = "truncate", !.udi = udi]
  <2>1. udi \in Index /\ disk_dir[udi].name = Removed(thread[t].call)
    BY <1>1, <1>3, <1>4, FoundEntry DEF UnlinkLookup, Found
  <2>2. bdir' = disk_dir /\ disk_dir' = disk_dir /\ thread' = [thread EXCEPT ![t] = s]
        /\ thread[t].pc = "unlink"
    BY <1>4 DEF UnlinkLookup, Found, At
  <2> HIDE DEF udi
  <2>3. DOMAIN s = ThreadFields /\ s.di = thread[t].di /\ s.udi = udi /\ s.tdi = thread[t].tdi
        /\ s.call = thread[t].call /\ s.pc = "truncate"
    BY <1>2 DEF ThreadFields
  <2> HIDE DEF s
  <2>4. thread[t].call.op = "rename" => disk_dir[thread[t].di].name # Empty
    BY <1>1, <2>2 DEF Good, IndicesFit
  <2>5. Good(s, disk_dir', bdir')
    BY <1>2, <2>1, <2>2, <2>3, <2>4 DEF Good, Shaped, Serves, CacheFits, IndicesFit, PC
  <2> QED BY <1>1, <2>2, <2>5, Stepped
<1>5. CASE UnlinkScooch(t)
  <2> DEFINE udi == thread[t].udi
             s == [thread[t] EXCEPT !.pc = "unlink_save"]
  <2>1. bdir' = scooch_dir_entries(bdir, udi) /\ disk_dir' = disk_dir
        /\ thread' = [thread EXCEPT ![t] = s] /\ thread[t].pc = "scooch"
    BY <1>5 DEF UnlinkScooch, GoTo, At
  <2>2. DOMAIN s = ThreadFields /\ s.di = thread[t].di /\ s.udi = thread[t].udi
        /\ s.tdi = thread[t].tdi /\ s.call = thread[t].call /\ s.pc = "unlink_save"
    BY <1>2 DEF ThreadFields
  <2> HIDE DEF s
  <2>3. SameNames(bdir, disk_dir)
    BY <1>1, <2>1 DEF Good, CacheFits
  <2>4. WellFormed(bdir)
    BY <1>1, <2>3, NamesDecide
  <2>5. bdir[udi].name = Removed(thread[t].call) /\ bdir[udi].name # Empty
    <3>1. disk_dir[udi].name = Removed(thread[t].call)
      BY <1>1, <1>2, <2>1 DEF Good, IndicesFit
    <3>2. bdir[udi].name = disk_dir[udi].name
      BY <1>2, <2>3 DEF SameNames
    <3> QED BY <1>3, <3>1, <3>2, FsAssumption
  <2>6. /\ Table(bdir') /\ WellFormed(bdir') /\ Lacks(bdir', Removed(thread[t].call))
        /\ \A i \in Index : bdir[i].name # Empty => Reaches(bdir', i)
    <3>1. udi \in Index
      BY <1>2
    <3> HIDE DEF udi
    <3> QED BY <1>1, <2>1, <2>4, <2>5, <3>1, Scooched, Zenon
  <2>7. thread[t].call.op = "rename" => Reaches(bdir', thread[t].di)
    <3>1. thread[t].call.op = "rename" => disk_dir[thread[t].di].name # Empty
      BY <1>1, <2>1 DEF Good, IndicesFit
    <3>2. bdir[thread[t].di].name = disk_dir[thread[t].di].name
      BY <1>2, <2>3 DEF SameNames
    <3> QED BY <1>2, <2>6, <3>1, <3>2
  <2>8. thread[t].call.op = "rename" => Lacks(bdir', thread[t].call.npath)
    BY <1>3, <2>6
  <2>9. Good(s, disk_dir', bdir')
    BY <1>2, <2>2, <2>6, <2>7, <2>8 DEF Good, Shaped, Serves, CacheFits, IndicesFit, PC
  <2> QED BY <1>1, <2>1, <2>6, <2>9, Stepped
<1>6. CASE UnlinkSave(t)
  <2>1. WellFormed(bdir) /\ disk_dir' = bdir /\ bdir' = bdir /\ thread[t].pc = "unlink_save"
    BY <1>1, <1>6 DEF Good, CacheFits, UnlinkSave, At
  <2>2. CASE thread[t].call.op = "unlink"
    <3>1. Return(t)
      BY <1>6, <2>2 DEF UnlinkSave, Leave
    <3> QED BY <1>1, <2>1, <3>1, Returned
  <2>3. CASE thread[t].call.op = "rename"
    <3> DEFINE s == [thread[t] EXCEPT !.pc = "rename_entry"]
    <3>1. thread' = [thread EXCEPT ![t] = s]
      BY <1>6, <2>3 DEF UnlinkSave, Leave, GoTo
    <3>2. DOMAIN s = ThreadFields /\ s.di = thread[t].di /\ s.udi = thread[t].udi
          /\ s.tdi = thread[t].tdi /\ s.call = thread[t].call /\ s.pc = "rename_entry"
      BY <1>2 DEF ThreadFields
    <3> HIDE DEF s
    <3>3. Lacks(bdir, thread[t].call.npath) /\ Reaches(bdir, thread[t].di)
      BY <1>1, <2>1, <2>3 DEF Good, IndicesFit
    <3>4. SameNames(bdir', disk_dir')
      BY <2>1 DEF SameNames
    <3>5. Good(s, disk_dir', bdir')
      BY <1>2, <2>1, <2>3, <3>2, <3>3, <3>4 DEF Good, Shaped, Serves, CacheFits, IndicesFit, PC
    <3> QED BY <1>1, <2>1, <3>1, <3>5, Stepped
  <2> QED BY <1>2, <2>2, <2>3
<1>7. QED
  BY <1>4, <1>5, <1>6

LEMMA RenameKeeps ==
  ASSUME IInv, SingleThread, NEW t \in Thread,
         RenameLookup(t) \/ RenameEntry(t) \/ RenameSave(t)
  PROVE  IInv'
<1>1. Good(thread[t], disk_dir, bdir) /\ Table(disk_dir) /\ WellFormed(disk_dir) /\ Table(bdir)
  BY DEF IInv
<1>2. /\ thread[t].call.op = "rename"
      /\ thread[t].call.path \in Name
      /\ thread[t].call.npath \in Name
      /\ DOMAIN thread[t] = ThreadFields
      /\ {thread[t].di, thread[t].udi, thread[t].tdi} \subseteq Index
  BY <1>1 DEF Good, Shaped, Serves, RenameLookup, RenameEntry, RenameSave, At
<1>3. CASE RenameLookup(t)
  <2> DEFINE di == find_dir_entry(disk_dir, Path(t))
             s == [thread[t] EXCEPT !.pc = "unlink", !.di = di]
  <2>1. di \in Index /\ disk_dir[di].name = thread[t].call.path
    BY <1>1, <1>2, <1>3, FoundEntry DEF RenameLookup, Found, Path
  <2>2. bdir' = disk_dir /\ disk_dir' = disk_dir /\ thread' = [thread EXCEPT ![t] = s]
    BY <1>3 DEF RenameLookup, Found
  <2> HIDE DEF di
  <2>3. DOMAIN s = ThreadFields /\ s.di = di /\ s.udi = thread[t].udi
        /\ s.tdi = thread[t].tdi /\ s.call = thread[t].call /\ s.pc = "unlink"
    BY <1>2 DEF ThreadFields
  <2> HIDE DEF s
  <2>4. disk_dir[di].name # Empty
    BY <1>2, <2>1, FsAssumption
  <2>5. Good(s, disk_dir', bdir')
    BY <1>2, <2>1, <2>2, <2>3, <2>4 DEF Good, Shaped, Serves, CacheFits, IndicesFit, PC
  <2> QED BY <1>1, <2>2, <2>5, Stepped
<1>4. CASE RenameEntry(t)
  <2> DEFINE di == thread[t].di
             entry == [bdir[di] EXCEPT !.name = thread[t].call.npath]
             s == [thread[t] EXCEPT !.pc = "rename_save"]
  <2>1. bdir' = [bdir EXCEPT ![di] = entry] /\ disk_dir' = disk_dir
        /\ thread' = [thread EXCEPT ![t] = s] /\ thread[t].pc = "rename_entry"
    BY <1>4 DEF RenameEntry, GoTo, At
  <2>2. DOMAIN entry = EntryFields /\ entry.name = thread[t].call.npath
    BY <1>1, <1>2 DEF Table, EntryFields
  <2>3. DOMAIN s = ThreadFields /\ s.di = thread[t].di /\ s.udi = thread[t].udi
        /\ s.tdi = thread[t].tdi /\ s.call = thread[t].call /\ s.pc = "rename_save"
    BY <1>2 DEF ThreadFields
  <2> HIDE DEF entry, s
  <2>4. SameNames(bdir, disk_dir) /\ Lacks(disk_dir, thread[t].call.npath)
        /\ Reaches(disk_dir, di)
    BY <1>1, <2>1 DEF Good, CacheFits, IndicesFit
  <2>5. WellFormed(bdir) /\ Lacks(bdir, thread[t].call.npath) /\ Reaches(bdir, di)
    BY <1>1, <1>2, <2>4, NamesDecide
  <2>6. di \in Index
    BY <1>2
  <2> HIDE DEF di
  <2>7. Table(bdir') /\ bdir'[di].name = thread[t].call.npath
        /\ \A j \in Index \ {di} : bdir'[j].name = bdir[j].name
    <3>1. bdir' = [bdir EXCEPT ![di] = entry]
      BY <2>1
    <3> QED BY <1>1, <1>2, <2>2, <2>6, <3>1 DEF Table
  <2>8. WellFormed(bdir')
    BY <1>2, <2>5, <2>6, <2>7, NewName
  <2>9. Good(s, disk_dir', bdir')
    BY <1>2, <2>3, <2>8 DEF Good, Shaped, Serves, CacheFits, IndicesFit, PC
  <2> QED BY <1>1, <2>1, <2>7, <2>9, Stepped
<1>5. CASE RenameSave(t)
  BY <1>1, <1>5, Returned DEF RenameSave, SaveDirectory, At, Good, CacheFits
<1>6. QED
  BY <1>3, <1>4, <1>5

LEMMA NoSuchFileKeeps ==
  ASSUME IInv, SingleThread, NEW t \in Thread, NoSuchFile(t)
  PROVE  IInv'
<1>1. Good(thread[t], disk_dir, bdir) /\ Table(disk_dir) /\ WellFormed(disk_dir) /\ Table(bdir)
  BY DEF IInv
<1>2. bdir' = disk_dir /\ disk_dir' = disk_dir
  BY DEF NoSuchFile
<1>3. PICK handler \in {"write", "truncate", "unlink", "rename"} :
        /\ thread[t].pc = handler
        /\ ~Exists(disk_dir, IF handler \in {"truncate", "unlink"} THEN RemovedPath(t)
                             ELSE Path(t))
        /\ Leave(t, handler)
  BY DEF NoSuchFile, At
<1>4. /\ thread[t].call.path \in Name
      /\ thread[t].call.op = "rename" => thread[t].call.npath \in Name
      /\ DOMAIN thread[t] = ThreadFields
      /\ {thread[t].di, thread[t].udi, thread[t].tdi} \subseteq Index
  BY <1>1, <1>3 DEF Good, Shaped
<1>5. CASE thread[t].call.op = handler
  <2>1. Return(t)
    BY <1>3, <1>5 DEF Leave
  <2> QED BY <1>1, <1>2, <2>1, Returned
<1>6. CASE handler = "truncate" /\ thread[t].call.op # "truncate"
  <2> DEFINE s == [thread[t] EXCEPT !.pc = "scooch"]
  <2>1. thread' = [thread EXCEPT ![t] = s]
    BY <1>3, <1>6 DEF Leave, GoTo
  <2>2. DOMAIN s = ThreadFields /\ s.di = thread[t].di /\ s.udi = thread[t].udi
        /\ s.tdi = thread[t].tdi /\ s.call = thread[t].call /\ s.pc = "scooch"
    BY <1>4 DEF ThreadFields
  <2> HIDE DEF s
  <2>3. thread[t].call.op \in {"unlink", "rename"}
    BY <1>1, <1>3, <1>6 DEF Good, Serves
  <2>4. disk_dir[thread[t].udi].name = Removed(thread[t].call)
        /\ (thread[t].call.op = "rename" => disk_dir[thread[t].di].name # Empty)
    BY <1>1, <1>3, <1>6 DEF Good, IndicesFit
  <2>5. SameNames(bdir', disk_dir')
    BY <1>2 DEF SameNames
  <2>6. Good(s, disk_dir', bdir')
    BY <1>2, <1>4, <2>2, <2>3, <2>4, <2>5
    DEF Good, Shaped, Serves, CacheFits, IndicesFit, PC
  <2> QED BY <1>1, <1>2, <2>1, <2>6, Stepped
<1>7. CASE handler = "unlink" /\ thread[t].call.op # "unlink"
  <2> DEFINE s == [thread[t] EXCEPT !.pc = "rename_entry"]
  <2>1. thread' = [thread EXCEPT ![t] = s]
    BY <1>3, <1>7 DEF Leave, GoTo
  <2>2. DOMAIN s = ThreadFields /\ s.di = thread[t].di /\ s.udi = thread[t].udi
        /\ s.tdi = thread[t].tdi /\ s.call = thread[t].call /\ s.pc = "rename_entry"
    BY <1>4 DEF ThreadFields
  <2> HIDE DEF s
  <2>3. thread[t].call.op = "rename"
    BY <1>1, <1>3, <1>7 DEF Good, Serves
  <2>4. Reaches(disk_dir, thread[t].di)
    <3>1. disk_dir[thread[t].di].name # Empty
      BY <1>1, <1>3, <1>7, <2>3 DEF Good, IndicesFit
    <3> QED BY <1>1, <1>4, <3>1, NamedIsReached
  <2>5. Lacks(disk_dir, thread[t].call.npath)
    <3>1. ~Exists(disk_dir, thread[t].call.npath)
      BY <1>3, <1>7, <2>3 DEF RemovedPath
    <3> QED BY <1>1, <1>4, <2>3, <3>1, MissingEntry
  <2>6. SameNames(bdir', disk_dir')
    BY <1>2 DEF SameNames
  <2>7. Good(s, disk_dir', bdir')
    BY <1>2, <1>4, <2>2, <2>3, <2>4, <2>5, <2>6
    DEF Good, Shaped, Serves, CacheFits, IndicesFit, PC
  <2> QED BY <1>1, <1>2, <2>1, <2>7, Stepped
<1>8. handler \in {"write", "rename"} => thread[t].call.op = handler
  BY <1>1, <1>3 DEF Good, Serves
<1>9. QED
  BY <1>3, <1>5, <1>6, <1>7, <1>8

LEMMA CrashKeeps ==
  ASSUME IInv, Crash
  PROVE  IInv'
<1>1. disk_dir' = disk_dir /\ bdir' = NoDirectory /\ thread' = [t \in Thread |-> Idle]
  BY DEF Crash
<1>2. Table(NoDirectory)
  BY DEF Table, NoDirectory, EntryFields
<1>3. DOMAIN thread' = Thread /\ \A t \in Thread : Good(thread'[t], disk_dir', bdir')
  BY <1>1, IdleIsGood
<1>4. QED
  BY <1>1, <1>2, <1>3 DEF IInv

-------------------------------------------------------------------------------
(* Blocks.  The disk is a set of lists: one for every file, that ends with
   EOF, and the free list, that ends with block 0.  own[b] is the list block b
   is on and pos[b] its place there; the first place of list l is base[l]. *)
Free == -1
Lists(dir) == {i \in Index : dir[i].name # Empty} \cup {Free}
Head(dir, map, l) == IF l = Free THEN map[BLKMAP_BID] ELSE dir[l].first_block
End(l) == IF l = Free THEN BLKMAP_BID ELSE EOF_BLOCK

Placed(dir, map, own, pos, base) ==
  /\ map \in BlockMap
  /\ own \in [DataBlock -> Lists(dir)]
  /\ pos \in [DataBlock -> Int]
  /\ base \in [Index \cup {Free} -> Int]
  /\ \A b, c \in DataBlock : own[b] = own[c] /\ pos[b] = pos[c] => b = c
Headed(dir, map, own, pos, base) ==
  \A l \in Lists(dir) :
    LET h == Head(dir, map, l) IN
    \/ h \in DataBlock /\ own[h] = l /\ pos[h] = base[l]
    \/ h = End(l) /\ \A b \in DataBlock : own[b] # l
Linked(map, own, pos) ==
  \A b \in DataBlock :
    \/ map[b] \in DataBlock /\ own[map[b]] = own[b] /\ pos[map[b]] = pos[b] + 1
    \/ map[b] = End(own[b]) /\ \A c \in DataBlock : own[c] = own[b] => pos[c] <= pos[b]
Reached(dir, map, own, pos, base) ==
  \A b \in DataBlock :
    /\ base[own[b]] <= pos[b]
    /\ b # Head(dir, map, own[b]) => \E c \in DataBlock : map[c] = b
Layout(dir, map, own, pos, base) ==
  /\ Placed(dir, map, own, pos, base) /\ Headed(dir, map, own, pos, base)
  /\ Linked(map, own, pos) /\ Reached(dir, map, own, pos, base)

(* The size of file i agrees with its blocks: the n-th block is not behind the
   bytes. *)
Within(n, size) == (n * BLOCK_SIZE) < size
Sized(i, dir, own, pos, base) ==
  /\ dir[i].size_bytes \in Nat
  /\ dir[i].size_bytes = 0 <=> dir[i].first_block = EOF_BLOCK
  /\ \A b \in DataBlock : own[b] = i => Within(pos[b] - base[i], dir[i].size_bytes)
Files(dir) == {i \in Index : dir[i].name # Empty}
AllSized(dir, own, pos, base) == \A i \in Files(dir) : Sized(i, dir, own, pos, base)

(* the map and the directory agree *)
Consistent(dir, map) ==
  \E own, pos, base : Layout(dir, map, own, pos, base) /\ AllSized(dir, own, pos, base)

(* The numbers that stand for something apart are apart. *)
LEMMA Numbers ==
  /\ BLKMAP_BID \notin DataBlock /\ EOF_BLOCK \notin Block /\ BLKMAP_BID # EOF_BLOCK
  /\ Free \notin Index /\ BLKMAP_BID \in Block /\ DataBlock \subseteq Block
BY FsAssumption DEF BLKMAP_BID, EOF_BLOCK, Block, DataBlock, Free, Index

(* What is on a list is decided by the names, the first blocks and the map. *)
LEMMA LayoutByFirst ==
  ASSUME NEW dir, NEW map, NEW own, NEW pos, NEW base, Layout(dir, map, own, pos, base),
         NEW new, Lists(new) = Lists(dir),
         \A i \in Lists(dir) \ {Free} : new[i].first_block = dir[i].first_block
  PROVE  Layout(new, map, own, pos, base)
<1>1. \A l \in Lists(dir) : Head(new, map, l) = Head(dir, map, l)
  BY DEF Head
<1>2. \A b \in DataBlock : own[b] \in Lists(dir)
  BY DEF Layout, Placed
<1>3. QED
  BY <1>1, <1>2 DEF Layout, Placed, Headed, Reached

-------------------------------------------------------------------------------
(* How a layout changes with the map. *)

(* The first free block becomes the next one of a file whose last is last. *)
LEMMA LayoutExtended ==
  ASSUME NEW dir, NEW map, NEW own, NEW pos, NEW base, Layout(dir, map, own, pos, base),
         NEW last \in DataBlock, map[last] = EOF_BLOCK,
         NEW h, h = map[BLKMAP_BID], h # BLKMAP_BID,
         NEW new, new = [map EXCEPT ![BLKMAP_BID] = map[h], ![h] = EOF_BLOCK, ![last] = h],
         NEW own2, own2 = [own EXCEPT ![h] = own[last]],
         NEW pos2, pos2 = [pos EXCEPT ![h] = pos[last] + 1],
         NEW base2, base2 = [base EXCEPT ![Free] = base[Free] + 1]
  PROVE  /\ h \in DataBlock /\ own[h] = Free /\ own[last] \in Files(dir)
         /\ Layout(dir, new, own2, pos2, base2)
<1>1. /\ map \in [Block -> Link] /\ own \in [DataBlock -> Lists(dir)] /\ pos \in [DataBlock -> Int]
      /\ base \in [Index \cup {Free} -> Int]
      /\ \A b, c \in DataBlock : own[b] = own[c] /\ pos[b] = pos[c] => b = c
  BY DEF Layout, Placed, BlockMap
<1>2. h \in DataBlock /\ own[h] = Free /\ pos[h] = base[Free]
  BY DEF Layout, Headed, Lists, Head, End
<1> DEFINE i == own[last]
<1>3. i \in Files(dir) /\ i # Free /\ i \in Index
  BY <1>1, Numbers DEF Layout, Linked, End, Lists, Files
<1>4. \A c \in DataBlock : own[c] = i => pos[c] <= pos[last]
  BY Numbers DEF Layout, Linked
<1>5. /\ own2 \in [DataBlock -> Lists(dir)] /\ pos2 \in [DataBlock -> Int]
      /\ base2 \in [Index \cup {Free} -> Int]
      /\ own2[h] = i /\ pos2[h] = pos[last] + 1 /\ base2[Free] = base[Free] + 1
      /\ \A b \in DataBlock \ {h} : own2[b] = own[b] /\ pos2[b] = pos[b]
      /\ \A l \in Index : base2[l] = base[l]
  BY <1>1, <1>2, <1>3, Numbers
<1>6. h # last
  BY <1>2, <1>3
<1>7. /\ new \in [Block -> Link]
      /\ new[BLKMAP_BID] = map[h] /\ new[h] = EOF_BLOCK /\ new[last] = h
      /\ \A b \in DataBlock \ {h, last} : new[b] = map[b]
  BY <1>1, <1>2, <1>6, Numbers DEF Link
<1> HIDE DEF i
<1>8. \A b \in DataBlock : map[b] # h
  <2> SUFFICES ASSUME NEW b \in DataBlock, map[b] = h PROVE FALSE
    OBVIOUS
  <2>1. own[b] = Free /\ pos[h] = pos[b] + 1
    BY <1>2, Numbers DEF Layout, Linked, End
  <2>2. base[Free] <= pos[b] /\ pos[b] \in Int /\ base[Free] \in Int
    BY <1>1, <2>1 DEF Layout, Reached
  <2>3. QED
    BY <1>2, <2>1, <2>2
<1>9. \A b \in DataBlock \ {h} : own[b] = Free => pos[b] >= base[Free] + 1
  BY <1>1, <1>2, Numbers DEF Layout, Reached
<1>10. Placed(dir, new, own2, pos2, base2)
  BY <1>1, <1>2, <1>4, <1>5, <1>7 DEF Placed, BlockMap
<1>11. Headed(dir, new, own2, pos2, base2)
  <2> SUFFICES ASSUME NEW l \in Lists(dir)
               PROVE  LET g == Head(dir, new, l) IN
                      \/ g \in DataBlock /\ own2[g] = l /\ pos2[g] = base2[l]
                      \/ g = End(l) /\ \A b \in DataBlock : own2[b] # l
    BY DEF Headed
  <2>1. CASE l = Free
    <3>1. Head(dir, new, l) = map[h] /\ map[h] # h
      BY <1>2, <1>7, <1>8, <2>1 DEF Head
    <3>2. CASE map[h] \in DataBlock
      BY <1>2, <1>5, <2>1, <3>1, <3>2, Numbers DEF Layout, Linked, End
    <3>3. CASE map[h] \notin DataBlock
      <4>1. map[h] = End(Free) /\ \A c \in DataBlock : own[c] = Free => pos[c] <= base[Free]
        BY <1>2, <3>3 DEF Layout, Linked
      <4>2. \A b \in DataBlock : own2[b] # Free
        BY <1>1, <1>3, <1>5, <1>9, <4>1, Numbers
      <4>3. QED
        BY <2>1, <3>1, <4>1, <4>2
    <3>4. QED
      BY <3>2, <3>3
  <2>2. CASE l # Free
    <3>1. l \in Index /\ Head(dir, new, l) = Head(dir, map, l)
      BY <2>2 DEF Lists, Head
    <3>2. \/ Head(dir, map, l) \in DataBlock /\ own[Head(dir, map, l)] = l /\ pos[Head(dir, map, l)] = base[l]
          \/ Head(dir, map, l) = End(l) /\ \A b \in DataBlock : own[b] # l
      BY DEF Layout, Headed
    <3>3. QED
      BY <1>2, <1>5, <2>2, <3>1, <3>2 DEF i
  <2>3. QED
    BY <2>1, <2>2
<1>12. Linked(new, own2, pos2)
  <2> SUFFICES ASSUME NEW b \in DataBlock
               PROVE  \/ new[b] \in DataBlock /\ own2[new[b]] = own2[b] /\ pos2[new[b]] = pos2[b] + 1
                      \/ new[b] = End(own2[b]) /\ \A c \in DataBlock : own2[c] = own2[b] => pos2[c] <= pos2[b]
    BY DEF Linked
  <2>1. CASE b = h
    <3>1. \A c \in DataBlock : own2[c] = own2[b] => pos2[c] <= pos2[b]
      BY <1>1, <1>4, <1>5, <2>1
    <3>2. QED
      BY <1>3, <1>5, <1>7, <2>1, <3>1 DEF End
  <2>2. CASE b = last
    BY <1>2, <1>5, <1>6, <1>7, <2>2 DEF i
  <2>3. CASE b # h /\ b # last
    <3>1. \/ map[b] \in DataBlock /\ own[map[b]] = own[b] /\ pos[map[b]] = pos[b] + 1
          \/ map[b] = End(own[b]) /\ \A c \in DataBlock : own[c] = own[b] => pos[c] <= pos[b]
      BY DEF Layout, Linked
    <3>2. CASE map[b] \in DataBlock
      BY <1>5, <1>7, <1>8, <2>3, <3>1, <3>2, Numbers DEF End
    <3>3. CASE map[b] \notin DataBlock
      <4>1. own[b] # i
        BY <1>1, <1>4, <2>3, <3>1, <3>3 DEF i
      <4>2. QED
        BY <1>5, <1>7, <2>3, <3>1, <3>3, <4>1
    <3>4. QED
      BY <3>2, <3>3
  <2>4. QED
    BY <2>1, <2>2, <2>3
<1>13. Reached(dir, new, own2, pos2, base2)
  <2> SUFFICES ASSUME NEW b \in DataBlock
               PROVE  /\ base2[own2[b]] <= pos2[b]
                      /\ b # Head(dir, new, own2[b]) => \E c \in DataBlock : new[c] = b
    BY DEF Reached
  <2>1. base[own[b]] <= pos[b] /\ (b # Head(dir, map, own[b]) => \E c \in DataBlock : map[c] = b)
    BY DEF Layout, Reached
  <2>2. CASE b = h
    <3>1. base[i] <= pos[last]
      BY DEF Layout, Reached, i
    <3>2. QED
      BY <1>1, <1>3, <1>5, <1>7, <2>2, <3>1
  <2>3. CASE b # h /\ own[b] = Free
    <3>1. base2[own2[b]] <= pos2[b]
      BY <1>1, <1>5, <1>9, <2>3
    <3>2. ASSUME b # Head(dir, new, own2[b]) PROVE \E c \in DataBlock : new[c] = b
      <4>1. b # map[h] /\ b # Head(dir, map, own[b])
        BY <1>5, <1>7, <2>3, <3>2 DEF Head
      <4>2. PICK c \in DataBlock : map[c] = b
        BY <2>1, <4>1
      <4>3. c # h /\ c # last
        BY <4>1, <4>2, Numbers
      <4>4. QED
        BY <1>7, <4>2, <4>3
    <3>3. QED
      BY <3>1, <3>2
  <2>4. CASE b # h /\ own[b] # Free
    <3>1. own2[b] = own[b] /\ own[b] \in Index /\ base2[own2[b]] <= pos2[b]
      BY <1>1, <1>5, <2>1, <2>4 DEF Lists
    <3>2. ASSUME b # Head(dir, new, own2[b]) PROVE \E c \in DataBlock : new[c] = b
      <4>1. b # Head(dir, map, own[b])
        BY <2>4, <3>1, <3>2 DEF Head
      <4>2. PICK c \in DataBlock : map[c] = b
        BY <2>1, <4>1
      <4>3. own[c] = own[b]
        BY <4>2, Numbers DEF Layout, Linked, End
      <4>4. c # h /\ c # last
        BY <1>2, <2>4, <4>2, <4>3, Numbers
      <4>5. QED
        BY <1>7, <4>2, <4>4
    <3>3. QED
      BY <3>1, <3>2
  <2>5. QED
    BY <2>2, <2>3, <2>4
<1>14. QED
  BY <1>2, <1>3, <1>10, <1>11, <1>12, <1>13 DEF Layout, i

(* The first free block becomes the first of an empty file. *)
LEMMA LayoutStarted ==
  ASSUME NEW dir, NEW map, NEW own, NEW pos, NEW base, Layout(dir, map, own, pos, base),
         NEW i \in Files(dir), dir[i].first_block = EOF_BLOCK,
         NEW h, h = map[BLKMAP_BID], h # BLKMAP_BID,
         NEW new, new = [map EXCEPT ![BLKMAP_BID] = map[h], ![h] = EOF_BLOCK],
         NEW dir2, Lists(dir2) = Lists(dir), dir2[i].first_block = h,
         \A j \in Files(dir) \ {i} : dir2[j].first_block = dir[j].first_block,
         NEW own2, own2 = [own EXCEPT ![h] = i],
         NEW pos2, pos2 = [pos EXCEPT ![h] = base[i]],
         NEW base2, base2 = [base EXCEPT ![Free] = base[Free] + 1]
  PROVE  h \in DataBlock /\ own[h] = Free /\ Layout(dir2, new, own2, pos2, base2)
<1>1. /\ map \in [Block -> Link] /\ own \in [DataBlock -> Lists(dir)] /\ pos \in [DataBlock -> Int]
      /\ base \in [Index \cup {Free} -> Int]
      /\ \A b, c \in DataBlock : own[b] = own[c] /\ pos[b] = pos[c] => b = c
  BY DEF Layout, Placed, BlockMap
<1>2. h \in DataBlock /\ own[h] = Free /\ pos[h] = base[Free]
  BY DEF Layout, Headed, Lists, Head, End
<1>3. i \in Index /\ i # Free /\ i \in Lists(dir)
  BY Numbers DEF Files, Lists
<1>4. \A b \in DataBlock : own[b] # i
  BY <1>3, Numbers DEF Layout, Headed, Head
<1>5. /\ own2 \in [DataBlock -> Lists(dir)] /\ pos2 \in [DataBlock -> Int]
      /\ base2 \in [Index \cup {Free} -> Int]
      /\ own2[h] = i /\ pos2[h] = base[i] /\ base2[Free] = base[Free] + 1
      /\ \A b \in DataBlock \ {h} : own2[b] = own[b] /\ pos2[b] = pos[b]
      /\ \A l \in Index : base2[l] = base[l]
  BY <1>1, <1>2, <1>3, Numbers
<1>7. /\ new \in [Block -> Link]
      /\ new[BLKMAP_BID] = map[h] /\ new[h] = EOF_BLOCK
      /\ \A b \in DataBlock \ {h} : new[b] = map[b]
  BY <1>1, <1>2, Numbers DEF Link
<1>8. \A b \in DataBlock : map[b] # h
  <2> SUFFICES ASSUME NEW b \in DataBlock, map[b] = h PROVE FALSE
    OBVIOUS
  <2>1. own[b] = Free /\ pos[h] = pos[b] + 1
    BY <1>2, Numbers DEF Layout, Linked, End
  <2>2. base[Free] <= pos[b] /\ pos[b] \in Int /\ base[Free] \in Int
    BY <1>1, <2>1 DEF Layout, Reached
  <2>3. QED
    BY <1>2, <2>1, <2>2
<1>9. \A b \in DataBlock \ {h} : own[b] = Free => pos[b] >= base[Free] + 1
  BY <1>1, <1>2, Numbers DEF Layout, Reached
<1>10. Placed(dir2, new, own2, pos2, base2)
  BY <1>1, <1>2, <1>4, <1>5, <1>7 DEF Placed, BlockMap
<1>11. Headed(dir2, new, own2, pos2, base2)
  <2> SUFFICES ASSUME NEW l \in Lists(dir)
               PROVE  LET g == Head(dir2, new, l) IN
                      \/ g \in DataBlock /\ own2[g] = l /\ pos2[g] = base2[l]
                      \/ g = End(l) /\ \A b \in DataBlock : own2[b] # l
    BY DEF Headed
  <2>1. CASE l = Free
    <3>1. Head(dir2, new, l) = map[h] /\ map[h] # h
      BY <1>2, <1>7, <1>8, <2>1 DEF Head
    <3>2. CASE map[h] \in DataBlock
      BY <1>2, <1>5, <2>1, <3>1, <3>2, Numbers DEF Layout, Linked, End
    <3>3. CASE map[h] \notin DataBlock
      <4>1. map[h] = End(Free) /\ \A c \in DataBlock : own[c] = Free => pos[c] <= base[Free]
        BY <1>2, <3>3 DEF Layout, Linked
      <4>2. \A b \in DataBlock : own2[b] # Free
        BY <1>1, <1>3, <1>5, <1>9, <4>1, Numbers
      <4>3. QED
        BY <2>1, <3>1, <4>1, <4>2
    <3>4. QED
      BY <3>2, <3>3
  <2>2. CASE l = i
    BY <1>2, <1>3, <1>5, <2>2 DEF Head
  <2>3. CASE l # Free /\ l # i
    <3>1. l \in Index /\ Head(dir2, new, l) = Head(dir, map, l)
      BY <2>3 DEF Lists, Files, Head
    <3>2. \/ Head(dir, map, l) \in DataBlock /\ own[Head(dir, map, l)] = l /\ pos[Head(dir, map, l)] = base[l]
          \/ Head(dir, map, l) = End(l) /\ \A b \in DataBlock : own[b] # l
      BY DEF Layout, Headed
    <3>3. QED
      BY <1>2, <1>5, <2>3, <3>1, <3>2
  <2>4. QED
    BY <2>1, <2>2, <2>3
<1>12. Linked(new, own2, pos2)
  <2> SUFFICES ASSUME NEW b \in DataBlock
               PROVE  \/ new[b] \in DataBlock /\ own2[new[b]] = own2[b] /\ pos2[new[b]] = pos2[b] + 1
                      \/ new[b] = End(own2[b]) /\ \A c \in DataBlock : own2[c] = own2[b] => pos2[c] <= pos2[b]
    BY DEF Linked
  <2>1. CASE b = h
    BY <1>1, <1>3, <1>4, <1>5, <1>7, <2>1 DEF End
  <2>2. CASE b # h
    <3>1. \/ map[b] \in DataBlock /\ own[map[b]] = own[b] /\ pos[map[b]] = pos[b] + 1
          \/ map[b] = End(own[b]) /\ \A c \in DataBlock : own[c] = own[b] => pos[c] <= pos[b]
      BY DEF Layout, Linked
    <3>2. CASE map[b] \in DataBlock
      BY <1>5, <1>7, <1>8, <2>2, <3>1, <3>2, Numbers DEF End
    <3>3. CASE map[b] \notin DataBlock
      BY <1>4, <1>5, <1>7, <2>2, <3>1, <3>3
    <3>4. QED
      BY <3>2, <3>3
  <2>3. QED
    BY <2>1, <2>2
<1>13. Reached(dir2, new, own2, pos2, base2)
  <2> SUFFICES ASSUME NEW b \in DataBlock
               PROVE  /\ base2[own2[b]] <= pos2[b]
                      /\ b # Head(dir2, new, own2[b]) => \E c \in DataBlock : new[c] = b
    BY DEF Reached
  <2>1. base[own[b]] <= pos[b] /\ (b # Head(dir, map, own[b]) => \E c \in DataBlock : map[c] = b)
    BY DEF Layout, Reached
  <2>2. CASE b = h
    BY <1>1, <1>3, <1>5, <2>2 DEF Head
  <2>3. CASE b # h /\ own[b] = Free
    <3>1. base2[own2[b]] <= pos2[b]
      BY <1>1, <1>5, <1>9, <2>3
    <3>2. ASSUME b # Head(dir2, new, own2[b]) PROVE \E c \in DataBlock : new[c] = b
      <4>1. b # map[h] /\ b # Head(dir, map, own[b])
        BY <1>5, <1>7, <2>3, <3>2 DEF Head
      <4>2. PICK c \in DataBlock : map[c] = b
        BY <2>1, <4>1
      <4>3. QED
        BY <1>7, <4>1, <4>2
    <3>3. QED
      BY <3>1, <3>2
  <2>4. CASE b # h /\ own[b] # Free
    <3>1. own2[b] = own[b] /\ own[b] \in Files(dir) \ {i} /\ base2[own2[b]] <= pos2[b]
      BY <1>1, <1>4, <1>5, <2>1, <2>4 DEF Lists, Files
    <3>2. ASSUME b # Head(dir2, new, own2[b]) PROVE \E c \in DataBlock : new[c] = b
      <4>1. b # Head(dir, map, own[b])
        BY <2>4, <3>1, <3>2 DEF Head
      <4>2. PICK c \in DataBlock : map[c] = b
        BY <2>1, <4>1
      <4>3. own[c] = own[b]
        BY <4>2, Numbers DEF Layout, Linked, End
      <4>4. c # h
        BY <1>2, <2>4, <4>2, <4>3, Numbers
      <4>5. QED
        BY <1>7, <4>2, <4>4
    <3>3. QED
      BY <3>1, <3>2
  <2>5. QED
    BY <2>2, <2>3, <2>4
<1>14. QED
  BY <1>2, <1>10, <1>11, <1>12, <1>13 DEF Layout

(* The first block of a file becomes the first free one. *)
LEMMA LayoutFreed ==
  ASSUME NEW dir, NEW map, NEW own, NEW pos, NEW base, Layout(dir, map, own, pos, base),
         NEW i \in Files(dir), NEW f \in Block, f = dir[i].first_block,
         NEW new, new = [map EXCEPT ![f] = map[BLKMAP_BID], ![BLKMAP_BID] = f],
         NEW dir2, Lists(dir2) = Lists(dir), dir2[i].first_block = map[f],
         \A j \in Files(dir) \ {i} : dir2[j].first_block = dir[j].first_block,
         NEW own2, own2 = [own EXCEPT ![f] = Free],
         NEW pos2, pos2 = [pos EXCEPT ![f] = base[Free] - 1],
         NEW base2, base2 = [base EXCEPT ![Free] = base[Free] - 1, ![i] = base[i] + 1]
  PROVE  f \in DataBlock /\ own[f] = i /\ Layout(dir2, new, own2, pos2, base2)
<1>1. /\ map \in [Block -> Link] /\ own \in [DataBlock -> Lists(dir)] /\ pos \in [DataBlock -> Int]
      /\ base \in [Index \cup {Free} -> Int]
      /\ \A b, c \in DataBlock : own[b] = own[c] /\ pos[b] = pos[c] => b = c
  BY DEF Layout, Placed, BlockMap
<1>3. i \in Index /\ i # Free /\ i \in Lists(dir)
  BY Numbers DEF Files, Lists
<1>2. f \in DataBlock /\ own[f] = i /\ pos[f] = base[i]
  BY <1>3, Numbers DEF Layout, Headed, Head, End
<1>5. /\ own2 \in [DataBlock -> Lists(dir)] /\ pos2 \in [DataBlock -> Int]
      /\ base2 \in [Index \cup {Free} -> Int]
      /\ own2[f] = Free /\ pos2[f] = base[Free] - 1 /\ base2[Free] = base[Free] - 1
      /\ base2[i] = base[i] + 1
      /\ \A b \in DataBlock \ {f} : own2[b] = own[b] /\ pos2[b] = pos[b]
      /\ \A l \in Index \ {i} : base2[l] = base[l]
  BY <1>1, <1>2, <1>3, Numbers DEF Lists
<1>7. /\ new \in [Block -> Link]
      /\ new[BLKMAP_BID] = f /\ new[f] = map[BLKMAP_BID]
      /\ \A b \in DataBlock \ {f} : new[b] = map[b]
  BY <1>1, <1>2, Numbers DEF Link
<1>8. \A b \in DataBlock : map[b] # f
  <2> SUFFICES ASSUME NEW b \in DataBlock, map[b] = f PROVE FALSE
    OBVIOUS
  <2>1. own[b] = i /\ pos[f] = pos[b] + 1
    BY <1>2, Numbers DEF Layout, Linked, End
  <2>2. base[i] <= pos[b] /\ pos[b] \in Int /\ base[i] \in Int
    BY <1>1, <1>3, <2>1 DEF Layout, Reached
  <2>3. QED
    BY <1>2, <2>1, <2>2
<1>4. \A b \in DataBlock : own[b] = Free => b # f /\ base[Free] <= pos[b]
  BY <1>1, <1>2, <1>3 DEF Layout, Reached
<1>9. \A b \in DataBlock \ {f} : own[b] = i => pos[b] >= base[i] + 1
  BY <1>1, <1>2, <1>3, Numbers DEF Layout, Reached
<1>10. Placed(dir2, new, own2, pos2, base2)
  BY <1>1, <1>2, <1>4, <1>5, <1>7 DEF Placed, BlockMap
<1>11. Headed(dir2, new, own2, pos2, base2)
  <2> SUFFICES ASSUME NEW l \in Lists(dir)
               PROVE  LET g == Head(dir2, new, l) IN
                      \/ g \in DataBlock /\ own2[g] = l /\ pos2[g] = base2[l]
                      \/ g = End(l) /\ \A b \in DataBlock : own2[b] # l
    BY DEF Headed
  <2>1. CASE l = Free
    BY <1>2, <1>5, <1>7, <2>1 DEF Head
  <2>2. CASE l = i
    <3>1. Head(dir2, new, l) = map[f] /\ map[f] # f
      BY <1>2, <1>3, <1>8, <2>2 DEF Head
    <3>2. CASE map[f] \in DataBlock
      BY <1>2, <1>5, <2>2, <3>1, <3>2, Numbers DEF Layout, Linked, End
    <3>3. CASE map[f] \notin DataBlock
      <4>1. map[f] = End(i) /\ \A c \in DataBlock : own[c] = i => pos[c] <= base[i]
        BY <1>2, <3>3 DEF Layout, Linked
      <4>2. \A b \in DataBlock : own2[b] # i
        BY <1>1, <1>3, <1>5, <1>9, <4>1, Numbers
      <4>3. QED
        BY <2>2, <3>1, <4>1, <4>2
    <3>4. QED
      BY <3>2, <3>3
  <2>3. CASE l # Free /\ l # i
    <3>1. l \in Index /\ Head(dir2, new, l) = Head(dir, map, l)
      BY <2>3 DEF Lists, Files, Head
    <3>2. \/ Head(dir, map, l) \in DataBlock /\ own[Head(dir, map, l)] = l /\ pos[Head(dir, map, l)] = base[l]
          \/ Head(dir, map, l) = End(l) /\ \A b \in DataBlock : own[b] # l
      BY DEF Layout, Headed
    <3>3. QED
      BY <1>2, <1>5, <2>3, <3>1, <3>2
  <2>4. QED
    BY <2>1, <2>2, <2>3
<1>12. Linked(new, own2, pos2)
  <2> SUFFICES ASSUME NEW b \in DataBlock
               PROVE  \/ new[b] \in DataBlock /\ own2[new[b]] = own2[b] /\ pos2[new[b]] = pos2[b] + 1
                      \/ new[b] = End(own2[b]) /\ \A c \in DataBlock : own2[c] = own2[b] => pos2[c] <= pos2[b]
    BY DEF Linked
  <2>1. CASE b = f
    <3>1. \/ map[BLKMAP_BID] \in DataBlock /\ own[map[BLKMAP_BID]] = Free
             /\ pos[map[BLKMAP_BID]] = base[Free]
          \/ map[BLKMAP_BID] = End(Free) /\ \A c \in DataBlock : own[c] # Free
      BY DEF Layout, Headed, Lists, Head
    <3>2. CASE map[BLKMAP_BID] \in DataBlock
      BY <1>1, <1>4, <1>5, <1>7, <2>1, <3>1, <3>2, Numbers DEF End
    <3>3. CASE map[BLKMAP_BID] \notin DataBlock
      BY <1>1, <1>5, <1>7, <2>1, <3>1, <3>3
    <3>4. QED
      BY <3>2, <3>3
  <2>2. CASE b # f
    <3>1. \/ map[b] \in DataBlock /\ own[map[b]] = own[b] /\ pos[map[b]] = pos[b] + 1
          \/ map[b] = End(own[b]) /\ \A c \in DataBlock : own[c] = own[b] => pos[c] <= pos[b]
      BY DEF Layout, Linked
    <3>2. CASE map[b] \in DataBlock
      BY <1>5, <1>7, <1>8, <2>2, <3>1, <3>2, Numbers DEF End
    <3>3. CASE map[b] \notin DataBlock
      <4>1. ASSUME NEW c \in DataBlock, own2[c] = own2[b] PROVE pos2[c] <= pos2[b]
        <5>1. CASE c = f
          BY <1>1, <1>4, <1>5, <2>2, <4>1, <5>1
        <5>2. CASE c # f
          BY <1>5, <2>2, <3>1, <3>3, <4>1, <5>2
        <5>3. QED
          BY <5>1, <5>2
      <4>2. new[b] = map[b] /\ own2[b] = own[b]
        BY <1>5, <1>7, <2>2
      <4>3. new[b] = End(own2[b])
        BY <3>1, <3>3, <4>2
      <4>4. QED
        BY <4>1, <4>3
    <3>4. QED
      BY <3>2, <3>3
  <2>3. QED
    BY <2>1, <2>2
<1>13. Reached(dir2, new, own2, pos2, base2)
  <2> SUFFICES ASSUME NEW b \in DataBlock
               PROVE  /\ base2[own2[b]] <= pos2[b]
                      /\ b # Head(dir2, new, own2[b]) => \E c \in DataBlock : new[c] = b
    BY DEF Reached
  <2>1. base[own[b]] <= pos[b] /\ (b # Head(dir, map, own[b]) => \E c \in DataBlock : map[c] = b)
    BY DEF Layout, Reached
  <2>2. CASE b = f
    BY <1>1, <1>3, <1>5, <1>7, <2>2 DEF Head
  <2>3. CASE b # f
    <3>1. base2[own2[b]] <= pos2[b]
      BY <1>1, <1>4, <1>5, <1>9, <2>1, <2>3 DEF Lists
    <3>2. ASSUME b # Head(dir2, new, own2[b]) PROVE \E c \in DataBlock : new[c] = b
      <4>1. CASE b = Head(dir, map, own[b])
        <5>1. own[b] = Free /\ map[BLKMAP_BID] = b
          BY <1>1, <1>2, <1>5, <2>3, <3>2, <4>1 DEF Head, Lists, Files
        <5>2. QED
          BY <1>2, <1>7, <5>1
      <4>2. CASE b # Head(dir, map, own[b])
        <5>1. PICK c \in DataBlock : map[c] = b
          BY <2>1, <4>2
        <5>2. c # f
          <6>1. ASSUME c = f PROVE own[b] = i
            BY <1>2, <5>1, <6>1, Numbers DEF Layout, Linked, End
          <6>2. own[b] = i => b # map[f]
            BY <1>3, <1>5, <2>3, <3>2 DEF Head
          <6>3. QED
            BY <5>1, <6>1, <6>2
        <5>3. QED
          BY <1>7, <5>1, <5>2
      <4>3. QED
        BY <4>1, <4>2
    <3>3. QED
      BY <3>1, <3>2
  <2>4. QED
    BY <2>2, <2>3
<1>14. QED
  BY <1>2, <1>10, <1>11, <1>12, <1>13 DEF Layout

-------------------------------------------------------------------------------
(* The lists of a layout are the chains of the map. *)

(* A set of natural numbers has a least member. *)
LEMMA LeastNat ==
  ASSUME NEW S \in SUBSET Nat, S # {}
  PROVE  \E k \in S : \A j \in S : k <= j
<1>1. PICK k \in S : \A j \in S : <<j, k>> \notin OpToRel(<, Nat)
  BY NatLessThanWellFounded, WFMin
<1>2. \A j \in S : ~(j < k)
  BY <1>1 DEF OpToRel
<1>3. QED
  BY <1>2

(* A list has no holes: below a block there is one at every place. *)
LEMMA PlacesFilled ==
  ASSUME NEW dir, NEW map, NEW own, NEW pos, NEW base, Layout(dir, map, own, pos, base),
         NEW b \in DataBlock, NEW k \in Nat, k <= pos[b] - base[own[b]]
  PROVE  \E c \in DataBlock : own[c] = own[b] /\ pos[c] = pos[b] - k
<1>1. own \in [DataBlock -> Lists(dir)] /\ pos \in [DataBlock -> Int]
      /\ base \in [Index \cup {Free} -> Int]
  BY DEF Layout, Placed
<1>2. base[own[b]] \in Int /\ pos[b] \in Int
  BY <1>1 DEF Lists
<1> DEFINE Holes == {j \in Nat : /\ j <= pos[b] - base[own[b]]
                                 /\ ~\E c \in DataBlock : own[c] = own[b] /\ pos[c] = pos[b] - j}
<1>3. SUFFICES ASSUME Holes # {} PROVE FALSE
  BY <1>2
<1>4. PICK j \in Holes : \A i \in Holes : j <= i
  <2> Holes \in SUBSET Nat
    OBVIOUS
  <2> HIDE DEF Holes
  <2> QED BY <1>3, LeastNat
<1>5. j # 0 /\ j \in Nat
  BY <1>2
<1>6. j - 1 \in Nat /\ j - 1 <= pos[b] - base[own[b]] /\ j - 1 \notin Holes
  BY <1>2, <1>4, <1>5
<1>7. PICK c \in DataBlock : own[c] = own[b] /\ pos[c] = pos[b] - (j - 1)
  BY <1>6
<1>8. c # Head(dir, map, own[c])
  <2>1. pos[c] > base[own[c]]
    BY <1>1, <1>2, <1>5, <1>7
  <2>2. c = Head(dir, map, own[c]) => pos[c] = base[own[c]]
    BY <1>1, Numbers DEF Layout, Headed, End
  <2> QED BY <1>1, <1>2, <1>7, <2>1, <2>2
<1>9. PICK d \in DataBlock : map[d] = c
  BY <1>8 DEF Layout, Reached
<1>10. own[d] = own[c] /\ pos[c] = pos[d] + 1
  BY <1>9, Numbers DEF Layout, Linked, End
<1>11. pos[d] = pos[b] - j /\ own[d] = own[b]
  BY <1>1, <1>2, <1>5, <1>7, <1>10
<1>12. QED
  BY <1>11

(* The disk has finitely many blocks for data. *)
LEMMA DataBlocksFinite == IsFiniteSet(DataBlock) /\ Cardinality(DataBlock) = NBLOCKS - 2
<1> DEFINE top == NBLOCKS - 1
<1>1. 2 \in Int /\ top \in Int /\ 2 <= top
  BY FsAssumption
<1>2. IsFiniteSet(2 .. top) /\ Cardinality(2 .. top) = top - 2 + 1
  <2> HIDE DEF top
  <2> QED BY <1>1, FS_Interval
<1>3. QED
  BY <1>1, <1>2, FsAssumption DEF DataBlock

(* So a list is no longer than the disk. *)
LEMMA PlacesBounded ==
  ASSUME NEW dir, NEW map, NEW own, NEW pos, NEW base, Layout(dir, map, own, pos, base),
         NEW b \in DataBlock
  PROVE  pos[b] - base[own[b]] \in 0 .. NBLOCKS
<1>1. own \in [DataBlock -> Lists(dir)] /\ pos \in [DataBlock -> Int]
      /\ base \in [Index \cup {Free} -> Int] /\ base[own[b]] <= pos[b]
  BY DEF Layout, Placed, Reached
<1> DEFINE n == pos[b] - base[own[b]]
           at(k) == CHOOSE c \in DataBlock : own[c] = own[b] /\ pos[c] = pos[b] - k
           f == [k \in 0 .. n |-> at(k)]
<1>2. n \in Nat /\ pos[b] \in Int
  BY <1>1 DEF Lists
<1>3. \A k \in 0 .. n : at(k) \in DataBlock /\ pos[at(k)] = pos[b] - k
  BY <1>2, PlacesFilled
<1>4. f \in Injection(0 .. n, DataBlock)
  <2> HIDE DEF n, at
  <2>1. f \in [0 .. n -> DataBlock]
    BY <1>3
  <2>2. ASSUME NEW j \in 0 .. n, NEW k \in 0 .. n, f[j] = f[k] PROVE j = k
    <3>1. pos[b] - j = pos[b] - k
      BY <1>3, <2>2
    <3>2. n \in Nat /\ pos[b] \in Int
      BY <1>2 DEF n
    <3> QED BY <3>1, <3>2
  <2> HIDE DEF f
  <2> QED BY <2>1, <2>2 DEF Injection, IsInjective
<1>5. Cardinality(0 .. n) <= NBLOCKS - 2
  <2> HIDE DEF f
  <2> QED BY <1>4, DataBlocksFinite, FS_Injection
<1>6. Cardinality(0 .. n) = n + 1
  <2> HIDE DEF n
  <2>1. 0 <= n /\ 0 \in Int /\ n \in Int
    BY <1>2
  <2>2. Cardinality(0 .. n) = n - 0 + 1
    BY <2>1, FS_Interval
  <2> QED BY <2>1, <2>2
<1> HIDE DEF n
<1>7. n \in 0 .. NBLOCKS
  BY <1>2, <1>5, <1>6, FsAssumption
<1>8. QED
  BY <1>7 DEF n

(* The blocks on list l up to place n. *)
UpTo(l, n, own, pos, base) == {b \in DataBlock : own[b] = l /\ pos[b] - base[l] <= n}

(* The operator Chain starts as UpTo does, *)
LEMMA UpToStarts ==
  ASSUME NEW dir, NEW map, NEW own, NEW pos, NEW base, Layout(dir, map, own, pos, base),
         NEW l \in Lists(dir)
  PROVE  UpTo(l, 0, own, pos, base) = {Head(dir, map, l)} \cap DataBlock
<1>1. pos \in [DataBlock -> Int] /\ base[l] \in Int
      /\ \A b, c \in DataBlock : own[b] = own[c] /\ pos[b] = pos[c] => b = c
  BY DEF Layout, Placed, Lists
<1>2. \A b \in DataBlock : own[b] = l => base[l] <= pos[b]
  BY DEF Layout, Reached
<1>3. UpTo(l, 0, own, pos, base) = {b \in DataBlock : own[b] = l /\ pos[b] = base[l]}
  BY <1>1, <1>2 DEF UpTo
<1> DEFINE h == Head(dir, map, l)
<1>4. \/ h \in DataBlock /\ own[h] = l /\ pos[h] = base[l]
      \/ h \notin DataBlock /\ \A b \in DataBlock : own[b] # l
  BY Numbers DEF Layout, Headed, End
<1> HIDE DEF h
<1>5. QED
  BY <1>1, <1>3, <1>4 DEF h

(* goes on as UpTo does, *)
LEMMA UpToContinues ==
  ASSUME NEW dir, NEW map, NEW own, NEW pos, NEW base, Layout(dir, map, own, pos, base),
         NEW l \in Lists(dir), NEW n \in Nat \ {0}, NEW upto, upto = UpTo(l, n - 1, own, pos, base)
  PROVE  UpTo(l, n, own, pos, base) = upto \cup ({map[b] : b \in upto} \cap DataBlock)
<1>1. pos \in [DataBlock -> Int] /\ base[l] \in Int
  BY DEF Layout, Placed, Lists
<1>2. ASSUME NEW b \in UpTo(l, n, own, pos, base)
      PROVE  b \in upto \cup ({map[c] : c \in upto} \cap DataBlock)
  <2>1. b \in DataBlock /\ own[b] = l /\ pos[b] - base[l] <= n /\ base[l] <= pos[b]
    BY DEF UpTo, Layout, Reached
  <2>2. CASE pos[b] - base[l] <= n - 1
    BY <2>1, <2>2 DEF UpTo
  <2>3. CASE pos[b] - base[l] = n
    <3>1. b # Head(dir, map, own[b])
      BY <1>1, <2>1, <2>3, Numbers DEF Layout, Headed, End
    <3>2. PICK c \in DataBlock : map[c] = b
      BY <2>1, <3>1 DEF Layout, Reached
    <3>3. own[c] = l /\ pos[b] = pos[c] + 1
      BY <2>1, <3>2, Numbers DEF Layout, Linked, End
    <3>4. c \in upto
      BY <1>1, <2>1, <2>3, <3>3 DEF UpTo
    <3> QED BY <2>1, <3>2, <3>4
  <2>4. pos[b] - base[l] <= n - 1 \/ pos[b] - base[l] = n
    BY <1>1, <2>1
  <2> QED BY <2>2, <2>3, <2>4
<1>3. ASSUME NEW b \in upto PROVE b \in UpTo(l, n, own, pos, base)
  BY <1>1 DEF UpTo
<1>4. ASSUME NEW b \in upto, map[b] \in DataBlock PROVE map[b] \in UpTo(l, n, own, pos, base)
  <2>1. b \in DataBlock /\ own[b] = l /\ pos[b] - base[l] <= n - 1
    BY DEF UpTo
  <2>2. own[map[b]] = l /\ pos[map[b]] = pos[b] + 1
    BY <1>4, <2>1, Numbers DEF Layout, Linked, End
  <2> QED BY <1>1, <1>4, <2>1, <2>2 DEF UpTo
<1>5. QED
  BY <1>2, <1>3, <1>4

(* Following the links from its first block one reaches the blocks of a list
   and no others. *)
LEMMA ChainIsOwned ==
  ASSUME NEW dir, NEW map, NEW own, NEW pos, NEW base, Layout(dir, map, own, pos, base),
         NEW l \in Lists(dir)
  PROVE  Chain(map, Head(dir, map, l)) = {b \in DataBlock : own[b] = l}
<1> DEFINE h == Head(dir, map, l)
           upto == [n \in 0 .. NBLOCKS |-> UpTo(l, n, own, pos, base)]
           Step(w) == [n \in 0 .. NBLOCKS |->
                         IF n = 0 THEN {h} \cap DataBlock
                         ELSE w[n - 1] \cup ({map[b] : b \in w[n - 1]} \cap DataBlock)]
           within == CHOOSE w : w = Step(w)
<1>1. NBLOCKS \in Nat
  BY FsAssumption
<1>2. upto = Step(upto)
  <2>1. ASSUME NEW n \in 0 .. NBLOCKS PROVE upto[n] = Step(upto)[n]
    <3>1. CASE n = 0
      BY <3>1, UpToStarts
    <3>2. CASE n # 0
      <4>1. n \in Nat \ {0} /\ n - 1 \in 0 .. NBLOCKS
        BY <1>1, <3>2
      <4>2. upto[n - 1] = UpTo(l, n - 1, own, pos, base)
        BY <4>1
      <4>3. UpTo(l, n, own, pos, base) = upto[n - 1] \cup ({map[b] : b \in upto[n - 1]} \cap DataBlock)
        BY <4>1, <4>2, UpToContinues
      <4> QED BY <3>2, <4>3
    <3> QED BY <3>1, <3>2
  <2> QED BY <2>1
<1>3. within = Step(within)
  <2> HIDE DEF upto, Step
  <2> QED BY <1>2
<1>4. ASSUME NEW n \in 0 .. NBLOCKS, within[n] # upto[n] PROVE FALSE
  <2> DEFINE Wrong == {k \in Nat : k <= NBLOCKS /\ within[k] # upto[k]}
  <2> HIDE DEF within, upto
  <2>1. n \in Wrong /\ Wrong \in SUBSET Nat
    BY <1>1, <1>4
  <2>2. PICK k \in Wrong : \A j \in Wrong : k <= j
    <3> HIDE DEF Wrong
    <3> QED BY <2>1, LeastNat
  <2>3. k \in 0 .. NBLOCKS /\ within[k] # upto[k] /\ (k # 0 => within[k - 1] = upto[k - 1])
    BY <1>1, <2>2
  <2>4. within[k] = Step(within)[k] /\ upto[k] = Step(upto)[k]
    BY <1>2, <1>3
  <2> QED BY <2>3, <2>4
<1>5. Chain(map, h) = within[NBLOCKS]
  BY Zenon DEF Chain
<1>6. upto[NBLOCKS] = {b \in DataBlock : own[b] = l}
  BY <1>1, PlacesBounded DEF UpTo
<1> HIDE DEF within, upto, h
<1>7. QED
  BY <1>1, <1>4, <1>5, <1>6 DEF h

-------------------------------------------------------------------------------
(* In a table without holes find_dir_entry reaches every file. *)
LEMMA ActiveAreFiles ==
  ASSUME NEW dir, WellFormed(dir)
  PROVE  Active(dir) = Files(dir)
<1>1. PICK n \in 0 .. DIR_ENTRIES : Packed(dir, n)
  BY DEF WellFormed
<1>2. Active(dir) = 0 .. n - 1
  BY <1>1, PackedFirstEmpty DEF Active
<1>3. QED
  BY <1>1, <1>2, FsAssumption DEF Packed, Files, Index

(* What a layout means for the disk: no block is named twice, *)
LEMMA LayoutSharesNothing ==
  ASSUME NEW dir, WellFormed(dir), NEW map, NEW own, NEW pos, NEW base,
         Layout(dir, map, own, pos, base), NEW x \in DataBlock
  PROVE  Cardinality(References(dir, map, x)) <= 1
<1> DEFINE R == References(dir, map, x)
<1>1. /\ own \in [DataBlock -> Lists(dir)] /\ pos \in [DataBlock -> Int]
      /\ base \in [Index \cup {Free} -> Int] /\ map \in [Block -> Link]
      /\ \A b, c \in DataBlock : own[b] = own[c] /\ pos[b] = pos[c] => b = c
  BY DEF Layout, Placed, BlockMap
<1>2. \A b \in DataBlock : map[b] = x =>
        /\ own[b] = own[x] /\ pos[b] = pos[x] - 1 /\ base[own[x]] < pos[x]
        /\ base[own[x]] \in Int /\ pos[x] \in Int
  <2> SUFFICES ASSUME NEW b \in DataBlock, map[b] = x
               PROVE  own[b] = own[x] /\ pos[b] = pos[x] - 1 /\ base[own[x]] < pos[x]
                      /\ base[own[x]] \in Int /\ pos[x] \in Int
    OBVIOUS
  <2>1. own[b] = own[x] /\ pos[x] = pos[b] + 1
    BY Numbers DEF Layout, Linked, End
  <2>2. base[own[b]] <= pos[b] /\ base[own[b]] \in Int /\ pos[b] \in Int
    BY <1>1 DEF Layout, Reached, Lists
  <2> QED BY <2>1, <2>2
<1>3. map[BLKMAP_BID] = x => own[x] = Free /\ pos[x] = base[own[x]]
  BY Numbers DEF Layout, Headed, Head, Lists, End
<1>4. \A i \in Files(dir) : dir[i].first_block = x => own[x] = i /\ pos[x] = base[own[x]]
  BY Numbers DEF Layout, Headed, Head, Lists, Files, End
<1>5. Active(dir) = Files(dir) /\ Free \notin Files(dir)
  BY ActiveAreFiles, Numbers DEF Files
<1>6. \A r \in R : \/ \E b \in DataBlock : r = <<"map", b>> /\ map[b] = x
                   \/ r = <<"map", BLKMAP_BID>> /\ map[BLKMAP_BID] = x
                   \/ \E i \in Files(dir) : r = <<"entry", i>> /\ dir[i].first_block = x
  BY <1>5 DEF References, Block
<1>7. \A r, s \in R : r = s
  <2> SUFFICES ASSUME NEW r \in R, NEW s \in R PROVE r = s
    OBVIOUS
  <2> HIDE DEF R
  <2>1. CASE \E b \in DataBlock : r = <<"map", b>> /\ map[b] = x
    BY <1>1, <1>2, <1>3, <1>4, <1>6, <2>1
  <2>2. CASE r = <<"map", BLKMAP_BID>> /\ map[BLKMAP_BID] = x
    BY <1>2, <1>3, <1>4, <1>5, <1>6, <2>2
  <2>3. CASE \E i \in Files(dir) : r = <<"entry", i>> /\ dir[i].first_block = x
    BY <1>2, <1>3, <1>4, <1>5, <1>6, <2>3
  <2> QED BY <1>6, <2>1, <2>2, <2>3
<1> HIDE DEF R
<1>8. R = {} \/ \E r : R = {r}
  BY <1>7
<1>9. Cardinality(R) <= 1
  <2>1. CASE R = {}
    <3>1. Cardinality(R) = 0
      BY <2>1, FS_EmptySet
    <3> QED BY <3>1
  <2>2. CASE \E r : R = {r}
    <3>1. Cardinality(R) = 1
      BY <2>2, FS_Singleton
    <3> QED BY <3>1
  <2> QED BY <1>8, <2>1, <2>2
<1>10. QED
  BY <1>9 DEF R

(* every block is on a list, *)
LEMMA LayoutLosesNothing ==
  ASSUME NEW dir, WellFormed(dir), NEW map, NEW own, NEW pos, NEW base,
         Layout(dir, map, own, pos, base)
  PROVE  DataBlock = FreeBlocks(map) \cup FileBlocks(dir, map)
<1>1. Active(dir) = Files(dir) /\ Lists(dir) = Files(dir) \cup {Free} /\ Free \notin Files(dir)
  BY ActiveAreFiles, Numbers DEF Lists, Files
<1>2. FreeBlocks(map) = {b \in DataBlock : own[b] = Free}
  <2>1. Head(dir, map, Free) = map[BLKMAP_BID]
    BY DEF Head
  <2> QED BY <1>1, <2>1, ChainIsOwned DEF FreeBlocks
<1>3. \A i \in Files(dir) : Chain(map, dir[i].first_block) = {b \in DataBlock : own[b] = i}
  <2> TAKE i \in Files(dir)
  <2>1. Head(dir, map, i) = dir[i].first_block
    BY <1>1 DEF Head
  <2> QED BY <1>1, <2>1, ChainIsOwned
<1>4. FileBlocks(dir, map) = {b \in DataBlock : own[b] \in Files(dir)}
  BY <1>1, <1>3 DEF FileBlocks
<1>5. \A b \in DataBlock : own[b] \in Files(dir) \cup {Free}
  BY <1>1 DEF Layout, Placed
<1>6. QED
  BY <1>2, <1>4, <1>5

(* Fewer blocks take fewer bytes. *)
LEMMA ScaledDown ==
  ASSUME NEW m \in Int, NEW n \in Int, NEW size \in Int, m <= n, (n * BLOCK_SIZE) < size
  PROVE  (m * BLOCK_SIZE) < size
<1>1. BLOCK_SIZE \in Nat
  BY SsfsAssumption
<1>2. m * BLOCK_SIZE <= n * BLOCK_SIZE
  BY <1>1
<1>3. QED
  BY <1>1, <1>2

(* and the bytes of a file fill all but its last block. *)
LEMMA LayoutFillsBlocks ==
  ASSUME NEW dir, NEW map, NEW own, NEW pos, NEW base, Layout(dir, map, own, pos, base),
         NEW i \in Files(dir), Sized(i, dir, own, pos, base)
  PROVE  \/ (Cardinality(Chain(map, dir[i].first_block)) - 1) * BLOCK_SIZE < dir[i].size_bytes
         \/ dir[i].size_bytes = 0
<1> DEFINE C == {b \in DataBlock : own[b] = i}
           m == Cardinality(C) - 1
           f == [b \in C |-> pos[b] - base[i]]
<1>1. i \in Lists(dir) /\ i # Free /\ i \in Index
  BY Numbers DEF Files, Lists
<1>2. Chain(map, dir[i].first_block) = C
  <2>1. Head(dir, map, i) = dir[i].first_block
    BY <1>1 DEF Head
  <2> QED BY <1>1, <2>1, ChainIsOwned
<1>3. /\ pos \in [DataBlock -> Int] /\ base[i] \in Int
      /\ \A b, c \in DataBlock : own[b] = own[c] /\ pos[b] = pos[c] => b = c
      /\ \A b \in C : base[i] <= pos[b]
  BY <1>1 DEF Layout, Placed, Reached
<1>4. IsFiniteSet(C) /\ Cardinality(C) \in Nat
  BY DataBlocksFinite, FS_Subset, FS_CardinalityType
<1>5. CASE C = {}
  <2>1. Cardinality(C) = 0
    BY <1>5, FS_EmptySet
  <2>2. dir[i].first_block = End(i)
    BY <1>1, <1>5 DEF Layout, Headed, Head
  <2>3. dir[i].size_bytes = 0
    BY <1>1, <2>2 DEF Sized, End
  <2> QED BY <2>3
<1>6. CASE C # {}
  <2>0. m \in Nat
    <3>1. Cardinality(C) # 0
      BY <1>4, <1>6, FS_EmptySet
    <3> QED BY <1>4, <3>1
  <2>1. \E b \in C : m <= f[b]
    <3> SUFFICES ASSUME \A b \in C : ~(m <= f[b]) PROVE FALSE
      OBVIOUS
    <3>1. \A b \in C : f[b] \in 0 .. m - 1
      <4> TAKE b \in C
      <4>1. f[b] \in Int /\ 0 <= f[b]
        BY <1>3
      <4>2. ~(m <= f[b])
        OBVIOUS
      <4> HIDE DEF f, m
      <4> QED BY <2>0, <4>1, <4>2
    <3>2. \A b, c \in C : f[b] = f[c] => b = c
      <4> TAKE b, c \in C
      <4>1. f[b] = pos[b] - base[i] /\ f[c] = pos[c] - base[i] /\ own[b] = own[c]
            /\ pos[b] \in Int /\ pos[c] \in Int /\ b \in DataBlock /\ c \in DataBlock
        BY <1>3
      <4> QED BY <1>3, <4>1
    <3>3. f \in Injection(C, 0 .. m - 1)
      <4>1. DOMAIN f = C /\ f = [b \in C |-> f[b]]
        OBVIOUS
      <4> HIDE DEF f, C, m
      <4>2. f \in [C -> 0 .. m - 1]
        BY <3>1, <4>1
      <4> QED BY <3>2, <4>1, <4>2 DEF Injection, IsInjective
    <3>4. IsFiniteSet(0 .. m - 1) /\ Cardinality(0 .. m - 1) <= m
      <4> HIDE DEF m
      <4>1. 0 \in Int /\ m - 1 \in Int
        BY <2>0
      <4>2. IsFiniteSet(0 .. m - 1) /\ Cardinality(0 .. m - 1) = IF 0 > m - 1 THEN 0 ELSE m - 1 - 0 + 1
        BY <4>1, FS_Interval
      <4> QED BY <2>0, <4>2
    <3>5. Cardinality(C) <= Cardinality(0 .. m - 1)
      <4> HIDE DEF f, C, m
      <4> QED BY <3>3, <3>4, FS_Injection
    <3>6. Cardinality(0 .. m - 1) \in Nat
      <4> HIDE DEF f, C, m
      <4> QED BY <3>4, FS_CardinalityType
    <3>7. Cardinality(C) = m + 1
      BY <1>4
    <3> HIDE DEF m, C
    <3> QED BY <2>0, <3>4, <3>5, <3>6, <3>7
  <2>2. PICK b \in C : m <= f[b]
    BY <2>1
  <2>3. f[b] \in Int /\ (f[b] * BLOCK_SIZE) < dir[i].size_bytes /\ dir[i].size_bytes \in Int
    BY <1>3 DEF Sized, Within
  <2>4. (m * BLOCK_SIZE) < dir[i].size_bytes
    <3> HIDE DEF f, m
    <3> QED BY <2>0, <2>2, <2>3, ScaledDown
  <2> QED BY <1>2, <2>4
<1>7. QED
  BY <1>5, <1>6

-------------------------------------------------------------------------------
(* What the handlers do to a consistent disk. *)

(* A file whose entry and whose blocks another file took over has its size. *)
LEMMA SizedSame ==
  ASSUME NEW i, NEW j, NEW dir, NEW new, NEW own, NEW own2, NEW pos, NEW pos2, NEW base, NEW base2,
         Sized(i, dir, own, pos, base),
         new[j].size_bytes = dir[i].size_bytes, new[j].first_block = dir[i].first_block,
         \A b \in DataBlock : own2[b] = j => own[b] = i /\ pos2[b] - base2[j] = pos[b] - base[i]
  PROVE  Sized(j, new, own2, pos2, base2)
BY DEF Sized

(* A new entry without blocks. *)
LEMMA ConsistentEntered ==
  ASSUME NEW dir, NEW map, Consistent(dir, map),
         NEW i \in Index, dir[i].name = Empty,
         NEW new, new[i].name # Empty, new[i].size_bytes = 0, new[i].first_block = EOF_BLOCK,
         \A j \in Index \ {i} : new[j] = dir[j]
  PROVE  Consistent(new, map)
<1>1. PICK own, pos, base : Layout(dir, map, own, pos, base) /\ AllSized(dir, own, pos, base)
  BY DEF Consistent
<1>2. Lists(new) = Lists(dir) \cup {i} /\ Files(new) = Files(dir) \cup {i} /\ i \notin Lists(dir)
      /\ i # Free
  BY Numbers DEF Lists, Files
<1>3. \A b \in DataBlock : own[b] \in Lists(dir)
  BY <1>1 DEF Layout, Placed
<1>4. \A l \in Lists(dir) : Head(new, map, l) = Head(dir, map, l)
  BY <1>2 DEF Head, Lists
<1>5. Head(new, map, i) = End(i)
  BY <1>2 DEF Head, End
<1>6. Layout(new, map, own, pos, base)
  BY <1>1, <1>2, <1>3, <1>4, <1>5 DEF Layout, Placed, Headed, Reached
<1>7. Sized(i, new, own, pos, base)
  BY <1>2, <1>3 DEF Sized
<1>8. ASSUME NEW j \in Files(dir) PROVE Sized(j, new, own, pos, base)
  <2>1. new[j] = dir[j]
    BY <1>2 DEF Lists, Files
  <2> QED BY <1>1, <2>1 DEF AllSized, Sized
<1>9. QED
  BY <1>2, <1>6, <1>7, <1>8 DEF AllSized, Consistent

(* Entries that move, while one without blocks goes. *)
LEMMA ConsistentMoved ==
  ASSUME NEW dir, NEW map, Consistent(dir, map),
         NEW new, NEW from \in [Lists(new) -> Lists(dir)],
         \A k \in Lists(new) : from[k] = Free <=> k = Free,
         \A j, k \in Lists(new) : from[j] = from[k] => j = k,
         \A k \in Files(new) : /\ new[k].first_block = dir[from[k]].first_block
                               /\ new[k].size_bytes = dir[from[k]].size_bytes,
         \A l \in Lists(dir) : \/ \E k \in Lists(new) : from[k] = l
                               \/ l # Free /\ dir[l].first_block = EOF_BLOCK
  PROVE  Consistent(new, map)
<1>1. PICK own, pos, base : Layout(dir, map, own, pos, base) /\ AllSized(dir, own, pos, base)
  BY DEF Consistent
<1> DEFINE to(l) == CHOOSE k \in Lists(new) : from[k] = l
           own2 == [b \in DataBlock |-> to(own[b])]
           base2 == [k \in Index \cup {Free} |-> IF k \in Lists(new) THEN base[from[k]] ELSE 0]
<1>2. /\ own \in [DataBlock -> Lists(dir)] /\ pos \in [DataBlock -> Int] /\ map \in BlockMap
      /\ base \in [Index \cup {Free} -> Int]
      /\ \A b, c \in DataBlock : own[b] = own[c] /\ pos[b] = pos[c] => b = c
  BY <1>1 DEF Layout, Placed
<1>3. Lists(new) = Files(new) \cup {Free} /\ Free \notin Files(new)
      /\ Lists(dir) = Files(dir) \cup {Free} /\ Free \notin Files(dir)
  BY Numbers DEF Lists, Files
<1>4. \A b \in DataBlock : \E k \in Lists(new) : from[k] = own[b]
  <2> TAKE b \in DataBlock
  <2>1. SUFFICES ASSUME own[b] # Free, dir[own[b]].first_block = EOF_BLOCK PROVE FALSE
    BY <1>2
  <2>2. Head(dir, map, own[b]) = EOF_BLOCK
    BY <2>1 DEF Head
  <2> QED BY <1>1, <1>2, <2>2, Numbers DEF Layout, Headed
<1>5. \A b \in DataBlock : own2[b] \in Lists(new) /\ from[own2[b]] = own[b]
  BY <1>4
<1>6. \A b \in DataBlock, k \in Lists(new) : own2[b] = k <=> own[b] = from[k]
  <2> HIDE DEF own2
  <2> QED BY <1>5
<1>7. base2 \in [Index \cup {Free} -> Int] /\ \A k \in Lists(new) : base2[k] = base[from[k]]
  BY <1>2, <1>3 DEF Lists
<1>8. own2 \in [DataBlock -> Lists(new)]
  BY <1>5
<1> HIDE DEF own2, base2
<1>9. \A k \in Lists(new) : Head(new, map, k) = Head(dir, map, from[k]) /\ End(k) = End(from[k])
  BY <1>3 DEF Head, End
<1>10. Placed(new, map, own2, pos, base2)
  BY <1>2, <1>5, <1>7, <1>8 DEF Placed
<1>11. Headed(new, map, own2, pos, base2)
  <2> SUFFICES ASSUME NEW k \in Lists(new)
               PROVE  LET g == Head(new, map, k) IN
                      \/ g \in DataBlock /\ own2[g] = k /\ pos[g] = base2[k]
                      \/ g = End(k) /\ \A b \in DataBlock : own2[b] # k
    BY DEF Headed
  <2>1. from[k] \in Lists(dir)
    OBVIOUS
  <2>2. LET g == Head(dir, map, from[k]) IN
        \/ g \in DataBlock /\ own[g] = from[k] /\ pos[g] = base[from[k]]
        \/ g = End(from[k]) /\ \A b \in DataBlock : own[b] # from[k]
    BY <1>1, <2>1 DEF Layout, Headed
  <2> QED BY <1>6, <1>7, <1>9, <2>2
<1>12. Linked(map, own2, pos)
  <2> SUFFICES ASSUME NEW b \in DataBlock
               PROVE  \/ map[b] \in DataBlock /\ own2[map[b]] = own2[b] /\ pos[map[b]] = pos[b] + 1
                      \/ map[b] = End(own2[b]) /\ \A c \in DataBlock : own2[c] = own2[b] => pos[c] <= pos[b]
    BY DEF Linked
  <2>1. \/ map[b] \in DataBlock /\ own[map[b]] = own[b] /\ pos[map[b]] = pos[b] + 1
        \/ map[b] = End(own[b]) /\ \A c \in DataBlock : own[c] = own[b] => pos[c] <= pos[b]
    BY <1>1 DEF Layout, Linked
  <2> QED BY <1>5, <1>6, <1>9, <2>1
<1>13. Reached(new, map, own2, pos, base2)
  BY <1>1, <1>5, <1>7, <1>9 DEF Layout, Reached
<1>14. \A i \in Files(new) : Sized(i, new, own2, pos, base2)
  <2> TAKE i \in Files(new)
  <2>1. from[i] \in Files(dir) /\ i \in Lists(new)
    BY <1>3
  <2>2. Sized(from[i], dir, own, pos, base)
    BY <1>1, <2>1 DEF AllSized
  <2>3. \A b \in DataBlock : own2[b] = i => own[b] = from[i] /\ pos[b] - base2[i] = pos[b] - base[from[i]]
    BY <1>6, <1>7, <2>1
  <2> QED BY <2>2, <2>3, SizedSame
<1>15. QED
  BY <1>10, <1>11, <1>12, <1>13, <1>14 DEF Consistent, Layout, AllSized

(* Only names change, and no entry becomes empty or ceases to be. *)
LEMMA ConsistentNamed ==
  ASSUME NEW dir, NEW map, Consistent(dir, map), NEW new,
         \A i \in Index : /\ new[i].name = Empty <=> dir[i].name = Empty
                          /\ new[i].first_block = dir[i].first_block
                          /\ new[i].size_bytes = dir[i].size_bytes
  PROVE  Consistent(new, map)
<1>1. PICK own, pos, base : Layout(dir, map, own, pos, base) /\ AllSized(dir, own, pos, base)
  BY DEF Consistent
<1>2. Lists(new) = Lists(dir) /\ Files(new) = Files(dir)
  BY DEF Lists, Files
<1>3. Layout(new, map, own, pos, base)
  BY <1>1, <1>2, LayoutByFirst DEF Lists
<1>4. AllSized(new, own, pos, base)
  BY <1>1, <1>2 DEF AllSized, Sized, Files
<1>5. QED
  BY <1>3, <1>4 DEF Consistent

(* scooch_dir_entries, entry by entry *)
LEMMA ScoochedEntries ==
  ASSUME NEW dir, Table(dir), NEW n, Packed(dir, n), NEW di \in Index, dir[di].name # Empty,
         NEW new, new = scooch_dir_entries(dir, di)
  PROVE  /\ n \in Int /\ di < n /\ n <= DIR_ENTRIES
         /\ \A i \in Index : i < n - 1 => i + 1 \in Index /\ new[i] = dir[IF i < di THEN i ELSE i + 1]
         /\ \A i \in Index : new[i].name # Empty <=> i < n - 1
<1>2. n \in Int /\ di \in Int /\ DIR_ENTRIES \in Int
      /\ di < n /\ 0 <= di /\ n <= DIR_ENTRIES
  BY FsAssumption DEF Packed, Index
<1>3. new = [i \in Index |-> IF i \in di .. (n - 1) - 1 THEN dir[i + 1]
                             ELSE IF i = n - 1 THEN [dir[i] EXCEPT !.name = Empty]
                             ELSE dir[i]]
  BY PackedLastMoved DEF scooch_dir_entries
<1>4. \A i \in Index : i \in Int /\ 0 <= i /\ i < DIR_ENTRIES
  BY FsAssumption DEF Index
<1>5. \A i \in Index : di <= i /\ i < n - 1 => i + 1 \in Index /\ new[i] = dir[i + 1]
  BY <1>2, <1>3, <1>4 DEF Index
<1>6. \A i \in Index : i < di \/ i >= n => new[i] = dir[i]
  BY <1>2, <1>3, <1>4
<1>7. n - 1 \in Index /\ new[n - 1].name = Empty
  <2>1. n - 1 \in Index
    BY <1>2 DEF Index
  <2>2. new[n - 1] = [dir[n - 1] EXCEPT !.name = Empty]
    BY <1>2, <1>3, <2>1
  <2> QED BY <2>1, <2>2 DEF Table, EntryFields
<1>8. \A i \in Index : i < n - 1 => i + 1 \in Index /\ new[i] = dir[IF i < di THEN i ELSE i + 1]
  BY <1>2, <1>4, <1>5, <1>6 DEF Index
<1>9. \A i \in Index : new[i].name # Empty <=> i < n - 1
  <2> TAKE i \in Index
  <2>1. CASE di <= i /\ i < n - 1
    <3>1. dir[i + 1].name # Empty <=> i + 1 < n
      BY <1>5, <2>1 DEF Packed
    <3> QED BY <1>2, <1>4, <1>5, <2>1, <3>1
  <2>2. CASE i < di \/ i >= n
    BY <1>2, <1>4, <1>6, <2>2 DEF Packed
  <2>3. CASE i = n - 1
    BY <1>2, <1>7, <2>3
  <2>4. (di <= i /\ i < n - 1) \/ (i < di \/ i >= n) \/ i = n - 1
    BY <1>2, <1>4
  <2> QED BY <2>1, <2>2, <2>3, <2>4
<1>10. QED
  BY <1>2, <1>8, <1>9

(* do_unlink removes the entry of an empty file. *)
LEMMA ConsistentScooched ==
  ASSUME NEW dir, NEW map, Consistent(dir, map), Table(dir), WellFormed(dir),
         NEW di \in Index, dir[di].name # Empty, dir[di].first_block = EOF_BLOCK
  PROVE  Consistent(scooch_dir_entries(dir, di), map)
<1> DEFINE new == scooch_dir_entries(dir, di)
           from == [k \in Lists(new) |-> IF k = Free \/ k < di THEN k ELSE k + 1]
<1>1. PICK n \in 0 .. DIR_ENTRIES : Packed(dir, n)
  BY DEF WellFormed
<1>2. /\ n \in Int /\ di < n /\ n <= DIR_ENTRIES
      /\ \A i \in Index : i < n - 1 => i + 1 \in Index /\ new[i] = dir[IF i < di THEN i ELSE i + 1]
      /\ \A i \in Index : new[i].name # Empty <=> i < n - 1
  BY <1>1, ScoochedEntries
<1> HIDE DEF new
<1>3. Files(new) = {i \in Index : i < n - 1} /\ Files(dir) = {i \in Index : i < n}
  BY <1>1, <1>2 DEF Files, Packed
<1>4. Lists(new) = Files(new) \cup {Free} /\ Lists(dir) = Files(dir) \cup {Free}
      /\ \A i \in Index : i \in Int /\ i # Free /\ i >= 0 /\ i < DIR_ENTRIES
      /\ di \in Int /\ DIR_ENTRIES \in Int /\ Index = {k \in Int : k >= 0 /\ k < DIR_ENTRIES}
  BY Numbers, FsAssumption DEF Lists, Files, Index
<1>5. \A k \in Files(new) : from[k] \in Files(dir) /\ from[k] = (IF k < di THEN k ELSE k + 1)
                            /\ k \in Int /\ k >= 0 /\ new[k] = dir[from[k]]
  BY <1>2, <1>3, <1>4
<1>6. from[Free] = Free
  BY <1>4
<1>7. from \in [Lists(new) -> Lists(dir)]
  <2>1. \A k \in Lists(new) : from[k] \in Lists(dir)
    BY <1>4, <1>5, <1>6
  <2> QED BY <2>1
<1>8. \A k \in Lists(new) : from[k] = Free <=> k = Free
  BY <1>3, <1>4, <1>5, <1>6
<1>9. ASSUME NEW j \in Lists(new), NEW k \in Lists(new), from[j] = from[k] PROVE j = k
  <2>1. CASE j = Free \/ k = Free
    BY <1>8, <1>9, <2>1
  <2>2. CASE j \in Files(new) /\ k \in Files(new)
    <3>1. from[j] = (IF j < di THEN j ELSE j + 1) /\ from[k] = (IF k < di THEN k ELSE k + 1)
          /\ j \in Int /\ k \in Int /\ di \in Int
      BY <1>4, <1>5, <2>2
    <3>2. from[j] = from[k]
      BY <1>9
    <3> HIDE DEF from
    <3>3. CASE j < di /\ k < di
      BY <3>1, <3>2, <3>3
    <3>4. CASE ~(j < di) /\ ~(k < di)
      BY <3>1, <3>2, <3>4
    <3>5. CASE (j < di /\ ~(k < di)) \/ (~(j < di) /\ k < di)
      BY <3>1, <3>2, <3>5
    <3> QED BY <3>3, <3>4, <3>5
  <2> QED BY <1>4, <2>1, <2>2
<1>10. ASSUME NEW l \in Lists(dir), l # di PROVE \E k \in Lists(new) : from[k] = l
  <2>1. CASE l = Free
    BY <1>4, <1>6, <2>1
  <2>2. CASE l < di /\ l # Free
    <3>1. l \in Lists(new)
      BY <1>2, <1>3, <1>4, <2>2
    <3> QED BY <2>2, <3>1
  <2>3. CASE ~(l < di) /\ l # Free
    <3>1. l \in Int /\ l > di /\ di >= 0 /\ l < n
      BY <1>3, <1>4, <1>10, <2>3
    <3>2. l - 1 \in Index /\ l - 1 < n - 1
      BY <1>2, <1>4, <3>1
    <3>3. l - 1 \in Lists(new) /\ ~(l - 1 < di) /\ l - 1 # Free /\ l - 1 + 1 = l
      BY <1>3, <1>4, <3>1, <3>2
    <3>4. from[l - 1] = l
      BY <3>3
    <3> QED BY <3>3, <3>4
  <2> QED BY <2>1, <2>2, <2>3
<1> HIDE DEF from
<1>11. Consistent(new, map)
  BY <1>4, <1>5, <1>7, <1>8, <1>9, <1>10, ConsistentMoved
<1>12. QED
  BY <1>11 DEF new

(* Block b is the n-th of file i. *)
IsNth(dir, map, i, b, n) ==
  /\ b \in DataBlock /\ n \in Int
  /\ \E own, pos, base : /\ Layout(dir, map, own, pos, base) /\ AllSized(dir, own, pos, base)
                         /\ own[b] = i /\ pos[b] - base[i] = n

(* do_write starts at the first block of the file, *)
LEMMA FirstIsNth ==
  ASSUME NEW dir, NEW map, Consistent(dir, map), NEW i \in Files(dir),
         dir[i].first_block # EOF_BLOCK
  PROVE  IsNth(dir, map, i, dir[i].first_block, 0)
<1>1. PICK own, pos, base : Layout(dir, map, own, pos, base) /\ AllSized(dir, own, pos, base)
  BY DEF Consistent
<1> DEFINE h == dir[i].first_block
<1>2. i \in Lists(dir) /\ i # Free /\ i \in Index /\ h = Head(dir, map, i)
  BY Numbers DEF Lists, Files, Head
<1>3. h \in DataBlock /\ own[h] = i /\ pos[h] = base[i]
  BY <1>1, <1>2 DEF Layout, Headed, End
<1>4. base[i] \in Int
  BY <1>1, <1>2 DEF Layout, Placed
<1> HIDE DEF h
<1>5. pos[h] - base[i] = 0
  BY <1>3, <1>4
<1>6. IsNth(dir, map, i, h, 0)
  BY <1>1, <1>3, <1>5 DEF IsNth
<1>7. QED
  BY <1>6 DEF h

(* and goes from a block to the next. *)
LEMMA NextIsNth ==
  ASSUME NEW dir, NEW map, NEW i \in Files(dir), NEW b, NEW n, IsNth(dir, map, i, b, n),
         map[b] # EOF_BLOCK
  PROVE  IsNth(dir, map, i, map[b], n + 1)
<1>1. PICK own, pos, base : /\ Layout(dir, map, own, pos, base) /\ AllSized(dir, own, pos, base)
                            /\ own[b] = i /\ pos[b] - base[i] = n
  BY DEF IsNth
<1>2. b \in DataBlock /\ n \in Int /\ i # Free /\ i \in Index
  BY Numbers DEF IsNth, Files
<1>3. map[b] \in DataBlock /\ own[map[b]] = i /\ pos[map[b]] = pos[b] + 1
  BY <1>1, <1>2 DEF Layout, Linked, End
<1>4. pos[b] \in Int /\ base[i] \in Int
  BY <1>1, <1>2 DEF Layout, Placed
<1>5. pos[map[b]] - base[i] = n + 1
  BY <1>1, <1>3, <1>4
<1>6. QED
  BY <1>1, <1>2, <1>3, <1>5 DEF IsNth

(* Only the list of file i differs. *)
OthersChained(dir, i, map, new) ==
  \A j \in Files(dir) \ {i} : Chain(new, dir[j].first_block) = Chain(map, dir[j].first_block)

(* Files own the same blocks if two layouts agree about them. *)
LEMMA ChainedAlike ==
  ASSUME NEW dir, NEW dir2, NEW map, NEW new, NEW own, NEW own2, NEW pos, NEW pos2, NEW base, NEW base2,
         Layout(dir, map, own, pos, base), Layout(dir2, new, own2, pos2, base2),
         NEW i, Lists(dir2) = Lists(dir),
         \A j \in Files(dir) \ {i} : dir2[j].first_block = dir[j].first_block,
         \A b \in DataBlock, j \in Files(dir) \ {i} : own2[b] = j <=> own[b] = j
  PROVE  OthersChained(dir, i, map, new)
<1> SUFFICES ASSUME NEW j \in Files(dir) \ {i}
             PROVE  Chain(new, dir[j].first_block) = Chain(map, dir[j].first_block)
  BY DEF OthersChained
<1>1. j \in Lists(dir) /\ j \in Lists(dir2) /\ j # Free
  BY Numbers DEF Lists, Files
<1>2. Head(dir, map, j) = dir[j].first_block /\ Head(dir2, new, j) = dir[j].first_block
  BY <1>1 DEF Head
<1>3. Chain(map, dir[j].first_block) = {b \in DataBlock : own[b] = j}
  BY <1>1, <1>2, ChainIsOwned
<1>4. Chain(new, dir[j].first_block) = {b \in DataBlock : own2[b] = j}
  BY <1>1, <1>2, ChainIsOwned
<1>5. QED
  BY <1>3, <1>4

(* The block an offset is in does not begin behind the offset. *)
LEMMA DivIsBelow ==
  ASSUME NEW x \in Nat, NEW n \in Int, n <= x \div BLOCK_SIZE
  PROVE  n * BLOCK_SIZE <= x
<1>1. BLOCK_SIZE \in Nat \ {0}
  BY SsfsAssumption
<1>2. x \div BLOCK_SIZE \in Int /\ (x \div BLOCK_SIZE) * BLOCK_SIZE <= x
  BY <1>1
<1>3. n * BLOCK_SIZE <= (x \div BLOCK_SIZE) * BLOCK_SIZE
  BY <1>1, <1>2
<1>4. QED
  BY <1>1, <1>2, <1>3

(* A file with bytes may have a block, *)
LEMMA FirstIsWithin ==
  ASSUME NEW size \in Nat, size > 0
  PROVE  Within(0, size)
BY SsfsAssumption DEF Within

(* and a larger file may have the blocks of a smaller one. *)
LEMMA WithinGrown ==
  ASSUME NEW n \in Int, NEW size \in Nat, NEW larger \in Nat, size <= larger, Within(n, size)
  PROVE  Within(n, larger)
BY SsfsAssumption DEF Within

(* do_write gives an empty file its first block, *)
LEMMA ConsistentStarted ==
  ASSUME NEW dir, NEW map, Consistent(dir, map), NEW i \in Files(dir),
         dir[i].first_block = EOF_BLOCK, ~NoFreeBlock(map),
         NEW dir2, Lists(dir2) = Lists(dir), Files(dir2) = Files(dir),
         dir2[i].first_block = Allocated(map),
         dir2[i].size_bytes \in Nat, dir2[i].size_bytes > 0,
         \A j \in Files(dir) \ {i} : dir2[j] = dir[j]
  PROVE  /\ Allocated(map) \in DataBlock
         /\ Consistent(dir2, AfterAllocate(map))
         /\ OthersChained(dir, i, map, AfterAllocate(map))
<1>1. PICK own, pos, base : Layout(dir, map, own, pos, base) /\ AllSized(dir, own, pos, base)
  BY DEF Consistent
<1>0. PICK h : h = map[BLKMAP_BID]
  OBVIOUS
<1>a. PICK new : new = [map EXCEPT ![BLKMAP_BID] = map[h], ![h] = EOF_BLOCK]
  OBVIOUS
<1>b. PICK own2 : own2 = [own EXCEPT ![h] = i]
  OBVIOUS
<1>c. PICK pos2 : pos2 = [pos EXCEPT ![h] = base[i]]
  OBVIOUS
<1>d. PICK base2 : base2 = [base EXCEPT ![Free] = base[Free] + 1]
  OBVIOUS
<1>2. h = map[BLKMAP_BID] /\ h # BLKMAP_BID /\ Allocated(map) = h /\ AfterAllocate(map) = new
  BY <1>0, <1>a DEF NoFreeBlock, Allocated, AfterAllocate
<1>3. /\ own \in [DataBlock -> Lists(dir)] /\ pos \in [DataBlock -> Int]
      /\ base \in [Index \cup {Free} -> Int]
  BY <1>1 DEF Layout, Placed
<1>4. i \in Index /\ i # Free
  BY Numbers DEF Files
<1>5. /\ \A b \in DataBlock \ {h} : own2[b] = own[b] /\ pos2[b] = pos[b]
      /\ h \in DataBlock => own2[h] = i /\ pos2[h] = base[i]
      /\ \A l \in Index : base2[l] = base[l]
  BY <1>3, <1>b, <1>c, <1>d, Numbers
<1>6. h \in DataBlock /\ own[h] = Free /\ Layout(dir2, new, own2, pos2, base2)
  <2>1. Layout(dir, map, own, pos, base)
    BY <1>1
  <2>2. \A j \in Files(dir) \ {i} : dir2[j].first_block = dir[j].first_block
    OBVIOUS
  <2>3. h = map[BLKMAP_BID] /\ h # BLKMAP_BID /\ dir2[i].first_block = h
    BY <1>2
  <2>4. h \in DataBlock /\ own[h] = Free
    BY <2>1, <2>3 DEF Layout, Headed, Lists, Head, End
  <2>5. Layout(dir2, new, own2, pos2, base2)
    BY <2>1, <2>2, <2>3, <1>a, <1>b, <1>c, <1>d, LayoutStarted, ZenonT(60)
  <2> QED BY <2>4, <2>5
<1>7. \A b \in DataBlock : own[b] # i
  BY <1>1, <1>4, Numbers DEF Layout, Headed, Head, Files, Lists
<1>8. Sized(i, dir2, own2, pos2, base2)
  <2>1. dir2[i].first_block # EOF_BLOCK
    BY <1>2, <1>6, Numbers
  <2>2. ASSUME NEW b \in DataBlock, own2[b] = i PROVE Within(pos2[b] - base2[i], dir2[i].size_bytes)
    <3>1. b = h /\ pos2[b] = base[i] /\ base2[i] = base[i] /\ base[i] \in Int
      BY <1>3, <1>4, <1>5, <1>6, <1>7, <2>2
    <3>2. pos2[b] - base2[i] = 0
      BY <3>1
    <3> QED BY <3>2, FirstIsWithin
  <2> QED BY <2>1, <2>2 DEF Sized
<1>9. ASSUME NEW j \in Files(dir) \ {i} PROVE Sized(j, dir2, own2, pos2, base2)
  <2>1. Sized(j, dir, own, pos, base) /\ dir2[j] = dir[j] /\ j \in Index /\ j # Free
    BY <1>1, Numbers DEF AllSized, Files
  <2>2. \A b \in DataBlock : own2[b] = j => own[b] = j /\ pos2[b] - base2[j] = pos[b] - base[j]
    BY <1>5, <1>6, <2>1
  <2> QED BY <2>1, <2>2, SizedSame
<1>10. Consistent(dir2, new)
  BY <1>6, <1>8, <1>9 DEF Consistent, AllSized
<1>11. OthersChained(dir, i, map, new)
  <2>1. \A b \in DataBlock, j \in Files(dir) \ {i} : own2[b] = j <=> own[b] = j
    BY <1>4, <1>5, <1>6, Numbers DEF Files
  <2> QED BY <1>1, <1>6, <2>1, ChainedAlike
<1>12. QED
  BY <1>2, <1>6, <1>10, <1>11

(* and a file with blocks just more bytes. *)
LEMMA ConsistentGrown ==
  ASSUME NEW dir, NEW map, Consistent(dir, map), NEW i \in Files(dir),
         dir[i].first_block # EOF_BLOCK,
         NEW dir2, Lists(dir2) = Lists(dir), Files(dir2) = Files(dir),
         dir2[i].first_block = dir[i].first_block,
         dir2[i].size_bytes \in Nat, dir[i].size_bytes <= dir2[i].size_bytes,
         \A j \in Files(dir) \ {i} : dir2[j] = dir[j]
  PROVE  Consistent(dir2, map)
<1>1. PICK own, pos, base : Layout(dir, map, own, pos, base) /\ AllSized(dir, own, pos, base)
  BY DEF Consistent
<1>2. Layout(dir2, map, own, pos, base)
  <2>1. \A j \in Lists(dir) \ {Free} : dir2[j].first_block = dir[j].first_block
    BY DEF Lists, Files
  <2> QED BY <1>1, <2>1, LayoutByFirst
<1>3. Sized(i, dir2, own, pos, base)
  <2>1. Sized(i, dir, own, pos, base) /\ i \in Index
    BY <1>1 DEF AllSized, Files
  <2>2. \A b \in DataBlock : pos[b] - base[i] \in Int
    BY <1>1, <2>1 DEF Layout, Placed
  <2>3. dir2[i].size_bytes # 0
    BY <2>1 DEF Sized
  <2>4. \A b \in DataBlock : own[b] = i => Within(pos[b] - base[i], dir2[i].size_bytes)
    BY <2>1, <2>2, WithinGrown DEF Sized
  <2> QED BY <2>3, <2>4 DEF Sized
<1>4. ASSUME NEW j \in Files(dir) \ {i} PROVE Sized(j, dir2, own, pos, base)
  BY <1>1 DEF AllSized, Sized
<1>5. QED
  BY <1>2, <1>3, <1>4 DEF Consistent, AllSized

(* The loop of do_write extends a list by the block that is needed. *)
LEMMA NthExtended ==
  ASSUME NEW dir, NEW map, NEW i \in Files(dir), NEW b, NEW n, IsNth(dir, map, i, b, n),
         map[b] = EOF_BLOCK, ~NoFreeBlock(map), Within(n + 1, dir[i].size_bytes)
  PROVE  /\ IsNth(dir, Extended(map, b), i, Allocated(map), n + 1)
         /\ OthersChained(dir, i, map, Extended(map, b))
<1>1. PICK own, pos, base : /\ Layout(dir, map, own, pos, base) /\ AllSized(dir, own, pos, base)
                            /\ own[b] = i /\ pos[b] - base[i] = n
  BY DEF IsNth
<1>0. PICK h : h = map[BLKMAP_BID]
  OBVIOUS
<1>a. PICK new : new = [map EXCEPT ![BLKMAP_BID] = map[h], ![h] = EOF_BLOCK, ![b] = h]
  OBVIOUS
<1>b. PICK own2 : own2 = [own EXCEPT ![h] = own[b]]
  OBVIOUS
<1>c. PICK pos2 : pos2 = [pos EXCEPT ![h] = pos[b] + 1]
  OBVIOUS
<1>d. PICK base2 : base2 = [base EXCEPT ![Free] = base[Free] + 1]
  OBVIOUS
<1>2. b \in DataBlock /\ n \in Int /\ i # Free /\ i \in Index
  BY Numbers DEF IsNth, Files
<1>3. h = map[BLKMAP_BID] /\ h # BLKMAP_BID /\ Allocated(map) = h /\ Extended(map, b) = new
  BY <1>0, <1>a DEF NoFreeBlock, Allocated, AfterAllocate, Extended
<1>4. /\ own \in [DataBlock -> Lists(dir)] /\ pos \in [DataBlock -> Int]
      /\ base \in [Index \cup {Free} -> Int]
  BY <1>1 DEF Layout, Placed
<1>5. /\ \A c \in DataBlock \ {h} : own2[c] = own[c] /\ pos2[c] = pos[c]
      /\ h \in DataBlock => own2[h] = i /\ pos2[h] = pos[b] + 1
      /\ \A l \in Index : base2[l] = base[l]
  BY <1>1, <1>4, <1>b, <1>c, <1>d, Numbers
<1>6. h \in DataBlock /\ own[h] = Free /\ Layout(dir, new, own2, pos2, base2)
  <2>1. Layout(dir, map, own, pos, base)
    BY <1>1
  <2>2. b \in DataBlock
    BY <1>2
  <2>3. h = map[BLKMAP_BID] /\ h # BLKMAP_BID
    BY <1>3
  <2>4. h \in DataBlock /\ own[h] = Free
    BY <2>1, <2>3 DEF Layout, Headed, Lists, Head, End
  <2>5. Layout(dir, new, own2, pos2, base2)
    BY <2>1, <2>2, <2>3, <1>a, <1>b, <1>c, <1>d, LayoutExtended, ZenonT(60)
  <2> QED BY <2>4, <2>5
<1>7. pos2[h] - base2[i] = n + 1
  BY <1>1, <1>2, <1>4, <1>5, <1>6
<1>8. Sized(i, dir, own2, pos2, base2)
  <2>1. Sized(i, dir, own, pos, base)
    BY <1>1 DEF AllSized
  <2>2. ASSUME NEW c \in DataBlock, own2[c] = i PROVE Within(pos2[c] - base2[i], dir[i].size_bytes)
    BY <1>2, <1>5, <1>7, <2>1, <2>2 DEF Sized
  <2> QED BY <2>1, <2>2 DEF Sized
<1>9. ASSUME NEW j \in Files(dir) \ {i} PROVE Sized(j, dir, own2, pos2, base2)
  <2>1. Sized(j, dir, own, pos, base) /\ j \in Index /\ j # Free
    BY <1>1, Numbers DEF AllSized, Files
  <2>2. \A c \in DataBlock : own2[c] = j => own[c] = j /\ pos2[c] - base2[j] = pos[c] - base[j]
    BY <1>5, <1>6, <2>1
  <2> QED BY <2>1, <2>2, SizedSame
<1>10. IsNth(dir, new, i, h, n + 1)
  BY <1>2, <1>5, <1>6, <1>7, <1>8, <1>9 DEF IsNth, AllSized
<1>11. OthersChained(dir, i, map, new)
  <2>1. \A c \in DataBlock, j \in Files(dir) \ {i} : own2[c] = j <=> own[c] = j
    BY <1>2, <1>5, <1>6, Numbers DEF Files
  <2> QED BY <1>1, <1>6, <2>1, ChainedAlike
<1>12. QED
  BY <1>3, <1>10, <1>11

(* do_truncate: file i has no bytes any more, but still some blocks. *)
Emptied(dir, map, i) ==
  /\ i \in Files(dir) /\ dir[i].size_bytes = 0
  /\ \E own, pos, base : /\ Layout(dir, map, own, pos, base)
                         /\ \A j \in Files(dir) \ {i} : Sized(j, dir, own, pos, base)

(* Before the first block is freed the file still has all of them, *)
LEMMA ConsistentEmptied ==
  ASSUME NEW dir, NEW map, Consistent(dir, map), NEW i \in Files(dir),
         NEW dir2, Lists(dir2) = Lists(dir), Files(dir2) = Files(dir),
         dir2[i].first_block = dir[i].first_block, dir2[i].size_bytes = 0,
         \A j \in Files(dir) \ {i} : dir2[j] = dir[j]
  PROVE  Emptied(dir2, map, i)
<1>1. PICK own, pos, base : Layout(dir, map, own, pos, base) /\ AllSized(dir, own, pos, base)
  BY DEF Consistent
<1>2. Layout(dir2, map, own, pos, base)
  <2>1. \A j \in Lists(dir) \ {Free} : dir2[j].first_block = dir[j].first_block
    BY DEF Lists, Files
  <2> QED BY <1>1, <2>1, LayoutByFirst
<1>3. ASSUME NEW j \in Files(dir) \ {i} PROVE Sized(j, dir2, own, pos, base)
  BY <1>1 DEF AllSized, Sized
<1>4. QED
  BY <1>2, <1>3 DEF Emptied

(* with every round of the loop it loses its first, *)
LEMMA EmptiedFreed ==
  ASSUME NEW dir, NEW map, NEW i, Emptied(dir, map, i), NEW f \in Block, f = dir[i].first_block,
         NEW dir2, Lists(dir2) = Lists(dir), Files(dir2) = Files(dir),
         dir2[i].first_block = map[f], dir2[i].size_bytes = 0,
         \A j \in Files(dir) \ {i} : dir2[j] = dir[j]
  PROVE  Emptied(dir2, AfterFree(map, f), i) /\ OthersChained(dir, i, map, AfterFree(map, f))
<1>1. PICK own, pos, base : /\ Layout(dir, map, own, pos, base)
                            /\ \A j \in Files(dir) \ {i} : Sized(j, dir, own, pos, base)
  BY DEF Emptied
<1> DEFINE new == [map EXCEPT ![f] = map[BLKMAP_BID], ![BLKMAP_BID] = f]
           own2 == [own EXCEPT ![f] = Free]
           pos2 == [pos EXCEPT ![f] = base[Free] - 1]
           base2 == [base EXCEPT ![Free] = base[Free] - 1, ![i] = base[i] + 1]
<1>2. i \in Files(dir) /\ i # Free /\ i \in Index /\ AfterFree(map, f) = new
  BY Numbers DEF Emptied, Files, AfterFree
<1>3. /\ own \in [DataBlock -> Lists(dir)] /\ pos \in [DataBlock -> Int]
      /\ base \in [Index \cup {Free} -> Int]
  BY <1>1 DEF Layout, Placed
<1>4. /\ \A c \in DataBlock \ {f} : own2[c] = own[c] /\ pos2[c] = pos[c]
      /\ f \in DataBlock => own2[f] = Free
      /\ \A l \in Index \ {i} : base2[l] = base[l]
  BY <1>3, Numbers
<1> HIDE DEF new, own2, pos2, base2
<1>5. f \in DataBlock /\ own[f] = i /\ Layout(dir2, new, own2, pos2, base2)
  BY <1>1, <1>2, LayoutFreed DEF new, own2, pos2, base2
<1>6. ASSUME NEW j \in Files(dir) \ {i} PROVE Sized(j, dir2, own2, pos2, base2)
  <2>1. Sized(j, dir, own, pos, base) /\ dir2[j] = dir[j] /\ j \in Index \ {i} /\ j # Free
    BY <1>1, Numbers DEF Files
  <2>2. \A c \in DataBlock : own2[c] = j => own[c] = j /\ pos2[c] - base2[j] = pos[c] - base[j]
    BY <1>4, <1>5, <2>1
  <2> QED BY <2>1, <2>2, SizedSame
<1>7. OthersChained(dir, i, map, new)
  <2>1. \A c \in DataBlock, j \in Files(dir) \ {i} : own2[c] = j <=> own[c] = j
    BY <1>2, <1>4, <1>5, Numbers DEF Files
  <2> QED BY <1>1, <1>5, <2>1, ChainedAlike
<1>8. QED
  BY <1>2, <1>5, <1>6, <1>7 DEF Emptied

(* and when it has none left nothing is amiss. *)
LEMMA EmptiedIsConsistent ==
  ASSUME NEW dir, NEW map, NEW i, Emptied(dir, map, i), dir[i].first_block = EOF_BLOCK
  PROVE  Consistent(dir, map)
<1>1. PICK own, pos, base : /\ Layout(dir, map, own, pos, base)
                            /\ \A j \in Files(dir) \ {i} : Sized(j, dir, own, pos, base)
  BY DEF Emptied
<1>2. i \in Files(dir) /\ i # Free /\ i \in Lists(dir) /\ dir[i].size_bytes = 0
  BY Numbers DEF Emptied, Files, Lists
<1>3. \A b \in DataBlock : own[b] # i
  BY <1>1, <1>2, Numbers DEF Layout, Headed, Head
<1>4. Sized(i, dir, own, pos, base)
  BY <1>2, <1>3 DEF Sized
<1>5. QED
  BY <1>1, <1>4 DEF Consistent, AllSized

-------------------------------------------------------------------------------
(* The invariant for the blocks.  As long as no flaw has occurred, a handler
   knows at every place how the caches differ from the disk, and the disk is
   consistent outside the two windows. *)

(* what the kernel passes on *)
Asks(c) ==
  /\ c.op = "write" => c.offset \in Nat /\ c.size \in Nat \ {0}
  /\ c.op = "rename" => c.path # c.npath

(* the entries a thread holds are still where it found them *)
Holds(s, dir) ==
  /\ s.pc \in {"write_map", "write_save", "navigate"} => dir[s.di].name = s.call.path
  /\ s.pc \in {"freeing", "truncate_save"} => dir[s.tdi].name = Removed(s.call)
  /\ s.pc = "unlink_save" => dir[s.udi].name = Removed(s.call)
  /\ s.call.op = "rename" /\ s.pc # "rename" => dir[s.di].name = s.call.path

(* between two disk writes that belong together, as InWindow *)
Window(s, dir) ==
  \/ s.pc = "navigate" /\ s.fresh
  \/ s.pc = "truncate_save" /\ dir[s.tdi].first_block # EOF_BLOCK

(* the cache differs from the disk in one entry only *)
SameBut(i, dir, cache) == \A j \in Index \ {i} : cache[j] = dir[j]

Entered(c) == [name |-> c.path, size_bytes |-> 0, first_block |-> EOF_BLOCK]

CacheKnown(s, dir, cache) ==
  /\ s.pc \in {"write_map", "navigate", "scooch", "rename_entry"} => cache = dir
  /\ s.pc = "create_save" =>
       \E i \in Index : dir[i].name = Empty /\ cache[i] = Entered(s.call) /\ SameBut(i, dir, cache)
  /\ s.pc \in {"scooch", "unlink_save"} => dir[s.udi].first_block = EOF_BLOCK
  /\ s.pc = "unlink_save" => cache = scooch_dir_entries(dir, s.udi)
  /\ s.pc = "rename_save" =>
       /\ SameBut(s.di, dir, cache) /\ cache[s.di].name = s.call.npath
       /\ cache[s.di].size_bytes = dir[s.di].size_bytes
       /\ cache[s.di].first_block = dir[s.di].first_block
       /\ Lacks(dir, s.call.npath)

(* do_write: the caches are what the disk will be; the block it has reached
   is so many links before the one that it writes to *)
WriteKnown(s, dir, map, cdir, cmap) ==
  /\ s.pc = "write_save" =>
       /\ Consistent(cdir, cmap) /\ (~s.fresh => cmap = map)
       /\ cdir[s.di].first_block # EOF_BLOCK
       /\ cdir[s.di].size_bytes \in Nat /\ s.call.offset + s.call.size <= cdir[s.di].size_bytes
       /\ SameBut(s.di, dir, cdir) /\ OthersChained(dir, s.di, map, cmap)
  /\ s.pc = "navigate" =>
       /\ dir[s.di].size_bytes \in Nat /\ s.call.offset + s.call.size <= dir[s.di].size_bytes
       /\ s.blkoffs \in Nat
       /\ \E n \in Int : /\ n + s.blkoffs = s.call.offset \div BLOCK_SIZE
                         /\ IsNth(dir, cmap, s.di, s.crtblk, n)
       /\ OthersChained(dir, s.di, map, cmap)

(* do_truncate: the blocks still to be freed are those of the file *)
TruncateKnown(s, dir, map, cdir, cmap) ==
  /\ s.pc = "freeing" =>
       /\ Emptied(cdir, cmap, s.tdi)
       /\ dir[s.tdi].first_block = EOF_BLOCK => cdir[s.tdi].first_block = EOF_BLOCK /\ cmap = map
       /\ SameBut(s.tdi, dir, cdir) /\ OthersChained(dir, s.tdi, map, cmap)
  /\ s.pc = "truncate_save" =>
       /\ Consistent(cdir, map) /\ cdir[s.tdi].first_block = EOF_BLOCK
       /\ SameBut(s.tdi, dir, cdir)

Knows(s, dir, map, cdir, cmap) ==
  /\ Asks(s.call) /\ Holds(s, dir)
  /\ ~Window(s, dir) => Consistent(dir, map)
  /\ CacheKnown(s, dir, cdir)
  /\ WriteKnown(s, dir, map, cdir, cmap) /\ TruncateKnown(s, dir, map, cdir, cmap)

(* the only thread and the disk, undamaged *)
Undamaged ==
  /\ \A t \in Thread : Knows(thread[t], disk_dir, disk_map, bdir, bmap)
  /\ (\A t \in Thread : ~Window(thread[t], disk_dir)) => Consistent(disk_dir, disk_map)
BInv == ~damaged => Undamaged

-------------------------------------------------------------------------------
(* What a step of the only thread has to show. *)
LEMMA SteppedBlocks ==
  ASSUME IInv, SingleThread, NEW t \in Thread, NEW s, thread' = [thread EXCEPT ![t] = s],
         ~damaged' => Knows(s, disk_dir', disk_map', bdir', bmap')
  PROVE  BInv'
<1>1. DOMAIN thread' = Thread /\ thread'[t] = s
  BY DEF IInv
<1>2. \A u \in Thread : u = t
  BY DEF SingleThread
<1>3. ASSUME ~damaged' PROVE \A u \in Thread : Knows(thread'[u], disk_dir', disk_map', bdir', bmap')
  BY <1>1, <1>2, <1>3
<1>4. ASSUME ~damaged', \A u \in Thread : ~Window(thread'[u], disk_dir')
      PROVE  Consistent(disk_dir', disk_map')
  BY <1>1, <1>4 DEF Knows
<1>5. QED
  BY <1>3, <1>4 DEF BInv, Undamaged

(* A thread that is about to look at the disk need not know anything of it. *)
LEMMA RestKnows ==
  ASSUME NEW s, NEW dir, NEW map, NEW cdir, NEW cmap,
         s.pc \in {"idle", "getattr", "create", "write", "truncate", "unlink", "rename"},
         s.call.op = "rename" => s.pc = "rename", Asks(s.call), Consistent(dir, map)
  PROVE  Knows(s, dir, map, cdir, cmap)
BY DEF Knows, Holds, Window, CacheKnown, WriteKnown, TruncateKnown

(* What a step with which a handler returns has to show. *)
LEMMA ReturnedBlocks ==
  ASSUME IInv, SingleThread, NEW t \in Thread, Return(t),
         ~damaged' => Consistent(disk_dir', disk_map')
  PROVE  BInv'
<1>1. Idle.pc = "idle" /\ Idle.call.op = "none" /\ Asks(Idle.call)
  BY DEF Idle, NoCall, Asks
<1>2. ~damaged' => Knows(Idle, disk_dir', disk_map', bdir', bmap')
  BY <1>1, RestKnows
<1>3. QED
  BY <1>2, SteppedBlocks DEF Return

(* Every step keeps the invariant: a call begins, *)
LEMMA BeginBlocks ==
  ASSUME IInv, BInv, SingleThread, NEW t \in Thread, Begin(t)
  PROVE  BInv'
<1>1. PICK c \in Call : thread' = [thread EXCEPT ![t].pc = c.op, ![t].call = c]
  BY DEF Begin
<1> DEFINE s == [thread[t] EXCEPT !.pc = c.op, !.call = c]
<1>2. Good(thread[t], disk_dir, bdir) /\ thread[t] = Idle
  BY DEF IInv, Begin
<1>3. c.op \in {"getattr", "create", "truncate", "unlink", "rename", "write"} /\ Asks(c)
  BY SsfsAssumption DEF Call, Asks
<1>4. s.pc = c.op /\ s.call = c
  BY <1>2 DEF Good, Shaped, ThreadFields
<1> HIDE DEF s
<1>5. ~damaged => Consistent(disk_dir, disk_map)
  <2> SUFFICES ASSUME ~damaged PROVE Consistent(disk_dir, disk_map)
    OBVIOUS
  <2>1. Knows(thread[t], disk_dir, disk_map, bdir, bmap)
    BY DEF BInv, Undamaged
  <2> QED BY <1>2, <2>1 DEF Knows, Window, Idle
<1>6. ~damaged => Knows(s, disk_dir, disk_map, bdir, bmap)
  BY <1>3, <1>4, <1>5, RestKnows
<1>7. /\ thread' = [thread EXCEPT ![t] = s] /\ damaged' = damaged
      /\ disk_dir' = disk_dir /\ disk_map' = disk_map /\ bdir' = bdir /\ bmap' = bmap
  BY <1>1 DEF Begin, s
<1>8. QED
  BY <1>6, <1>7, SteppedBlocks

(* Which files there are is decided by the names. *)
LEMMA ListsByName ==
  ASSUME NEW dir, NEW new, \A i \in Index : new[i].name = Empty <=> dir[i].name = Empty
  PROVE  Lists(new) = Lists(dir) /\ Files(new) = Files(dir)
BY DEF Lists, Files

(* do_getattr, do_create, *)
LEMMA CreateBlocks ==
  ASSUME IInv, BInv, SingleThread, NEW t \in Thread,
         GetAttr(t) \/ CreateFull(t) \/ CreateEntry(t) \/ CreateSave(t)
  PROVE  BInv'
<1>1. Good(thread[t], disk_dir, bdir) /\ Table(disk_dir) /\ WellFormed(disk_dir) /\ Table(bdir)
  BY DEF IInv
<1>2. damaged' = damaged /\ disk_map' = disk_map /\ bmap' = bmap
  BY DEF GetAttr, CreateFull, CreateEntry, CreateSave, SaveDirectory
<1>3. thread[t].pc \in {"getattr", "create", "create_save"}
  BY DEF GetAttr, CreateFull, CreateEntry, CreateSave, At
<1>4. ASSUME ~damaged
      PROVE  Knows(thread[t], disk_dir, disk_map, bdir, bmap) /\ Consistent(disk_dir, disk_map)
  <2>1. Knows(thread[t], disk_dir, disk_map, bdir, bmap)
    BY <1>4 DEF BInv, Undamaged
  <2> QED BY <1>3, <2>1 DEF Knows, Window
<1>5. CASE GetAttr(t) \/ CreateFull(t)
  <2>1. Return(t) /\ disk_dir' = disk_dir
    BY <1>5 DEF GetAttr, CreateFull
  <2> QED BY <1>2, <1>4, <2>1, ReturnedBlocks
<1>6. CASE CreateEntry(t)
  <2> DEFINE i == FirstEmpty(disk_dir)
             s == [thread[t] EXCEPT !.pc = "create_save"]
  <2>1. i \in Index /\ disk_dir[i].name = Empty
    <3>1. PICK n \in 0 .. DIR_ENTRIES : Packed(disk_dir, n)
      BY <1>1 DEF WellFormed
    <3>2. i = n /\ n < DIR_ENTRIES
      BY <1>6, <3>1, PackedFirstEmpty DEF CreateEntry
    <3>3. n \in Index /\ ~(n < n)
      BY <3>2, FsAssumption DEF Index
    <3> HIDE DEF i
    <3> QED BY <3>1, <3>2, <3>3 DEF Packed
  <2>2. bdir' = [disk_dir EXCEPT ![i] = Entered(thread[t].call)] /\ disk_dir' = disk_dir
        /\ thread' = [thread EXCEPT ![t] = s] /\ thread[t].pc = "create"
    BY <1>6 DEF CreateEntry, GoTo, Entered, Path, At
  <2>3. s.pc = "create_save" /\ s.call = thread[t].call
    BY <1>1 DEF Good, Shaped, ThreadFields
  <2> HIDE DEF i, s
  <2>4. bdir'[i] = Entered(s.call) /\ SameBut(i, disk_dir, bdir')
    BY <1>1, <2>1, <2>2, <2>3 DEF Table, SameBut
  <2>5. s.call.op = "create"
    BY <1>1, <2>2, <2>3 DEF Good, Serves
  <2>6. ASSUME ~damaged PROVE Knows(s, disk_dir', disk_map', bdir', bmap')
    <3>1. CacheKnown(s, disk_dir', bdir')
      BY <2>1, <2>2, <2>3, <2>4 DEF CacheKnown
    <3>2. Asks(s.call) /\ Consistent(disk_dir', disk_map')
      BY <1>2, <1>4, <2>2, <2>3, <2>6 DEF Knows
    <3> QED BY <2>3, <2>5, <3>1, <3>2 DEF Knows, Holds, WriteKnown, TruncateKnown
  <2> QED BY <1>2, <2>2, <2>6, SteppedBlocks
<1>7. CASE CreateSave(t)
  <2>1. Return(t) /\ disk_dir' = bdir /\ thread[t].pc = "create_save"
    BY <1>7 DEF CreateSave, SaveDirectory, At
  <2>2. ASSUME ~damaged PROVE Consistent(bdir, disk_map)
    <3>1. PICK i \in Index : /\ disk_dir[i].name = Empty /\ bdir[i] = Entered(thread[t].call)
                             /\ SameBut(i, disk_dir, bdir)
      BY <1>4, <2>1, <2>2 DEF Knows, CacheKnown
    <3>2. bdir[i].name # Empty /\ bdir[i].size_bytes = 0 /\ bdir[i].first_block = EOF_BLOCK
      BY <1>1, <2>1, <3>1, FsAssumption DEF Entered, Good, Shaped
    <3> QED BY <1>4, <2>2, <3>1, <3>2, ConsistentEntered DEF SameBut
  <2> QED BY <1>2, <2>1, <2>2, ReturnedBlocks
<1>8. QED
  BY <1>5, <1>6, <1>7

(* do_write, *)
LEMMA WriteLookupBlocks ==
  ASSUME IInv, BInv, SingleThread, NEW t \in Thread, WriteLookup(t)
  PROVE  BInv'
<1>1. Good(thread[t], disk_dir, bdir) /\ WellFormed(disk_dir) /\ thread[t].pc = "write"
  BY DEF IInv, WriteLookup, At
<1> DEFINE di == find_dir_entry(disk_dir, Path(t))
           s == [thread[t] EXCEPT !.pc = "write_map", !.di = di]
<1>2. thread[t].call.path \in Name /\ thread[t].call.op = "write"
  BY <1>1 DEF Good, Shaped, Serves
<1>3. di \in Index /\ disk_dir[di].name = thread[t].call.path
  BY <1>1, <1>2, FoundEntry DEF WriteLookup, Found, Path
<1>4. s.pc = "write_map" /\ s.call = thread[t].call /\ s.di = di
  BY <1>1 DEF Good, Shaped, ThreadFields
<1>5. thread' = [thread EXCEPT ![t] = s] /\ bdir' = disk_dir
      /\ UNCHANGED <<disk_dir, disk_map, bmap, damaged>>
  BY DEF WriteLookup, Found
<1> HIDE DEF di, s
<1>6. ASSUME ~damaged PROVE Knows(s, disk_dir, disk_map, disk_dir, bmap)
  <2>1. Knows(thread[t], disk_dir, disk_map, bdir, bmap)
    BY <1>6 DEF BInv, Undamaged
  <2>2. Asks(s.call) /\ Consistent(disk_dir, disk_map)
    BY <1>1, <1>4, <2>1 DEF Knows, Window
  <2>3. Holds(s, disk_dir)
    BY <1>2, <1>3, <1>4 DEF Holds
  <2> QED BY <1>4, <2>2, <2>3 DEF Knows, CacheKnown, WriteKnown, TruncateKnown
<1>7. QED
  BY <1>5, <1>6, SteppedBlocks

(* A change of one entry that leaves its name alone adds no file. *)
LEMMA ListsKept ==
  ASSUME NEW dir, NEW new, NEW i \in Index, SameBut(i, dir, new),
         new[i].name = Empty <=> dir[i].name = Empty
  PROVE  Lists(new) = Lists(dir) /\ Files(new) = Files(dir)
<1>1. \A j \in Index : new[j].name = Empty <=> dir[j].name = Empty
  BY DEF SameBut
<1>2. QED
  BY <1>1, ListsByName

(* An entry changes. *)
LEMMA EntryChanged ==
  ASSUME NEW dir, Table(dir), NEW i \in Index, NEW entry, NEW new, new = [dir EXCEPT ![i] = entry]
  PROVE  new[i] = entry /\ SameBut(i, dir, new)
BY DEF Table, SameBut

(* A map that stays the same disturbs nobody. *)
LEMMA SameChains ==
  ASSUME NEW dir, NEW i, NEW map
  PROVE  OthersChained(dir, i, map, map)
BY DEF OthersChained

(* do_write allocates the first block and changes the size, *)
LEMMA WriteGrowBlocks ==
  ASSUME IInv, BInv, SingleThread, NEW t \in Thread, WriteGrow(t)
  PROVE  BInv'
<1> DEFINE c == thread[t].call
           di == thread[t].di
           de == bdir[di]
           grows == c.offset + c.size > de.size_bytes
           allocates == grows /\ de.first_block = EOF_BLOCK
           first == IF de.first_block = EOF_BLOCK THEN Allocated(disk_map) ELSE de.first_block
           size == GrownSize(de, c)
<1>1. Good(thread[t], disk_dir, bdir) /\ Table(bdir) /\ thread[t].pc = "write_map"
  BY DEF IInv, WriteGrow, At
<1>2. /\ c.op = "write" /\ di \in Index /\ c.path \in Name /\ DOMAIN thread[t] = ThreadFields
      /\ disk_dir' = disk_dir /\ disk_map' = disk_map /\ damaged' = damaged
  BY <1>1 DEF Good, Shaped, Serves, WriteGrow
<1>3. bmap' = (IF allocates THEN AfterAllocate(disk_map) ELSE disk_map)
  BY DEF WriteGrow
<1>4. \/ /\ grows /\ first # EOF_BLOCK
         /\ bdir' = [bdir EXCEPT ![di] = [de EXCEPT !.size_bytes = size, !.first_block = first]]
         /\ thread' = [thread EXCEPT ![t].pc = "write_save", ![t].fresh = allocates]
      \/ Return(t)
      \/ /\ ~grows /\ bdir' = bdir
         /\ thread' = [thread EXCEPT ![t].pc = "navigate", ![t].crtblk = de.first_block,
                                     ![t].blkoffs = c.offset \div BLOCK_SIZE]
  BY DEF WriteGrow
<1>5. ASSUME ~damaged
      PROVE  /\ Asks(c) /\ Consistent(disk_dir, disk_map) /\ bdir = disk_dir
             /\ disk_dir[di].name = c.path /\ disk_dir[di].name # Empty /\ di \in Files(disk_dir)
             /\ c.offset \in Nat /\ c.size \in Nat \ {0}
             /\ de.size_bytes \in Nat /\ (de.size_bytes = 0 <=> de.first_block = EOF_BLOCK)
  <2>1. Knows(thread[t], disk_dir, disk_map, bdir, bmap)
    BY <1>5 DEF BInv, Undamaged
  <2>2. Asks(c) /\ Consistent(disk_dir, disk_map) /\ bdir = disk_dir /\ disk_dir[di].name = c.path
    BY <1>1, <2>1 DEF Knows, Window, CacheKnown, Holds
  <2>3. c.offset \in Nat /\ c.size \in Nat \ {0}
    BY <1>2, <2>2 DEF Asks
  <2>4. disk_dir[di].name # Empty /\ di \in Files(disk_dir)
    BY <1>2, <2>2, FsAssumption DEF Files
  <2>5. disk_dir[di].size_bytes \in Nat
        /\ (disk_dir[di].size_bytes = 0 <=> disk_dir[di].first_block = EOF_BLOCK)
    BY <2>2, <2>4 DEF Consistent, AllSized, Sized
  <2> QED BY <2>2, <2>3, <2>4, <2>5
<1>6. CASE Return(t)
  BY <1>2, <1>5, <1>6, ReturnedBlocks
<1>7. CASE /\ grows /\ first # EOF_BLOCK
           /\ bdir' = [bdir EXCEPT ![di] = [de EXCEPT !.size_bytes = size, !.first_block = first]]
           /\ thread' = [thread EXCEPT ![t].pc = "write_save", ![t].fresh = allocates]
  <2> DEFINE s == [thread[t] EXCEPT !.pc = "write_save", !.fresh = allocates]
  <2>1. thread' = [thread EXCEPT ![t] = s]
    BY <1>7
  <2>2. s.pc = "write_save" /\ s.call = c /\ s.di = di /\ s.fresh = allocates
    BY <1>2 DEF ThreadFields
  <2> HIDE DEF s
  <2>3. ASSUME ~damaged PROVE Knows(s, disk_dir, disk_map, bdir', bmap')
    <3>1. /\ bdir'[di].size_bytes = size /\ bdir'[di].first_block = first
          /\ SameBut(di, bdir, bdir') /\ di \in Files(bdir)
          /\ Lists(bdir') = Lists(bdir) /\ Files(bdir') = Files(bdir)
      <4>1. PICK entry : entry = [de EXCEPT !.size_bytes = size, !.first_block = first]
        OBVIOUS
      <4>2. DOMAIN de = EntryFields /\ de = bdir[di] /\ de.name # Empty
        BY <1>1, <1>2, <1>5, <2>3 DEF Table
      <4> HIDE DEF size, first, de
      <4>3. entry.name = de.name /\ entry.size_bytes = size /\ entry.first_block = first
        BY <4>1, <4>2 DEF EntryFields
      <4>4. bdir' = [bdir EXCEPT ![di] = entry]
        BY <1>7, <4>1
      <4> HIDE DEF di
      <4>5. /\ bdir'[di] = entry /\ SameBut(di, bdir, bdir')
            /\ di \in Files(bdir) /\ Lists(bdir') = Lists(bdir) /\ Files(bdir') = Files(bdir)
        <5>1. di \in Index /\ bdir[di].name # Empty /\ entry.name = bdir[di].name /\ Table(bdir)
          BY <1>1, <1>2, <4>2, <4>3
        <5>2. SameBut(di, bdir, bdir')
          BY <4>4, <5>1, EntryChanged
        <5>3. bdir'[di] = entry
          BY <4>4, <5>1, EntryChanged
        <5>4. Lists(bdir') = Lists(bdir) /\ Files(bdir') = Files(bdir)
          BY <5>1, <5>2, <5>3, ListsKept
        <5>5. di \in Files(bdir)
          BY <5>1 DEF Files
        <5> QED BY <5>2, <5>3, <5>4, <5>5
      <4> QED BY <4>3, <4>5
    <3>2. size = c.offset + c.size /\ size \in Nat /\ size > 0 /\ de.size_bytes <= size
      BY <1>5, <1>7, <2>3 DEF GrownSize
    <3>3. Consistent(bdir', bmap') /\ OthersChained(disk_dir, di, disk_map, bmap')
          /\ (~allocates => bmap' = disk_map)
      <4>1. PICK new, map : new = bdir' /\ map = bmap'
        OBVIOUS
      <4>2. \A j \in Files(disk_dir) \ {di} : new[j] = disk_dir[j]
        BY <1>5, <2>3, <3>1, <4>1 DEF SameBut, Files
      <4>3. CASE disk_dir[di].first_block = EOF_BLOCK
        <5>1. map = AfterAllocate(disk_map) /\ first = Allocated(disk_map) /\ allocates
          BY <1>3, <1>5, <1>7, <2>3, <4>1, <4>3
        <5>2. ~NoFreeBlock(disk_map)
          BY <1>7, <5>1 DEF Allocated
        <5>3. /\ new[di].first_block = Allocated(disk_map) /\ new[di].size_bytes = size
              /\ Lists(new) = Lists(disk_dir) /\ Files(new) = Files(disk_dir)
          BY <1>5, <2>3, <3>1, <4>1, <5>1
        <5> HIDE DEF size, first, di, c
        <5>4. Consistent(new, map) /\ OthersChained(disk_dir, di, disk_map, map)
          BY <1>5, <2>3, <3>2, <4>2, <4>3, <5>1, <5>2, <5>3, ConsistentStarted
        <5> QED BY <4>1, <5>1, <5>4
      <4>4. CASE disk_dir[di].first_block # EOF_BLOCK
        <5>1. map = disk_map /\ first = disk_dir[di].first_block
          BY <1>3, <1>5, <1>7, <2>3, <4>1, <4>4
        <5>3. /\ new[di].first_block = disk_dir[di].first_block /\ new[di].size_bytes = size
              /\ Lists(new) = Lists(disk_dir) /\ Files(new) = Files(disk_dir)
              /\ disk_dir[di].size_bytes <= size
          BY <1>5, <2>3, <3>1, <3>2, <4>1, <5>1
        <5> HIDE DEF size, first, di, c
        <5>4. Consistent(new, disk_map)
          BY <1>5, <2>3, <3>2, <4>2, <4>4, <5>3, ConsistentGrown
        <5> QED BY <4>1, <5>1, <5>4, SameChains
      <4> QED BY <4>3, <4>4
    <3>4. SameBut(di, disk_dir, bdir')
      BY <1>5, <2>3, <3>1
    <3>5. WriteKnown(s, disk_dir, disk_map, bdir', bmap')
      <4>1. c.offset + c.size <= size
        BY <3>2
      <4> HIDE DEF size, first, di, c, allocates
      <4> QED BY <1>7, <2>2, <3>1, <3>2, <3>3, <3>4, <4>1 DEF WriteKnown
    <3>6. Asks(s.call) /\ Holds(s, disk_dir) /\ Consistent(disk_dir, disk_map)
      BY <1>2, <1>5, <2>2, <2>3 DEF Holds
    <3> QED BY <2>2, <3>5, <3>6 DEF Knows, CacheKnown, TruncateKnown
  <2> QED BY <1>2, <2>1, <2>3, SteppedBlocks
<1>8. CASE /\ ~grows /\ bdir' = bdir
           /\ thread' = [thread EXCEPT ![t].pc = "navigate", ![t].crtblk = de.first_block,
                                       ![t].blkoffs = c.offset \div BLOCK_SIZE]
  <2> DEFINE s == [thread[t] EXCEPT !.pc = "navigate", !.crtblk = de.first_block,
                                    !.blkoffs = c.offset \div BLOCK_SIZE]
  <2>1. thread' = [thread EXCEPT ![t] = s]
    BY <1>8
  <2>2. s.pc = "navigate" /\ s.call = c /\ s.di = di /\ s.crtblk = de.first_block
        /\ s.blkoffs = c.offset \div BLOCK_SIZE
    BY <1>2 DEF ThreadFields
  <2> HIDE DEF s
  <2>3. ASSUME ~damaged PROVE Knows(s, disk_dir, disk_map, bdir', bmap')
    <3>1. bmap' = disk_map /\ bdir' = disk_dir
      BY <1>3, <1>5, <1>8, <2>3
    <3>2. c.offset + c.size <= disk_dir[di].size_bytes /\ disk_dir[di].first_block # EOF_BLOCK
      BY <1>5, <1>8, <2>3
    <3>3. IsNth(disk_dir, disk_map, di, s.crtblk, 0)
      BY <1>5, <2>2, <2>3, <3>2, FirstIsNth
    <3>4. s.blkoffs \in Nat /\ 0 + s.blkoffs = c.offset \div BLOCK_SIZE
      BY <1>5, <2>2, <2>3, SsfsAssumption
    <3>5. WriteKnown(s, disk_dir, disk_map, disk_dir, disk_map)
      <4>1. \E n \in Int : /\ n + s.blkoffs = s.call.offset \div BLOCK_SIZE
                           /\ IsNth(disk_dir, disk_map, s.di, s.crtblk, n)
        BY <2>2, <3>3, <3>4
      <4> QED BY <1>5, <2>2, <2>3, <3>2, <3>4, <4>1, SameChains DEF WriteKnown
    <3>6. Asks(s.call) /\ Holds(s, disk_dir) /\ Consistent(disk_dir, disk_map)
      BY <1>2, <1>5, <2>2, <2>3 DEF Holds
    <3> QED BY <2>2, <3>1, <3>5, <3>6 DEF Knows, CacheKnown, TruncateKnown
  <2> QED BY <1>2, <2>1, <2>3, SteppedBlocks
<1>9. QED
  BY <1>4, <1>6, <1>7, <1>8

(* Chains of files whose first blocks are the same in both directories. *)
LEMMA ChainsRenamed ==
  ASSUME NEW dir, NEW new, NEW i, NEW map, NEW other, OthersChained(dir, i, map, other),
         SameBut(i, dir, new), Files(new) = Files(dir)
  PROVE  OthersChained(new, i, map, other)
BY DEF OthersChained, SameBut, Files

(* Two changes that leave the other files alone. *)
LEMMA ChainsJoined ==
  ASSUME NEW dir, NEW i, NEW map, NEW other, NEW third,
         OthersChained(dir, i, map, other), OthersChained(dir, i, other, third)
  PROVE  OthersChained(dir, i, map, third)
BY DEF OthersChained

(* do_write saves the directory, *)
LEMMA WriteSaveBlocks ==
  ASSUME IInv, BInv, SingleThread, NEW t \in Thread, WriteSave(t)
  PROVE  BInv'
<1> DEFINE c == thread[t].call
           di == thread[t].di
           s == [thread[t] EXCEPT !.pc = "navigate", !.crtblk = bdir[di].first_block,
                                  !.blkoffs = c.offset \div BLOCK_SIZE]
<1>1. Good(thread[t], disk_dir, bdir) /\ thread[t].pc = "write_save"
  BY DEF IInv, WriteSave, At
<1>2. /\ c.op = "write" /\ di \in Index /\ c.path \in Name /\ DOMAIN thread[t] = ThreadFields
      /\ SameNames(bdir, disk_dir)
  BY <1>1 DEF Good, Shaped, Serves, CacheFits
<1>3. /\ thread' = [thread EXCEPT ![t] = s]
      /\ disk_dir' = bdir /\ disk_map' = disk_map /\ bdir' = bdir /\ bmap' = bmap /\ damaged' = damaged
  BY DEF WriteSave, SaveDirectory
<1>4. s.pc = "navigate" /\ s.call = c /\ s.di = di /\ s.fresh = thread[t].fresh
      /\ s.crtblk = bdir[di].first_block /\ s.blkoffs = c.offset \div BLOCK_SIZE
  BY <1>2 DEF ThreadFields
<1> HIDE DEF s
<1>5. ASSUME ~damaged PROVE Knows(s, bdir, disk_map, bdir, bmap)
  <2>1. Knows(thread[t], disk_dir, disk_map, bdir, bmap)
    BY <1>5 DEF BInv, Undamaged
  <2>2. Asks(c) /\ c.offset \in Nat /\ bdir[di].name = c.path
    BY <1>1, <1>2, <2>1 DEF Knows, Asks, Holds, SameNames
  <2>3. /\ Consistent(bdir, bmap) /\ (~thread[t].fresh => bmap = disk_map)
        /\ bdir[di].first_block # EOF_BLOCK
        /\ bdir[di].size_bytes \in Nat /\ c.offset + c.size <= bdir[di].size_bytes
        /\ SameBut(di, disk_dir, bdir) /\ OthersChained(disk_dir, di, disk_map, bmap)
    BY <1>1, <2>1 DEF Knows, WriteKnown
  <2>4. di \in Files(bdir) /\ Files(bdir) = Files(disk_dir)
    BY <1>2, <2>2, FsAssumption DEF Files, SameNames
  <2>5. IsNth(bdir, bmap, di, bdir[di].first_block, 0)
    BY <2>3, <2>4, FirstIsNth
  <2>6. OthersChained(bdir, di, disk_map, bmap)
    BY <2>3, <2>4, ChainsRenamed
  <2>7. s.blkoffs \in Nat /\ 0 + s.blkoffs = c.offset \div BLOCK_SIZE
    BY <1>4, <2>2, SsfsAssumption
  <2>8. WriteKnown(s, bdir, disk_map, bdir, bmap)
    <3>1. \E n \in Int : /\ n + s.blkoffs = s.call.offset \div BLOCK_SIZE
                         /\ IsNth(bdir, bmap, s.di, s.crtblk, n)
      BY <1>4, <2>5, <2>7
    <3> QED BY <1>4, <2>3, <2>6, <2>7, <3>1 DEF WriteKnown
  <2>9. ~Window(s, bdir) => Consistent(bdir, disk_map)
    BY <1>4, <2>3 DEF Window
  <2> QED BY <1>2, <1>4, <2>2, <2>8, <2>9 DEF Knows, Holds, CacheKnown, TruncateKnown
<1>6. QED
  BY <1>3, <1>5, SteppedBlocks

(* A thread in the loop of do_write moves to the next block of its file. *)
LEMMA Advanced ==
  ASSUME NEW s, NEW dir, NEW map, NEW cdir, NEW cmap, Knows(s, dir, map, cdir, cmap),
         s.pc = "navigate", s.call.op = "write", s.blkoffs > 0,
         NEW new, NEW b, NEW r, r.pc = "navigate", r.call = s.call, r.di = s.di,
         r.fresh = s.fresh, r.crtblk = b, r.blkoffs = s.blkoffs - 1,
         \A n \in Int : IsNth(dir, cmap, s.di, s.crtblk, n) /\ n + s.blkoffs = s.call.offset \div BLOCK_SIZE
                        => IsNth(dir, new, s.di, b, n + 1),
         OthersChained(dir, s.di, cmap, new)
  PROVE  Knows(r, dir, map, cdir, new)
<1>1. /\ dir[s.di].size_bytes \in Nat /\ s.call.offset + s.call.size <= dir[s.di].size_bytes
      /\ s.blkoffs \in Nat /\ OthersChained(dir, s.di, map, cmap)
  BY DEF Knows, WriteKnown
<1>2. PICK n \in Int : n + s.blkoffs = s.call.offset \div BLOCK_SIZE
                       /\ IsNth(dir, cmap, s.di, s.crtblk, n)
  BY DEF Knows, WriteKnown
<1>3. n + 1 \in Int /\ n + 1 + r.blkoffs = r.call.offset \div BLOCK_SIZE
      /\ IsNth(dir, new, r.di, r.crtblk, n + 1) /\ r.blkoffs \in Nat
  BY <1>1, <1>2
<1>4. OthersChained(dir, r.di, map, new)
  BY <1>1, ChainsJoined
<1>5. WriteKnown(r, dir, map, cdir, new)
  <2>1. \E k \in Int : /\ k + r.blkoffs = r.call.offset \div BLOCK_SIZE
                       /\ IsNth(dir, new, r.di, r.crtblk, k)
    BY <1>3
  <2> QED BY <1>1, <1>3, <1>4, <2>1 DEF WriteKnown
<1>6. Window(r, dir) <=> Window(s, dir)
  BY DEF Window
<1>7. QED
  BY <1>5, <1>6 DEF Knows, Holds, CacheKnown, TruncateKnown

(* do_write follows the links and extends the list, *)
LEMMA NavigateBlocks ==
  ASSUME IInv, BInv, SingleThread, NEW t \in Thread, Navigate(t)
  PROVE  BInv'
<1> DEFINE b == thread[t].crtblk
           di == thread[t].di
           s(next) == [thread[t] EXCEPT !.crtblk = next, !.blkoffs = @ - 1]
<1>1. Good(thread[t], disk_dir, bdir) /\ thread[t].pc = "navigate" /\ thread[t].blkoffs > 0
      /\ disk_dir' = disk_dir /\ disk_map' = disk_map /\ bdir' = bdir
  BY DEF IInv, Navigate, At
<1>2. DOMAIN thread[t] = ThreadFields /\ thread[t].call.op = "write" /\ thread[t].call.path \in Name
      /\ di \in Index
  BY <1>1 DEF Good, Shaped, Serves
<1>3. \A next : /\ s(next).pc = "navigate" /\ s(next).call = thread[t].call
                /\ s(next).di = di /\ s(next).fresh = thread[t].fresh
                /\ s(next).crtblk = next /\ s(next).blkoffs = thread[t].blkoffs - 1
  BY <1>1, <1>2 DEF ThreadFields
<1>4. ASSUME ~damaged
      PROVE  /\ Knows(thread[t], disk_dir, disk_map, bdir, bmap)
             /\ di \in Files(disk_dir)
             /\ disk_dir[di].size_bytes \in Nat /\ thread[t].blkoffs \in Nat
             /\ thread[t].call.offset \in Nat /\ thread[t].call.offset < disk_dir[di].size_bytes
  <2>1. Knows(thread[t], disk_dir, disk_map, bdir, bmap)
    BY <1>4 DEF BInv, Undamaged
  <2>2. disk_dir[di].name = thread[t].call.path
        /\ disk_dir[di].size_bytes \in Nat /\ thread[t].blkoffs \in Nat
        /\ thread[t].call.offset \in Nat /\ thread[t].call.size \in Nat \ {0}
        /\ thread[t].call.offset + thread[t].call.size <= disk_dir[di].size_bytes
    BY <1>1, <1>2, <2>1 DEF Knows, Holds, WriteKnown, Asks
  <2>3. di \in Files(disk_dir)
    BY <1>2, <2>2, FsAssumption DEF Files
  <2> QED BY <2>1, <2>2, <2>3
<1>5. \/ /\ bmap[b] # EOF_BLOCK /\ thread' = [thread EXCEPT ![t] = s(bmap[b])]
         /\ bmap' = bmap /\ damaged' = damaged
      \/ /\ bmap[b] = EOF_BLOCK /\ ~NoFreeBlock(bmap) /\ bmap' = Extended(bmap, b)
         /\ thread' = [thread EXCEPT ![t] = s(Allocated(bmap))] /\ damaged' = damaged
      \/ /\ Return(t) /\ damaged' = (damaged \/ thread[t].fresh)
  BY DEF Navigate
<1> HIDE DEF s
<1>6. CASE /\ bmap[b] # EOF_BLOCK /\ thread' = [thread EXCEPT ![t] = s(bmap[b])]
           /\ bmap' = bmap /\ damaged' = damaged
  <2>1. ASSUME ~damaged PROVE Knows(s(bmap[b]), disk_dir, disk_map, bdir, bmap)
    <3>1. \A n \in Int : IsNth(disk_dir, bmap, di, b, n) => IsNth(disk_dir, bmap, di, bmap[b], n + 1)
      BY <1>4, <1>6, <2>1, NextIsNth
    <3>2. OthersChained(disk_dir, di, bmap, bmap)
      BY SameChains
    <3> QED BY <1>1, <1>2, <1>3, <1>4, <2>1, <3>1, <3>2, Advanced
  <2> QED BY <1>1, <1>6, <2>1, SteppedBlocks
<1>7. CASE /\ bmap[b] = EOF_BLOCK /\ ~NoFreeBlock(bmap) /\ bmap' = Extended(bmap, b)
           /\ thread' = [thread EXCEPT ![t] = s(Allocated(bmap))] /\ damaged' = damaged
  <2>1. ASSUME ~damaged PROVE Knows(s(Allocated(bmap)), disk_dir, disk_map, bdir, bmap')
    <3>1. ASSUME NEW n \in Int, IsNth(disk_dir, bmap, di, b, n),
                 n + thread[t].blkoffs = thread[t].call.offset \div BLOCK_SIZE
          PROVE  /\ IsNth(disk_dir, Extended(bmap, b), di, Allocated(bmap), n + 1)
                 /\ OthersChained(disk_dir, di, bmap, Extended(bmap, b))
      <4>1. Within(n + 1, disk_dir[di].size_bytes)
        <5> DEFINE x == thread[t].call.offset
                   size == disk_dir[di].size_bytes
        <5>1. n + 1 <= x \div BLOCK_SIZE /\ x \in Nat /\ x < size /\ n + 1 \in Int /\ size \in Nat
          BY <1>1, <1>4, <2>1, <3>1, SsfsAssumption
        <5> HIDE DEF x, size
        <5>2. (n + 1) * BLOCK_SIZE <= x
          BY <5>1, DivIsBelow
        <5>3. (n + 1) * BLOCK_SIZE \in Int
          BY <5>1, SsfsAssumption
        <5>4. Within(n + 1, size)
          BY <5>1, <5>2, <5>3 DEF Within
        <5> QED BY <5>4 DEF size
      <4> QED BY <1>4, <1>7, <2>1, <3>1, <4>1, NthExtended
    <3>2. \E n \in Int : IsNth(disk_dir, bmap, di, b, n)
                         /\ n + thread[t].blkoffs = thread[t].call.offset \div BLOCK_SIZE
      BY <1>1, <1>4, <2>1 DEF Knows, WriteKnown
    <3>3. OthersChained(disk_dir, di, bmap, Extended(bmap, b))
      BY <3>1, <3>2
    <3>4. Knows(s(Allocated(bmap)), disk_dir, disk_map, bdir, Extended(bmap, b))
      BY <1>1, <1>2, <1>3, <1>4, <2>1, <3>1, <3>3, Advanced
    <3> QED BY <1>7, <3>4
  <2> QED BY <1>1, <1>7, <2>1, SteppedBlocks
<1>8. CASE Return(t) /\ damaged' = (damaged \/ thread[t].fresh)
  <2>1. ASSUME ~damaged' PROVE Consistent(disk_dir', disk_map')
    <3>1. ~damaged /\ ~thread[t].fresh
      BY <1>8, <2>1
    <3>2. ~Window(thread[t], disk_dir)
      BY <1>1, <3>1 DEF Window
    <3> QED BY <1>1, <1>4, <3>1, <3>2 DEF Knows
  <2> QED BY <1>8, <2>1, ReturnedBlocks
<1>9. QED
  BY <1>5, <1>6, <1>7, <1>8

(* do_write saves the map. *)
LEMMA WriteDataBlocks ==
  ASSUME IInv, BInv, SingleThread, NEW t \in Thread, WriteData(t)
  PROVE  BInv'
<1>1. thread[t].pc = "navigate" /\ disk_dir' = disk_dir /\ disk_map' = bmap /\ damaged' = damaged
      /\ Return(t)
  BY DEF WriteData, At
<1>2. ASSUME ~damaged PROVE Consistent(disk_dir, bmap)
  <2>1. Knows(thread[t], disk_dir, disk_map, bdir, bmap)
    BY <1>2 DEF BInv, Undamaged
  <2> QED BY <1>1, <2>1 DEF Knows, WriteKnown, IsNth, Consistent
<1>3. QED
  BY <1>1, <1>2, ReturnedBlocks

(* do_truncate finds the file, *)
LEMMA TruncateLookupBlocks ==
  ASSUME IInv, BInv, SingleThread, NEW t \in Thread, TruncateLookup(t)
  PROVE  BInv'
<1> DEFINE i == find_dir_entry(disk_dir, RemovedPath(t))
           de == [disk_dir[i] EXCEPT !.size_bytes = 0]
           s == [thread[t] EXCEPT !.pc = "freeing", !.tdi = i]
<1>1. Good(thread[t], disk_dir, bdir) /\ WellFormed(disk_dir) /\ Table(disk_dir)
      /\ thread[t].pc = "truncate"
  BY DEF IInv, TruncateLookup, At
<1>2. RemovedPath(t) = Removed(thread[t].call) /\ RemovedPath(t) \in Name
  BY <1>1, RemovedName
<1>3. i \in Index /\ disk_dir[i].name = RemovedPath(t) /\ disk_dir[i].name # Empty
  BY <1>1, <1>2, FoundEntry, FsAssumption DEF TruncateLookup
<1>4. s.pc = "freeing" /\ s.call = thread[t].call /\ s.tdi = i /\ s.di = thread[t].di
  BY <1>1 DEF Good, Shaped, ThreadFields
<1>5. /\ thread' = [thread EXCEPT ![t] = s] /\ bdir' = [disk_dir EXCEPT ![i] = de]
      /\ bmap' = disk_map /\ disk_dir' = disk_dir /\ disk_map' = disk_map /\ damaged' = damaged
  BY DEF TruncateLookup
<1> HIDE DEF i, s
<1>6. de.size_bytes = 0 /\ de.name = disk_dir[i].name /\ de.first_block = disk_dir[i].first_block
  BY <1>1, <1>3 DEF Table, EntryFields
<1> HIDE DEF de
<1>7. bdir'[i] = de
  BY <1>1, <1>3, <1>5 DEF Table
<1>8. SameBut(i, disk_dir, bdir')
  BY <1>1, <1>3, <1>5, EntryChanged
<1>9. Lists(bdir') = Lists(disk_dir) /\ Files(bdir') = Files(disk_dir)
  BY <1>3, <1>6, <1>7, <1>8, ListsKept
<1>10. ASSUME ~damaged PROVE Knows(s, disk_dir, disk_map, bdir', disk_map)
  <2>1. Knows(thread[t], disk_dir, disk_map, bdir, bmap)
    BY <1>10 DEF BInv, Undamaged
  <2>2. Asks(s.call) /\ Consistent(disk_dir, disk_map) /\ (s.call.op = "rename" =>
           disk_dir[s.di].name = s.call.path)
    BY <1>1, <1>4, <2>1 DEF Knows, Window, Holds
  <2>3. i \in Files(disk_dir)
    BY <1>3 DEF Files
  <2>4. Emptied(bdir', disk_map, i)
    <3>1. \A j \in Files(disk_dir) \ {i} : bdir'[j] = disk_dir[j]
      BY <1>8 DEF SameBut, Files
    <3> QED BY <1>6, <1>7, <1>9, <2>2, <2>3, <3>1, ConsistentEmptied
  <2>5. TruncateKnown(s, disk_dir, disk_map, bdir', disk_map)
    BY <1>4, <1>6, <1>7, <1>8, <2>4, SameChains DEF TruncateKnown
  <2>6. Holds(s, disk_dir)
    BY <1>2, <1>3, <1>4, <2>2 DEF Holds
  <2> QED BY <1>4, <2>2, <2>5, <2>6 DEF Knows, CacheKnown, WriteKnown
<1>11. QED
  BY <1>5, <1>10, SteppedBlocks

(* frees a block, *)
LEMMA TruncateFreeBlocks ==
  ASSUME IInv, BInv, SingleThread, NEW t \in Thread, TruncateFree(t)
  PROVE  BInv'
<1> DEFINE i == thread[t].tdi
           f == bdir[i].first_block
           de == [bdir[i] EXCEPT !.first_block = bmap[f]]
<1>1. Good(thread[t], disk_dir, bdir) /\ Table(bdir) /\ thread[t].pc = "freeing"
      /\ DOMAIN thread = Thread
  BY DEF IInv, TruncateFree, At
<1>2. i \in Index /\ SameNames(bdir, disk_dir)
      /\ Removed(thread[t].call) \in Name
  BY <1>1, RemovedName DEF Good, Shaped, CacheFits
<1>3. /\ f \in Block /\ bmap' = AfterFree(bmap, f) /\ bdir' = [bdir EXCEPT ![i] = de]
      /\ thread' = thread /\ disk_dir' = disk_dir /\ disk_map' = disk_map /\ damaged' = damaged
  BY DEF TruncateFree, NextToFree
<1>4. de.size_bytes = bdir[i].size_bytes /\ de.name = bdir[i].name /\ de.first_block = bmap[f]
  BY <1>1, <1>2 DEF Table, EntryFields
<1> HIDE DEF i, f, de
<1>5. bdir'[i] = de
  BY <1>1, <1>2, <1>3, EntryChanged
<1>6. SameBut(i, bdir, bdir')
  BY <1>1, <1>2, <1>3, EntryChanged
<1>7. Lists(bdir') = Lists(bdir) /\ Files(bdir') = Files(bdir)
  BY <1>2, <1>4, <1>5, <1>6, ListsKept
<1>8. ASSUME ~damaged PROVE Knows(thread[t], disk_dir, disk_map, bdir', bmap')
  <2>1. Knows(thread[t], disk_dir, disk_map, bdir, bmap)
    BY <1>8 DEF BInv, Undamaged
  <2>2. /\ Emptied(bdir, bmap, i) /\ SameBut(i, disk_dir, bdir)
        /\ OthersChained(disk_dir, i, disk_map, bmap)
        /\ disk_dir[i].first_block = EOF_BLOCK => f = EOF_BLOCK
    BY <1>1, <2>1 DEF Knows, TruncateKnown, i, f
  <2>3. disk_dir[i].first_block # EOF_BLOCK
    BY <1>3, <2>2, Numbers
  <2>4. f = bdir[i].first_block /\ bdir'[i].first_block = bmap[f] /\ bdir'[i].size_bytes = 0
    BY <1>4, <1>5, <2>2 DEF f, Emptied
  <2>5. \A j \in Files(bdir) \ {i} : bdir'[j] = bdir[j]
    BY <1>6 DEF SameBut, Files
  <2>6. Emptied(bdir', bmap', i)
    BY <1>3, <1>7, <2>2, <2>4, <2>5, EmptiedFreed
  <2>7. OthersChained(bdir, i, bmap, bmap')
    BY <1>3, <1>7, <2>2, <2>4, <2>5, EmptiedFreed
  <2>8. Files(disk_dir) = Files(bdir) /\ SameBut(i, bdir, disk_dir) /\ SameBut(i, disk_dir, bdir')
    BY <1>2, <1>6, <2>2 DEF Files, SameNames, SameBut
  <2>9. OthersChained(disk_dir, i, disk_map, bmap')
    <3>1. OthersChained(disk_dir, i, bmap, bmap')
      BY <2>7, <2>8, ChainsRenamed
    <3> QED BY <2>2, <3>1, ChainsJoined
  <2>10. TruncateKnown(thread[t], disk_dir, disk_map, bdir', bmap')
    BY <1>1, <2>3, <2>6, <2>8, <2>9 DEF TruncateKnown, i
  <2> QED BY <1>1, <2>1, <2>10 DEF Knows, CacheKnown, WriteKnown
<1>9. ASSUME ~damaged, NEW u \in Thread
      PROVE  Knows(thread'[u], disk_dir', disk_map', bdir', bmap')
  <2>1. u = t
    BY DEF SingleThread
  <2> QED BY <1>3, <1>8, <1>9, <2>1
<1>10. QED
  BY <1>3, <1>9 DEF BInv, Undamaged, Knows

(* saves the map, *)
LEMMA TruncateSaveMapBlocks ==
  ASSUME IInv, BInv, SingleThread, NEW t \in Thread, TruncateSaveMap(t)
  PROVE  BInv'
<1> DEFINE i == thread[t].tdi
           s == [thread[t] EXCEPT !.pc = "truncate_save"]
<1>1. Good(thread[t], disk_dir, bdir) /\ thread[t].pc = "freeing"
  BY DEF IInv, TruncateSaveMap, At
<1>2. s.pc = "truncate_save" /\ s.call = thread[t].call /\ s.tdi = i /\ s.di = thread[t].di
      /\ s.udi = thread[t].udi
  BY <1>1 DEF Good, Shaped, ThreadFields
<1>3. /\ thread' = [thread EXCEPT ![t] = s] /\ disk_map' = bmap
      /\ bdir[i].first_block = EOF_BLOCK
      /\ bmap' = bmap /\ bdir' = bdir /\ disk_dir' = disk_dir /\ damaged' = damaged
  BY DEF TruncateSaveMap, GoTo
<1> HIDE DEF i, s
<1>4. ASSUME ~damaged PROVE Knows(s, disk_dir, bmap, bdir, bmap)
  <2>1. Knows(thread[t], disk_dir, disk_map, bdir, bmap)
    BY <1>4 DEF BInv, Undamaged
  <2>2. /\ Emptied(bdir, bmap, i) /\ SameBut(i, disk_dir, bdir)
        /\ disk_dir[i].first_block = EOF_BLOCK => bmap = disk_map
    BY <1>1, <2>1 DEF Knows, TruncateKnown, i
  <2>3. Consistent(bdir, bmap)
    BY <1>3, <2>2, EmptiedIsConsistent
  <2>4. ~Window(s, disk_dir) => Consistent(disk_dir, bmap)
    BY <1>1, <1>2, <2>1, <2>2 DEF Knows, Window
  <2>5. Holds(s, disk_dir) /\ Asks(s.call)
    BY <1>1, <1>2, <2>1 DEF Knows, Holds, i
  <2> QED BY <1>2, <1>3, <2>2, <2>3, <2>4, <2>5
          DEF Knows, CacheKnown, WriteKnown, TruncateKnown
<1>5. QED
  BY <1>3, <1>4, SteppedBlocks

(* Two entries of a table have different names. *)
LEMMA OneEntry ==
  ASSUME NEW dir, WellFormed(dir), NEW i \in Index, NEW j \in Index,
         dir[i].name = dir[j].name, dir[i].name # Empty
  PROVE  i = j
BY DEF WellFormed, Packed

(* and saves the directory. *)
LEMMA TruncateSaveBlocks ==
  ASSUME IInv, BInv, SingleThread, NEW t \in Thread, TruncateSave(t)
  PROVE  BInv'
<1> DEFINE i == thread[t].tdi
           c == thread[t].call
           s == [thread[t] EXCEPT !.pc = "scooch"]
<1>1. Good(thread[t], disk_dir, bdir) /\ WellFormed(disk_dir) /\ thread[t].pc = "truncate_save"
  BY DEF IInv, TruncateSave, At
<1>2. /\ disk_map' = disk_map /\ bdir' = bdir /\ disk_dir' = bdir /\ damaged' = damaged
      /\ bmap' = bmap
  BY DEF TruncateSave, SaveDirectory
<1>3. SameNames(bdir, disk_dir) /\ Removed(c) \in Name /\ {i, thread[t].udi, thread[t].di} \subseteq Index
  BY <1>1, RemovedName DEF Good, CacheFits, Shaped
<1>4. ASSUME ~damaged
      PROVE  /\ Consistent(bdir, disk_map) /\ bdir[i].first_block = EOF_BLOCK /\ Asks(c)
             /\ disk_dir[i].name = Removed(c)
             /\ c.op = "rename" => disk_dir[thread[t].di].name = c.path
  <2>1. Knows(thread[t], disk_dir, disk_map, bdir, bmap)
    BY <1>4 DEF BInv, Undamaged
  <2> QED BY <1>1, <2>1 DEF Knows, TruncateKnown, Holds
<1>5. CASE c.op = "truncate"
  <2>1. Return(t)
    BY <1>5 DEF TruncateSave, Leave
  <2> QED BY <1>2, <1>4, <2>1, ReturnedBlocks
<1>6. CASE c.op # "truncate"
  <2>1. thread' = [thread EXCEPT ![t] = s]
    BY <1>6 DEF TruncateSave, Leave, GoTo
  <2>2. s.pc = "scooch" /\ s.call = c /\ s.tdi = i /\ s.di = thread[t].di
        /\ s.udi = thread[t].udi
    BY <1>1 DEF Good, Shaped, ThreadFields
  <2> HIDE DEF s
  <2>3. disk_dir[s.udi].name = Removed(c) /\ Removed(c) # Empty
    BY <1>1, <1>3, <1>6, <2>2, FsAssumption DEF Good, IndicesFit
  <2>4. ASSUME ~damaged PROVE Knows(s, bdir, disk_map, bdir, bmap)
    <3>1. s.udi = i
      BY <1>1, <1>3, <1>4, <2>2, <2>3, <2>4, OneEntry
    <3>2. CacheKnown(s, bdir, bdir)
      BY <1>4, <2>2, <2>4, <3>1 DEF CacheKnown
    <3>3. Holds(s, bdir)
      BY <1>3, <1>4, <2>2, <2>4 DEF Holds, SameNames
    <3> QED BY <1>4, <2>2, <2>4, <3>2, <3>3 DEF Knows, WriteKnown, TruncateKnown
  <2> QED BY <1>2, <2>1, <2>4, SteppedBlocks
<1>7. QED
  BY <1>5, <1>6

(* do_unlink finds the file, *)
LEMMA UnlinkLookupBlocks ==
  ASSUME IInv, BInv, SingleThread, NEW t \in Thread, UnlinkLookup(t)
  PROVE  BInv'
<1> DEFINE s == [thread[t] EXCEPT !.pc = "truncate", !.udi = find_dir_entry(disk_dir, RemovedPath(t))]
<1>1. Good(thread[t], disk_dir, bdir) /\ thread[t].pc = "unlink"
  BY DEF IInv, UnlinkLookup, At
<1>2. s.pc = "truncate" /\ s.call = thread[t].call /\ s.di = thread[t].di
  BY <1>1 DEF Good, Shaped, ThreadFields
<1>3. thread' = [thread EXCEPT ![t] = s]
      /\ disk_dir' = disk_dir /\ disk_map' = disk_map /\ damaged' = damaged
  BY DEF UnlinkLookup
<1> HIDE DEF s
<1>4. ASSUME ~damaged PROVE Knows(s, disk_dir, disk_map, bdir', bmap')
  <2>1. Knows(thread[t], disk_dir, disk_map, bdir, bmap)
    BY <1>4 DEF BInv, Undamaged
  <2> QED BY <1>1, <1>2, <2>1
          DEF Knows, Holds, Window, CacheKnown, WriteKnown, TruncateKnown
<1>5. QED
  BY <1>3, <1>4, SteppedBlocks

(* removes the entry from the cache, *)
LEMMA UnlinkScoochBlocks ==
  ASSUME IInv, BInv, SingleThread, NEW t \in Thread, UnlinkScooch(t)
  PROVE  BInv'
<1> DEFINE s == [thread[t] EXCEPT !.pc = "unlink_save"]
<1>1. Good(thread[t], disk_dir, bdir) /\ thread[t].pc = "scooch"
  BY DEF IInv, UnlinkScooch, At
<1>2. s.pc = "unlink_save" /\ s.call = thread[t].call /\ s.di = thread[t].di /\ s.udi = thread[t].udi
  BY <1>1 DEF Good, Shaped, ThreadFields
<1>3. /\ thread' = [thread EXCEPT ![t] = s] /\ bdir' = scooch_dir_entries(bdir, thread[t].udi)
      /\ disk_dir' = disk_dir /\ disk_map' = disk_map /\ damaged' = damaged
  BY DEF UnlinkScooch, GoTo
<1> HIDE DEF s
<1>4. disk_dir[thread[t].udi].name = Removed(thread[t].call)
  BY <1>1 DEF Good, IndicesFit, Serves
<1>5. ASSUME ~damaged PROVE Knows(s, disk_dir, disk_map, bdir', bmap')
  <2>1. Knows(thread[t], disk_dir, disk_map, bdir, bmap)
    BY <1>5 DEF BInv, Undamaged
  <2>2. Holds(s, disk_dir) /\ CacheKnown(s, disk_dir, bdir')
    BY <1>1, <1>2, <1>3, <1>4, <2>1 DEF Knows, Holds, CacheKnown
  <2> QED BY <1>1, <1>2, <2>1, <2>2 DEF Knows, Window, WriteKnown, TruncateKnown
<1>6. QED
  BY <1>3, <1>5, SteppedBlocks

(* What do_unlink writes: the entry at di stays where it is, if di is before
   the one that is removed. *)
LEMMA UnlinkSaved ==
  ASSUME NEW dir, NEW map, Consistent(dir, map), Table(dir), WellFormed(dir),
         NEW udi \in Index, dir[udi].name # Empty, dir[udi].first_block = EOF_BLOCK,
         NEW new, new = scooch_dir_entries(dir, udi)
  PROVE  Consistent(new, map) /\ \A i \in Index : i < udi => new[i] = dir[i]
<1>1. PICK n \in 0 .. DIR_ENTRIES : Packed(dir, n)
  BY DEF WellFormed
<1>2. /\ n \in Int /\ udi < n /\ n <= DIR_ENTRIES
      /\ \A i \in Index : i < n - 1 => new[i] = dir[IF i < udi THEN i ELSE i + 1]
  BY <1>1, ScoochedEntries
<1>3. ASSUME NEW i \in Index, i < udi PROVE new[i] = dir[i]
  <2>1. i < n - 1
    BY <1>2, <1>3, FsAssumption DEF Index
  <2> QED BY <1>2, <1>3, <2>1
<1>4. Consistent(new, map)
  BY ConsistentScooched
<1>5. QED
  BY <1>3, <1>4

(* and saves the directory. *)
LEMMA UnlinkSaveBlocks ==
  ASSUME IInv, BInv, SingleThread, NEW t \in Thread, UnlinkSave(t)
  PROVE  BInv'
<1> DEFINE c == thread[t].call
           udi == thread[t].udi
           di == thread[t].di
           s == [thread[t] EXCEPT !.pc = "rename_entry"]
<1>1. Good(thread[t], disk_dir, bdir) /\ WellFormed(disk_dir) /\ Table(disk_dir)
      /\ thread[t].pc = "unlink_save"
  BY DEF IInv, UnlinkSave, At
<1>2. /\ disk_map' = disk_map /\ bdir' = bdir /\ disk_dir' = bdir /\ bmap' = bmap
      /\ damaged' = (damaged \/ (c.op = "rename" /\ udi < di))
  BY DEF UnlinkSave
<1>3. Removed(c) # Empty /\ {udi, di} \subseteq Index /\ c.op \in {"unlink", "rename"}
  BY <1>1, RemovedName, FsAssumption DEF Good, Shaped, Serves
<1>4. ASSUME ~damaged
      PROVE  /\ Asks(c) /\ Consistent(bdir, disk_map) /\ disk_dir[udi].name = Removed(c)
             /\ c.op = "rename" => disk_dir[di].name = c.path
             /\ \A i \in Index : i < udi => bdir[i] = disk_dir[i]
  <2>1. Knows(thread[t], disk_dir, disk_map, bdir, bmap)
    BY <1>4 DEF BInv, Undamaged
  <2>2. /\ Asks(c) /\ Consistent(disk_dir, disk_map) /\ disk_dir[udi].name = Removed(c)
        /\ c.op = "rename" => disk_dir[di].name = c.path
        /\ disk_dir[udi].first_block = EOF_BLOCK /\ bdir = scooch_dir_entries(disk_dir, udi)
    BY <1>1, <2>1 DEF Knows, Holds, Window, CacheKnown
  <2>3. udi \in Index /\ disk_dir[udi].name # Empty
    BY <1>3, <2>2
  <2> HIDE DEF udi, c
  <2>4. Consistent(bdir, disk_map) /\ \A i \in Index : i < udi => bdir[i] = disk_dir[i]
    BY <1>1, <2>2, <2>3, UnlinkSaved
  <2> QED BY <2>2, <2>4
<1>5. CASE c.op = "unlink"
  <2>1. Return(t)
    BY <1>5 DEF UnlinkSave, Leave
  <2> QED BY <1>2, <1>4, <2>1, ReturnedBlocks
<1>6. CASE c.op = "rename"
  <2>1. thread' = [thread EXCEPT ![t] = s]
    BY <1>6 DEF UnlinkSave, Leave, GoTo
  <2>2. s.pc = "rename_entry" /\ s.call = c /\ s.di = di
    BY <1>1 DEF Good, Shaped, ThreadFields
  <2> HIDE DEF s
  <2>3. ASSUME ~damaged' PROVE Knows(s, bdir, disk_map, bdir, bmap)
    <3>1. ~damaged /\ ~(udi < di)
      BY <1>2, <1>6, <2>3
    <3>2. disk_dir[udi].name = c.npath /\ disk_dir[di].name = c.path /\ c.path # c.npath
      BY <1>4, <1>6, <3>1 DEF Asks, Removed
    <3>3. di < udi
      <4>1. di # udi
        BY <3>2
      <4> QED BY <1>3, <3>1, <4>1, FsAssumption DEF Index
    <3>4. bdir[di].name = c.path
      BY <1>3, <1>4, <3>1, <3>2, <3>3
    <3> QED BY <1>4, <2>2, <3>1, <3>4
            DEF Knows, Holds, Window, CacheKnown, WriteKnown, TruncateKnown
  <2> QED BY <1>2, <2>1, <2>3, SteppedBlocks
<1>7. QED
  BY <1>3, <1>5, <1>6

(* do_rename finds the file, *)
LEMMA RenameLookupBlocks ==
  ASSUME IInv, BInv, SingleThread, NEW t \in Thread, RenameLookup(t)
  PROVE  BInv'
<1> DEFINE di == find_dir_entry(disk_dir, Path(t))
           s == [thread[t] EXCEPT !.pc = "unlink", !.di = di]
<1>1. Good(thread[t], disk_dir, bdir) /\ WellFormed(disk_dir) /\ thread[t].pc = "rename"
  BY DEF IInv, RenameLookup, At
<1>2. disk_dir[di].name = thread[t].call.path
  BY <1>1, FoundEntry DEF Good, Shaped, RenameLookup, Found, Path
<1>3. s.pc = "unlink" /\ s.call = thread[t].call /\ s.di = di
  BY <1>1 DEF Good, Shaped, ThreadFields
<1>4. thread' = [thread EXCEPT ![t] = s]
      /\ disk_dir' = disk_dir /\ disk_map' = disk_map /\ damaged' = damaged
  BY DEF RenameLookup
<1> HIDE DEF s, di
<1>5. ASSUME ~damaged PROVE Knows(s, disk_dir, disk_map, bdir', bmap')
  <2>1. Knows(thread[t], disk_dir, disk_map, bdir, bmap)
    BY <1>5 DEF BInv, Undamaged
  <2> QED BY <1>1, <1>2, <1>3, <2>1
          DEF Knows, Holds, Window, CacheKnown, WriteKnown, TruncateKnown
<1>6. QED
  BY <1>4, <1>5, SteppedBlocks

(* enters the new name, *)
LEMMA RenameEntryBlocks ==
  ASSUME IInv, BInv, SingleThread, NEW t \in Thread, RenameEntry(t)
  PROVE  BInv'
<1> DEFINE di == thread[t].di
           de == [bdir[di] EXCEPT !.name = thread[t].call.npath]
           s == [thread[t] EXCEPT !.pc = "rename_save"]
<1>1. Good(thread[t], disk_dir, bdir) /\ Table(bdir) /\ thread[t].pc = "rename_entry"
  BY DEF IInv, RenameEntry, At
<1>2. s.pc = "rename_save" /\ s.call = thread[t].call /\ s.di = di /\ di \in Index
  BY <1>1 DEF Good, Shaped, ThreadFields
<1>3. thread' = [thread EXCEPT ![t] = s] /\ bdir' = [bdir EXCEPT ![di] = de]
      /\ disk_dir' = disk_dir /\ disk_map' = disk_map /\ damaged' = damaged
  BY DEF RenameEntry, GoTo
<1> HIDE DEF s
<1>4. /\ de.name = thread[t].call.npath /\ de.size_bytes = bdir[di].size_bytes
      /\ de.first_block = bdir[di].first_block
  BY <1>1, <1>2 DEF Table, EntryFields
<1> HIDE DEF de, di
<1>5. bdir'[di] = de /\ \A j \in Index \ {di} : bdir'[j] = bdir[j]
  BY <1>1, <1>2, <1>3 DEF Table
<1>6. Lacks(disk_dir, thread[t].call.npath)
  BY <1>1 DEF Good, IndicesFit
<1>7. ASSUME ~damaged PROVE Knows(s, disk_dir, disk_map, bdir', bmap')
  <2>1. Knows(thread[t], disk_dir, disk_map, bdir, bmap)
    BY <1>7 DEF BInv, Undamaged
  <2>2. bdir = disk_dir /\ Consistent(disk_dir, disk_map) /\ Asks(s.call)
    BY <1>1, <1>2, <2>1 DEF Knows, CacheKnown, Window
  <2>3. CacheKnown(s, disk_dir, bdir')
    BY <1>2, <1>4, <1>5, <1>6, <2>2 DEF CacheKnown, SameBut
  <2>4. Holds(s, disk_dir)
    BY <1>1, <1>2, <2>1 DEF Knows, Holds, di
  <2> QED BY <1>2, <2>2, <2>3, <2>4 DEF Knows, WriteKnown, TruncateKnown
<1>8. QED
  BY <1>3, <1>7, SteppedBlocks

(* and saves the directory. *)
LEMMA RenameSaveBlocks ==
  ASSUME IInv, BInv, SingleThread, NEW t \in Thread, RenameSave(t)
  PROVE  BInv'
<1>1. Good(thread[t], disk_dir, bdir) /\ thread[t].pc = "rename_save"
  BY DEF IInv, RenameSave, At
<1>2. disk_dir' = bdir /\ disk_map' = disk_map /\ damaged' = damaged /\ Return(t)
  BY DEF RenameSave, SaveDirectory
<1>3. ASSUME ~damaged PROVE Consistent(bdir, disk_map)
  <2> DEFINE di == thread[t].di
  <2>1. Knows(thread[t], disk_dir, disk_map, bdir, bmap)
    BY <1>3 DEF BInv, Undamaged
  <2>2. /\ Consistent(disk_dir, disk_map)
        /\ SameBut(di, disk_dir, bdir) /\ bdir[di].name = thread[t].call.npath
        /\ bdir[di].size_bytes = disk_dir[di].size_bytes
        /\ bdir[di].first_block = disk_dir[di].first_block
        /\ disk_dir[di].name = thread[t].call.path
    BY <1>1, <2>1 DEF Knows, Window, CacheKnown, Holds, Good, Serves
  <2>3. thread[t].call.npath # Empty /\ thread[t].call.path # Empty
    BY <1>1, FsAssumption DEF Good, Shaped, Serves
  <2> HIDE DEF di
  <2>4. \A i \in Index : /\ bdir[i].name = Empty <=> disk_dir[i].name = Empty
                         /\ bdir[i].first_block = disk_dir[i].first_block
                         /\ bdir[i].size_bytes = disk_dir[i].size_bytes
    BY <2>2, <2>3 DEF SameBut
  <2> QED BY <2>2, <2>4, ConsistentNamed
<1>4. QED
  BY <1>2, <1>3, ReturnedBlocks

(* A handler does not find the file. *)
LEMMA NoSuchFileBlocks ==
  ASSUME IInv, BInv, SingleThread, NEW t \in Thread, NoSuchFile(t)
  PROVE  BInv'
<1>1. Good(thread[t], disk_dir, bdir) /\ WellFormed(disk_dir)
  BY DEF IInv
<1>2. /\ bdir' = disk_dir /\ disk_dir' = disk_dir /\ disk_map' = disk_map
      /\ bmap' = bmap /\ damaged' = damaged
  BY DEF NoSuchFile
<1>3. PICK handler \in {"write", "truncate", "unlink", "rename"} :
        /\ thread[t].pc = handler
        /\ ~Exists(disk_dir, IF handler \in {"truncate", "unlink"} THEN RemovedPath(t)
                             ELSE Path(t))
        /\ Leave(t, handler)
  BY DEF NoSuchFile, At
<1>4. ASSUME ~damaged
      PROVE  /\ Knows(thread[t], disk_dir, disk_map, bdir, bmap)
             /\ Consistent(disk_dir, disk_map)
  <2>1. Knows(thread[t], disk_dir, disk_map, bdir, bmap)
    BY <1>4 DEF BInv, Undamaged
  <2> QED BY <1>3, <2>1 DEF Knows, Window
<1>5. CASE thread[t].call.op = handler
  <2>1. Return(t)
    BY <1>3, <1>5 DEF Leave
  <2> QED BY <1>2, <1>4, <2>1, ReturnedBlocks
<1>6. ~(handler = "truncate" /\ thread[t].call.op # "truncate")
  <2> SUFFICES ASSUME handler = "truncate", thread[t].call.op # "truncate" PROVE FALSE
    OBVIOUS
  <2>1. RemovedPath(t) = Removed(thread[t].call) /\ Removed(thread[t].call) \in Name
    BY <1>1, <1>3, RemovedName
  <2>2. Lacks(disk_dir, Removed(thread[t].call))
    BY <1>1, <1>3, <2>1, MissingEntry
  <2>3. thread[t].udi \in Index /\ disk_dir[thread[t].udi].name = Removed(thread[t].call)
    BY <1>1, <1>3 DEF Good, Shaped, IndicesFit
  <2> QED BY <2>2, <2>3 DEF Lacks
<1>7. CASE handler = "unlink" /\ thread[t].call.op # "unlink"
  <2> DEFINE s == [thread[t] EXCEPT !.pc = "rename_entry"]
  <2>1. thread' = [thread EXCEPT ![t] = s]
    BY <1>3, <1>7 DEF Leave, GoTo
  <2>2. s.di = thread[t].di /\ s.call = thread[t].call /\ s.pc = "rename_entry"
    BY <1>1 DEF Good, Shaped, ThreadFields
  <2> HIDE DEF s
  <2>3. ASSUME ~damaged PROVE Knows(s, disk_dir, disk_map, disk_dir, bmap)
    BY <1>3, <1>4, <1>7, <2>2, <2>3
    DEF Knows, Holds, Window, CacheKnown, WriteKnown, TruncateKnown
  <2> QED BY <1>2, <2>1, <2>3, SteppedBlocks
<1>8. handler \in {"write", "rename"} => thread[t].call.op = handler
  BY <1>1, <1>3 DEF Good, Serves
<1>9. QED
  BY <1>3, <1>5, <1>6, <1>7, <1>8

(* The process is killed: outside the windows the disk is consistent. *)
LEMMA CrashBlocks ==
  ASSUME IInv, BInv, Crash
  PROVE  BInv'
<1>1. /\ disk_dir' = disk_dir /\ disk_map' = disk_map /\ thread' = [t \in Thread |-> Idle]
      /\ damaged' = (damaged \/ \E t \in Thread : InWindow(t))
  BY DEF Crash
<1>2. ASSUME ~damaged' PROVE Consistent(disk_dir, disk_map)
  <2>1. ~damaged /\ \A t \in Thread : ~InWindow(t)
    BY <1>1, <1>2
  <2>2. \A t \in Thread : ~Window(thread[t], disk_dir)
    BY <2>1 DEF InWindow, Window, At
  <2> QED BY <2>1, <2>2 DEF BInv, Undamaged
<1>3. Idle.pc = "idle" /\ Idle.call.op = "none" /\ Asks(Idle.call)
  BY DEF Idle, NoCall, Asks
<1>4. ASSUME ~damaged', NEW t \in Thread
      PROVE  Knows(thread'[t], disk_dir', disk_map', bdir', bmap')
  <2>1. thread'[t] = Idle
    BY <1>1
  <2> QED BY <1>1, <1>2, <1>3, <1>4, <2>1, RestKnows
<1>5. QED
  BY <1>1, <1>2, <1>4 DEF BInv, Undamaged

(* The disk is consistent when it is mounted, *)
LEMMA InitBlocks ==
  ASSUME Init, Consistent(MountedDirectory, MountedMap)
  PROVE  BInv
<1>1. /\ disk_dir = MountedDirectory /\ disk_map = MountedMap
      /\ \A t \in Thread : thread[t] = Idle
  BY DEF Init
<1>2. Idle.pc = "idle" /\ Idle.call.op = "none" /\ Asks(Idle.call)
  BY DEF Idle, NoCall, Asks
<1>3. Knows(Idle, disk_dir, disk_map, bdir, bmap)
  BY <1>1, <1>2, RestKnows
<1>4. QED
  BY <1>1, <1>3 DEF BInv, Undamaged

(* and every step keeps the invariant. *)
LEMMA StepBlocks ==
  ASSUME IInv, BInv, SingleThread, [Next]_vars
  PROVE  BInv'
<1>1. CASE UNCHANGED vars
  BY <1>1 DEF vars, BInv, Undamaged
<1>2. CASE Crash
  BY <1>2, CrashBlocks
<1>3. ASSUME NEW t \in Thread, Begin(t) PROVE BInv'
  BY <1>3, BeginBlocks
<1>4. ASSUME NEW t \in Thread, Handler(t) PROVE BInv'
  <2>1. CASE GetAttr(t) \/ CreateFull(t) \/ CreateEntry(t) \/ CreateSave(t)
    BY <2>1, CreateBlocks
  <2>2. CASE WriteLookup(t) \/ WriteGrow(t) \/ WriteSave(t) \/ Navigate(t) \/ WriteData(t)
    BY <2>2, WriteLookupBlocks, WriteGrowBlocks, WriteSaveBlocks, NavigateBlocks, WriteDataBlocks
  <2>3. CASE TruncateLookup(t) \/ TruncateFree(t) \/ TruncateSaveMap(t) \/ TruncateSave(t)
    BY <2>3, TruncateLookupBlocks, TruncateFreeBlocks, TruncateSaveMapBlocks, TruncateSaveBlocks
  <2>4. CASE UnlinkLookup(t) \/ UnlinkScooch(t) \/ UnlinkSave(t)
    BY <2>4, UnlinkLookupBlocks, UnlinkScoochBlocks, UnlinkSaveBlocks
  <2>5. CASE RenameLookup(t) \/ RenameEntry(t) \/ RenameSave(t)
    BY <2>5, RenameLookupBlocks, RenameEntryBlocks, RenameSaveBlocks
  <2>6. CASE NoSuchFile(t)
    BY <2>6, NoSuchFileBlocks
  <2> QED BY <1>4, <2>1, <2>2, <2>3, <2>4, <2>5, <2>6 DEF Handler
<1>5. QED
  BY <1>1, <1>2, <1>3, <1>4 DEF Next

(* Outside the windows the undamaged disk is consistent. *)
LEMMA SoundIsConsistent ==
  ASSUME BInv, Sound
  PROVE  Consistent(disk_dir, disk_map)
<1>1. \A t \in Thread : ~Window(thread[t], disk_dir)
  BY DEF Sound, InWindow, At, Window
<1>2. QED
  BY <1>1 DEF BInv, Undamaged, Sound

-------------------------------------------------------------------------------
(* What the disk says of a file, as a function of directory and map. *)
Told(dir, map, n) ==
  {LET de == dir[i] IN <<de.size_bytes, de.first_block, Chain(map, de.first_block)>> :
     i \in Matches(dir, n)}

LEMMA OnDiskIsTold ==
  ASSUME NEW n
  PROVE  OnDisk(n) = Told(disk_dir, disk_map, n) /\ OnDisk(n)' = Told(disk_dir', disk_map', n)
BY DEF OnDisk, Told

(* In a table without holes find_dir_entry sees every entry of the name. *)
LEMMA MatchesByName ==
  ASSUME NEW dir, WellFormed(dir), NEW n \in Name
  PROVE  Matches(dir, n) = {i \in Index : dir[i].name = n}
BY PackedMatches DEF WellFormed

(* An entry and the blocks of its file change: nothing else is said of other files. *)
LEMMA OthersTold ==
  ASSUME NEW dir, WellFormed(dir), NEW new, WellFormed(new), NEW map, NEW other,
         NEW i \in Index, SameBut(i, dir, new), OthersChained(dir, i, map, other),
         NEW n \in Name, dir[i].name # n, new[i].name # n
  PROVE  Told(new, other, n) = Told(dir, map, n)
<1>1. Matches(dir, n) = {j \in Index : dir[j].name = n}
      /\ Matches(new, n) = {j \in Index : new[j].name = n}
  BY MatchesByName
<1>2. Matches(new, n) = Matches(dir, n)
  BY <1>1 DEF SameBut
<1>3. n # Empty
  BY FsAssumption
<1>4. \A j \in Matches(dir, n) :
        new[j] = dir[j] /\ Chain(other, dir[j].first_block) = Chain(map, dir[j].first_block)
  BY <1>1, <1>3 DEF SameBut, OthersChained, Files
<1>5. QED
  BY <1>2, <1>4 DEF Told

(* Entries move up: nothing else is said of other files. *)
LEMMA ScoochTold ==
  ASSUME NEW dir, Table(dir), WellFormed(dir), NEW di \in Index, dir[di].name # Empty,
         NEW new, new = scooch_dir_entries(dir, di), WellFormed(new),
         NEW map, NEW n \in Name, dir[di].name # n
  PROVE  Told(new, map, n) = Told(dir, map, n)
<1>1. PICK m \in 0 .. DIR_ENTRIES : Packed(dir, m)
  BY DEF WellFormed
<1>2. /\ m \in Int /\ di < m /\ m <= DIR_ENTRIES
      /\ \A i \in Index : i < m - 1 => i + 1 \in Index /\ new[i] = dir[IF i < di THEN i ELSE i + 1]
      /\ \A i \in Index : new[i].name # Empty <=> i < m - 1
  BY <1>1, ScoochedEntries
<1>3. Matches(dir, n) = {j \in Index : dir[j].name = n}
      /\ Matches(new, n) = {j \in Index : new[j].name = n}
  BY MatchesByName
<1>4. n # Empty /\ di \in Int /\ \A i \in Index : i \in Int /\ 0 <= i
  BY FsAssumption DEF Index
<1>5. ASSUME NEW i \in Matches(new, n)
      PROVE  \E j \in Matches(dir, n) : new[i] = dir[j]
  <2>1. i \in Index /\ new[i].name = n /\ i < m - 1
    BY <1>2, <1>3, <1>4
  <2>2. CASE i < di
    BY <1>2, <1>3, <2>1, <2>2
  <2>3. CASE ~(i < di)
    BY <1>2, <1>3, <2>1, <2>3
  <2> QED BY <2>2, <2>3
<1>6. ASSUME NEW j \in Matches(dir, n)
      PROVE  \E i \in Matches(new, n) : new[i] = dir[j]
  <2>1. j \in Index /\ dir[j].name = n /\ j < m /\ j # di /\ j \in Int /\ 0 <= j
    BY <1>1, <1>3, <1>4 DEF Packed
  <2>2. CASE j < di
    BY <1>2, <1>3, <1>4, <2>1, <2>2
  <2>3. CASE j > di
    <3>1. j - 1 \in Index /\ j - 1 < m - 1 /\ ~(j - 1 < di) /\ (j - 1) + 1 = j
      BY <1>2, <1>4, <2>1, <2>3, FsAssumption DEF Index
    <3>2. new[j - 1] = dir[j]
      BY <1>2, <3>1
    <3> QED BY <1>3, <2>1, <3>1, <3>2
  <2> QED BY <1>4, <2>1, <2>2, <2>3
<1> DEFINE tell(de) == <<de.size_bytes, de.first_block, Chain(map, de.first_block)>>
<1>7. Told(new, map, n) = {tell(new[i]) : i \in Matches(new, n)}
      /\ Told(dir, map, n) = {tell(dir[i]) : i \in Matches(dir, n)}
  BY DEF Told
<1> HIDE DEF tell
<1>8. QED
  BY <1>5, <1>6, <1>7

(* The steps that write to the disk. *)
LEMMA DiskChange ==
  ASSUME [Next]_vars, NEW n, Told(disk_dir', disk_map', n) # Told(disk_dir, disk_map, n)
  PROVE  \E t \in Thread : \/ CreateSave(t) \/ WriteSave(t) \/ WriteData(t)
                           \/ TruncateSaveMap(t) \/ TruncateSave(t)
                           \/ UnlinkSave(t) \/ RenameSave(t)
<1>1. ~(disk_dir' = disk_dir /\ disk_map' = disk_map)
  OBVIOUS
<1>2. ~UNCHANGED vars /\ ~Crash
  BY <1>1 DEF vars, Crash
<1>3. PICK t \in Thread : Begin(t) \/ Handler(t)
  BY <1>2 DEF Next
<1>4. ~Begin(t)
  BY <1>1 DEF Begin
<1>5. ~(GetAttr(t) \/ CreateFull(t) \/ CreateEntry(t) \/ NoSuchFile(t))
  BY <1>1 DEF GetAttr, CreateFull, CreateEntry, NoSuchFile
<1>6. ~(WriteLookup(t) \/ WriteGrow(t) \/ Navigate(t))
  BY <1>1 DEF WriteLookup, WriteGrow, Navigate
<1>7. ~(TruncateLookup(t) \/ TruncateFree(t) \/ UnlinkLookup(t) \/ UnlinkScooch(t)
        \/ RenameLookup(t) \/ RenameEntry(t))
  BY <1>1 DEF TruncateLookup, TruncateFree, UnlinkLookup, UnlinkScooch, RenameLookup, RenameEntry
<1>8. QED
  BY <1>3, <1>4, <1>5, <1>6, <1>7 DEF Handler

(* What they change belongs to the call they serve. *)
LEMMA OthersStepUndisturbed ==
  ASSUME IInv, IInv', BInv, [Next]_vars, ~damaged', NEW n \in Name, OnDisk(n)' # OnDisk(n)
  PROVE  \E t \in Thread : n \in Paths(thread[t].call)
<1>1. Told(disk_dir', disk_map', n) # Told(disk_dir, disk_map, n)
  BY OnDiskIsTold
<1>2. PICK t \in Thread : \/ CreateSave(t) \/ WriteSave(t) \/ WriteData(t)
                          \/ TruncateSaveMap(t) \/ TruncateSave(t)
                          \/ UnlinkSave(t) \/ RenameSave(t)
  BY <1>1, DiskChange
<1> DEFINE s == thread[t]
<1>3. /\ Good(s, disk_dir, bdir) /\ WellFormed(disk_dir) /\ WellFormed(disk_dir') /\ Table(disk_dir)
      /\ {s.di, s.udi, s.tdi} \subseteq Index
  BY DEF IInv, Good, Shaped
<1>4. ~damaged
  BY <1>2 DEF CreateSave, WriteSave, WriteData, TruncateSaveMap, TruncateSave, UnlinkSave,
              RenameSave, SaveDirectory
<1>5. Knows(s, disk_dir, disk_map, bdir, bmap)
  BY <1>4 DEF BInv, Undamaged
<1> SUFFICES ASSUME n \notin Paths(s.call) PROVE FALSE
  OBVIOUS
<1>6. /\ s.call.op \in {"create", "write", "truncate", "unlink"} => s.call.path # n
      /\ s.call.op = "rename" => s.call.path # n /\ s.call.npath # n
  BY DEF Paths
<1> HIDE DEF s
<1>7. CASE CreateSave(t)
  <2>1. s.pc = "create_save" /\ disk_dir' = bdir /\ disk_map' = disk_map /\ s.call.op = "create"
    BY <1>3, <1>7 DEF CreateSave, SaveDirectory, At, Good, Serves, s
  <2>2. PICK i \in Index : /\ disk_dir[i].name = Empty /\ bdir[i] = Entered(s.call)
                           /\ SameBut(i, disk_dir, bdir)
    BY <1>5, <2>1 DEF Knows, CacheKnown
  <2>3. disk_dir[i].name # n /\ bdir[i].name # n
    BY <1>6, <2>1, <2>2, FsAssumption DEF Entered
  <2>4. OthersChained(disk_dir, i, disk_map, disk_map)
    BY SameChains
  <2>5. Told(bdir, disk_map, n) = Told(disk_dir, disk_map, n)
    BY <1>3, <2>1, <2>2, <2>3, <2>4, OthersTold
  <2> QED BY <1>1, <2>1, <2>5
<1>8. CASE WriteSave(t)
  <2>1. /\ s.pc = "write_save" /\ disk_dir' = bdir /\ disk_map' = disk_map /\ s.call.op = "write"
        /\ SameNames(bdir, disk_dir)
    BY <1>3, <1>8 DEF WriteSave, SaveDirectory, At, Good, Serves, CacheFits, s
  <2>2. SameBut(s.di, disk_dir, bdir) /\ disk_dir[s.di].name # n /\ bdir[s.di].name # n
    BY <1>3, <1>5, <1>6, <2>1 DEF Knows, WriteKnown, Holds, SameNames
  <2>3. OthersChained(disk_dir, s.di, disk_map, disk_map)
    BY SameChains
  <2>4. Told(bdir, disk_map, n) = Told(disk_dir, disk_map, n)
    BY <1>3, <2>1, <2>2, <2>3, OthersTold
  <2> QED BY <1>1, <2>1, <2>4
<1>9. CASE WriteData(t)
  <2>1. s.pc = "navigate" /\ disk_dir' = disk_dir /\ disk_map' = bmap /\ s.call.op = "write"
    BY <1>3, <1>9 DEF WriteData, At, Good, Serves, s
  <2>2. disk_dir[s.di].name # n /\ OthersChained(disk_dir, s.di, disk_map, bmap)
    BY <1>5, <1>6, <2>1 DEF Knows, WriteKnown, Holds
  <2>3. SameBut(s.di, disk_dir, disk_dir)
    BY DEF SameBut
  <2>4. Told(disk_dir, bmap, n) = Told(disk_dir, disk_map, n)
    BY <1>3, <2>2, <2>3, OthersTold
  <2> QED BY <1>1, <2>1, <2>4
<1>10. CASE TruncateSaveMap(t)
  <2>1. s.pc = "freeing" /\ disk_dir' = disk_dir /\ disk_map' = bmap
    BY <1>10 DEF TruncateSaveMap, At, s
  <2>2. disk_dir[s.tdi].name # n /\ OthersChained(disk_dir, s.tdi, disk_map, bmap)
    BY <1>3, <1>5, <1>6, <2>1 DEF Knows, TruncateKnown, Holds, Removed, Good, Serves
  <2>3. SameBut(s.tdi, disk_dir, disk_dir)
    BY DEF SameBut
  <2>4. Told(disk_dir, bmap, n) = Told(disk_dir, disk_map, n)
    BY <1>3, <2>2, <2>3, OthersTold
  <2> QED BY <1>1, <2>1, <2>4
<1>11. CASE TruncateSave(t)
  <2>1. /\ s.pc = "truncate_save" /\ disk_dir' = bdir /\ disk_map' = disk_map
        /\ SameNames(bdir, disk_dir)
    BY <1>3, <1>11 DEF TruncateSave, SaveDirectory, At, Good, CacheFits, s
  <2>2. SameBut(s.tdi, disk_dir, bdir) /\ disk_dir[s.tdi].name # n /\ bdir[s.tdi].name # n
    BY <1>3, <1>5, <1>6, <2>1
       DEF Knows, TruncateKnown, Holds, SameNames, Removed, Good, Serves
  <2>3. OthersChained(disk_dir, s.tdi, disk_map, disk_map)
    BY SameChains
  <2>4. Told(bdir, disk_map, n) = Told(disk_dir, disk_map, n)
    BY <1>3, <2>1, <2>2, <2>3, OthersTold
  <2> QED BY <1>1, <2>1, <2>4
<1>12. CASE UnlinkSave(t)
  <2>1. s.pc = "unlink_save" /\ disk_dir' = bdir /\ disk_map' = disk_map
    BY <1>12 DEF UnlinkSave, At, s
  <2>2. /\ bdir = scooch_dir_entries(disk_dir, s.udi)
        /\ disk_dir[s.udi].name # n /\ disk_dir[s.udi].name # Empty
    <3>1. disk_dir[s.udi].name = Removed(s.call) /\ Removed(s.call) # n /\ Removed(s.call) # Empty
      BY <1>3, <1>5, <1>6, <2>1, FsAssumption
         DEF Knows, Holds, Removed, Good, Serves, Shaped
    <3> QED BY <1>5, <2>1, <3>1 DEF Knows, CacheKnown
  <2>3. Told(bdir, disk_map, n) = Told(disk_dir, disk_map, n)
    BY <1>3, <2>1, <2>2, ScoochTold
  <2> QED BY <1>1, <2>1, <2>3
<1>13. CASE RenameSave(t)
  <2>1. s.pc = "rename_save" /\ disk_dir' = bdir /\ disk_map' = disk_map /\ s.call.op = "rename"
    BY <1>3, <1>13 DEF RenameSave, SaveDirectory, At, Good, Serves, s
  <2>2. SameBut(s.di, disk_dir, bdir) /\ disk_dir[s.di].name # n /\ bdir[s.di].name # n
    BY <1>5, <1>6, <2>1 DEF Knows, CacheKnown, Holds
  <2>3. OthersChained(disk_dir, s.di, disk_map, disk_map)
    BY SameChains
  <2>4. Told(bdir, disk_map, n) = Told(disk_dir, disk_map, n)
    BY <1>3, <2>1, <2>2, <2>3, OthersTold
  <2> QED BY <1>1, <2>1, <2>4
<1>14. QED
  BY <1>2, <1>7, <1>8, <1>9, <1>10, <1>11, <1>12, <1>13

(* The block that do_write has reached is one of its file. *)
LEMMA WriteStepOwnsBlock ==
  ASSUME IInv, BInv, ~damaged, NEW t \in Thread, WriteData(t)
  PROVE  \E i \in Matches(disk_dir', Path(t)) :
           thread[t].crtblk \in Chain(disk_map', disk_dir'[i].first_block)
<1> DEFINE s == thread[t]
<1>1. /\ Good(s, disk_dir, bdir) /\ WellFormed(disk_dir) /\ s.pc = "navigate"
      /\ disk_dir' = disk_dir /\ disk_map' = bmap
  BY DEF IInv, WriteData, At
<1>2. s.di \in Index /\ s.call.path \in Name /\ s.call.op = "write"
  BY <1>1 DEF Good, Shaped, Serves
<1>3. Knows(s, disk_dir, disk_map, bdir, bmap)
  BY DEF BInv, Undamaged
<1>4. disk_dir[s.di].name = s.call.path /\ \E n \in Int : IsNth(disk_dir, bmap, s.di, s.crtblk, n)
  BY <1>1, <1>3 DEF Knows, Holds, WriteKnown
<1>5. s.di \in Matches(disk_dir, s.call.path)
  BY <1>1, <1>2, <1>4, MatchesByName
<1>6. PICK own, pos, base : /\ Layout(disk_dir, bmap, own, pos, base)
                            /\ s.crtblk \in DataBlock /\ own[s.crtblk] = s.di
  BY <1>4 DEF IsNth
<1>7. s.di \in Lists(disk_dir) /\ Head(disk_dir, bmap, s.di) = disk_dir[s.di].first_block
  BY <1>2, <1>4, FsAssumption, Numbers DEF Lists, Head
<1>8. s.crtblk \in Chain(bmap, disk_dir[s.di].first_block)
  BY <1>6, <1>7, ChainIsOwned
<1>9. QED
  BY <1>1, <1>5, <1>8 DEF Path

(* The entry that do_rename saves has the new name and is otherwise the old one. *)
LEMMA RenameStepMoves ==
  ASSUME IInv, BInv, ~damaged, NEW t \in Thread, NEW o \in Name, NEW n \in Name, RenameSave(t),
         thread[t].call = [op |-> "rename", path |-> o, npath |-> n]
  PROVE  OnDisk(n)' = OnDisk(o) /\ OnDisk(o)' = {}
<1> DEFINE s == thread[t]
<1>1. /\ Good(s, disk_dir, bdir) /\ WellFormed(disk_dir) /\ s.pc = "rename_save"
      /\ disk_dir' = bdir /\ disk_map' = disk_map
  BY DEF IInv, RenameSave, SaveDirectory, At
<1>2. s.di \in Index /\ s.call.path = o /\ s.call.npath = n /\ s.call.op = "rename" /\ WellFormed(bdir)
  BY <1>1 DEF Good, Shaped, CacheFits
<1>3. Knows(s, disk_dir, disk_map, bdir, bmap)
  BY DEF BInv, Undamaged
<1>4. /\ disk_dir[s.di].name = o /\ bdir[s.di].name = n /\ o # n
      /\ SameBut(s.di, disk_dir, bdir) /\ Lacks(disk_dir, n)
      /\ bdir[s.di].size_bytes = disk_dir[s.di].size_bytes
      /\ bdir[s.di].first_block = disk_dir[s.di].first_block
  BY <1>1, <1>2, <1>3 DEF Knows, Holds, CacheKnown, Asks
<1> HIDE DEF s
<1>5. \A j \in Index : disk_dir[j].name = o => j = s.di
  BY <1>1, <1>2, <1>4, OneEntry, FsAssumption
<1>6. Matches(bdir, n) = {s.di}
  BY <1>2, <1>4, MatchesByName DEF SameBut, Lacks
<1>7. Matches(disk_dir, o) = {s.di}
  BY <1>1, <1>2, <1>4, <1>5, MatchesByName
<1>8. Matches(bdir, o) = {}
  BY <1>2, <1>4, <1>5, MatchesByName DEF SameBut
<1>9. Told(bdir, disk_map, n) = Told(disk_dir, disk_map, o) /\ Told(bdir, disk_map, o) = {}
  BY <1>4, <1>6, <1>7, <1>8 DEF Told
<1>10. QED
  BY <1>1, <1>9, OnDiskIsTold

-------------------------------------------------------------------------------
(* Theorems. *)

(* The invariant that carries the proof: with one thread, every handler knows
   what it needs of the directory, wherever it is (ssfs.c:205-222,326-425). *)
THEOREM SsfsInvariant ==
  ASSUME SingleThread, WellFormed(MountedDirectory)
  PROVE  Spec => []IInv
<1>1. Init => IInv
  <2> SUFFICES ASSUME Init PROVE IInv
    OBVIOUS
  <2>1. Table(MountedDirectory)
    BY SsfsAssumption DEF Directory, DirEntry, Table, EntryFields
  <2>2. Table(NoDirectory)
    BY DEF Table, NoDirectory, EntryFields
  <2>3. DOMAIN thread = Thread /\ \A t \in Thread : thread[t] = Idle
    BY DEF Init
  <2>4. \A t \in Thread : Good(thread[t], disk_dir, bdir)
    BY <2>3, IdleIsGood
  <2> QED BY <2>1, <2>2, <2>3, <2>4 DEF Init, IInv
<1>2. IInv /\ [Next]_vars => IInv'
  <2> SUFFICES ASSUME IInv, [Next]_vars PROVE IInv'
    OBVIOUS
  <2>1. CASE UNCHANGED vars
    BY <2>1 DEF vars, IInv
  <2>2. CASE Crash
    BY <2>2, CrashKeeps
  <2>3. ASSUME NEW t \in Thread, Begin(t) \/ Handler(t)
        PROVE  IInv'
    BY <2>3, BeginKeeps, CreateKeeps, WriteKeeps, TruncateKeeps, UnlinkKeeps, RenameKeeps,
       NoSuchFileKeeps
    DEF Handler
  <2> QED BY <2>1, <2>2, <2>3 DEF Next
<1>3. QED
  BY <1>1, <1>2, PTL DEF Spec

(* With one thread and a directory that was well formed when it was mounted,
   the directory on disk has no hole and no name twice, after every step of
   every handler and after every crash (fs_support.c:78-135). *)
THEOREM DirectoryStaysWellFormed ==
  ASSUME SingleThread, WellFormed(MountedDirectory)
  PROVE  Spec => []DirectoryWellFormed
<1>1. IInv => DirectoryWellFormed
  BY WellFormedIsProperty DEF IInv, DirectoryWellFormed
<1>2. QED
  BY <1>1, SsfsInvariant, PTL

(* A formatted disk, on which the file system is first mounted, is well formed
   and consistent: it has no files, and all blocks are free. *)
THEOREM FormattedDiskIsConsistent ==
  WellFormed(FormattedDirectory) /\ Consistent(FormattedDirectory, FormattedMap)
<1> DEFINE dir == FormattedDirectory
           map == FormattedMap
           own == [b \in DataBlock |-> Free]
           pos == [b \in DataBlock |-> b]
           base == [l \in Index \cup {Free} |-> 2]
<1>1. \A i \in Index : dir[i].name = Empty
  BY DEF FormattedDirectory
<1>2. WellFormed(dir)
  <2>1. 0 \in 0 .. DIR_ENTRIES /\ \A i \in Index : ~(i < 0)
    BY FsAssumption DEF Index
  <2>2. Packed(dir, 0)
    BY <1>1, <2>1 DEF Packed
  <2> QED BY <2>1, <2>2 DEF WellFormed
<1>3. Files(dir) = {} /\ Lists(dir) = {Free}
  BY <1>1 DEF Files, Lists
<1>4. /\ map[BLKMAP_BID] = 2 /\ 2 \in DataBlock /\ 2 # NBLOCKS
      /\ \A b \in DataBlock : /\ b \in Int /\ 2 <= b
                              /\ b # NBLOCKS - 1 => b + 1 \in DataBlock /\ map[b] = b + 1
                              /\ b = NBLOCKS - 1 => map[b] = BLKMAP_BID
                              /\ b <= NBLOCKS - 1
                              /\ b # 2 => b - 1 \in DataBlock /\ b - 1 # NBLOCKS - 1
  BY FsAssumption DEF FormattedMap, Block, DataBlock, BLKMAP_BID
<1>5. map \in BlockMap
  <2>1. \A b \in Block : map[b] \in Block
    BY <1>4, Numbers DEF Block
  <2>2. map = [b \in Block |-> map[b]]
    BY DEF FormattedMap
  <2> HIDE DEF map
  <2> QED BY <2>1, <2>2 DEF BlockMap, Link
<1>6. Placed(dir, map, own, pos, base)
  <2> HIDE DEF dir, map
  <2> QED BY <1>3, <1>4, <1>5 DEF Placed
<1>7. Headed(dir, map, own, pos, base)
  <2> HIDE DEF dir, map
  <2> QED BY <1>3, <1>4 DEF Headed, Head
<1> HIDE DEF dir, map
<1>8. Linked(map, own, pos)
  <2> SUFFICES ASSUME NEW b \in DataBlock
               PROVE  \/ map[b] \in DataBlock /\ own[map[b]] = own[b] /\ pos[map[b]] = pos[b] + 1
                      \/ map[b] = End(own[b]) /\ \A c \in DataBlock : own[c] = own[b] => pos[c] <= pos[b]
    BY DEF Linked
  <2>1. CASE b = NBLOCKS - 1
    BY <1>4, <2>1 DEF End
  <2>2. CASE b # NBLOCKS - 1
    BY <1>4, <2>2
  <2> QED BY <2>1, <2>2
<1>9. Reached(dir, map, own, pos, base)
  <2> SUFFICES ASSUME NEW b \in DataBlock
               PROVE  /\ base[own[b]] <= pos[b]
                      /\ b # Head(dir, map, own[b]) => \E c \in DataBlock : map[c] = b
    BY DEF Reached
  <2>1. Head(dir, map, own[b]) = 2
    BY <1>4 DEF Head
  <2>2. b # 2 => map[b - 1] = b
    BY <1>4
  <2> QED BY <1>4, <2>1, <2>2
<1>10. Layout(dir, map, own, pos, base) /\ AllSized(dir, own, pos, base)
  BY <1>3, <1>6, <1>7, <1>8, <1>9 DEF Layout, AllSized
<1>11. Consistent(dir, map)
  <2> HIDE DEF own, pos, base
  <2> QED BY <1>10 DEF Consistent
<1>12. QED
  BY <1>2, <1>11 DEF dir, map

(* As long as nothing has damaged the disk, the caches are what the handler
   that runs knows of them, and outside the two windows the disk is consistent
   (ssfs.c:194-425). *)
THEOREM BlocksInvariant ==
  ASSUME SingleThread, WellFormed(MountedDirectory), Consistent(MountedDirectory, MountedMap)
  PROVE  Spec => []BInv
<1>1. Init => BInv
  BY InitBlocks
<1>2. IInv /\ BInv /\ [Next]_vars => BInv'
  BY StepBlocks
<1>3. QED
  BY <1>1, <1>2, SsfsInvariant, PTL DEF Spec

(* With one thread, on a disk that was consistent when it was mounted, nothing
   on the disk names a data block twice (fs_support.h:12-23). *)
THEOREM NoBlockIsShared ==
  ASSUME SingleThread, WellFormed(MountedDirectory), Consistent(MountedDirectory, MountedMap)
  PROVE  Spec => []NoSharedBlock
<1>1. ASSUME IInv, BInv, Sound, NEW x \in DataBlock
      PROVE  Cardinality(References(disk_dir, disk_map, x)) <= 1
  BY <1>1, SoundIsConsistent, LayoutSharesNothing DEF IInv, Consistent
<1>2. IInv /\ BInv => NoSharedBlock
  BY <1>1 DEF NoSharedBlock
<1>3. QED
  BY <1>2, SsfsInvariant, BlocksInvariant, PTL

(* There every data block is on the free list or in a file of the directory,
   also after a truncate, an unlink or a crash (ssfs.c:328-342,384-387). *)
THEOREM NoBlockIsLost ==
  ASSUME SingleThread, WellFormed(MountedDirectory), Consistent(MountedDirectory, MountedMap)
  PROVE  Spec => []NoLeak
<1>1. IInv /\ BInv => NoLeak
  BY SoundIsConsistent, LayoutLosesNothing DEF IInv, Consistent, NoLeak
<1>2. QED
  BY <1>1, SsfsInvariant, BlocksInvariant, PTL

(* There a file has a first block exactly if it has bytes, and no block behind
   those that its bytes need (ssfs.c:205-255,326-348). *)
THEOREM SizesMatchBlocks ==
  ASSUME SingleThread, WellFormed(MountedDirectory), Consistent(MountedDirectory, MountedMap)
  PROVE  Spec => []SizeMatchesBlocks
<1>1. ASSUME IInv, BInv, Sound, NEW i \in Active(disk_dir)
      PROVE  /\ disk_dir[i].size_bytes = 0 <=> disk_dir[i].first_block = EOF_BLOCK
             /\ \/ (Cardinality(Chain(disk_map, disk_dir[i].first_block)) - 1) * BLOCK_SIZE
                     < disk_dir[i].size_bytes
                \/ disk_dir[i].size_bytes = 0
  <2>1. PICK own, pos, base : /\ Layout(disk_dir, disk_map, own, pos, base)
                              /\ AllSized(disk_dir, own, pos, base)
    BY <1>1, SoundIsConsistent DEF Consistent
  <2>2. i \in Files(disk_dir)
    BY <1>1, ActiveAreFiles DEF IInv
  <2>3. Sized(i, disk_dir, own, pos, base)
    BY <2>1, <2>2 DEF AllSized
  <2> QED BY <2>1, <2>2, <2>3, LayoutFillsBlocks DEF Sized
<1>2. IInv /\ BInv => SizeMatchesBlocks
  BY <1>1, Zenon DEF SizeMatchesBlocks
<1>3. QED
  BY <1>2, SsfsInvariant, BlocksInvariant, PTL

(* There no step changes the size, the first block or the blocks of a file that
   the running call does not name (fs_support.c:97-111, ssfs.c:234-255,328-342). *)
THEOREM NoOtherDisturbed ==
  ASSUME SingleThread, WellFormed(MountedDirectory), Consistent(MountedDirectory, MountedMap)
  PROVE  Spec => OthersUndisturbed
<1>1. IInv /\ IInv' /\ BInv /\ [Next]_vars =>
        [~damaged' => \A n \in Name :
           OnDisk(n)' # OnDisk(n) => \E t \in Thread : n \in Paths(thread[t].call)]_vars
  BY OthersStepUndisturbed
<1>2. QED
  BY <1>1, SsfsInvariant, BlocksInvariant, PTL DEF Spec, OthersUndisturbed

(* There do_write writes to a block that is one of the file's when it returns,
   however many blocks it has added to the file (ssfs.c:234-288). *)
THEOREM WritesGoToOwnBlock ==
  ASSUME SingleThread, WellFormed(MountedDirectory), Consistent(MountedDirectory, MountedMap)
  PROVE  Spec => WritesOwnBlock
<1>1. IInv /\ BInv /\ [Next]_vars =>
        [\A t \in Thread : WriteData(t) /\ ~damaged =>
           \E i \in Matches(disk_dir', Path(t)) :
             thread[t].crtblk \in Chain(disk_map', disk_dir'[i].first_block)]_vars
  BY WriteStepOwnsBlock
<1>2. QED
  BY <1>1, SsfsInvariant, BlocksInvariant, PTL DEF Spec, WritesOwnBlock

(* There do_rename gives the new name what the old one had, and the old name is
   gone (ssfs.c:357-372). *)
THEOREM RenamesMove ==
  ASSUME SingleThread, WellFormed(MountedDirectory), Consistent(MountedDirectory, MountedMap)
  PROVE  Spec => RenameMoves
<1>1. IInv /\ BInv /\ [Next]_vars =>
        [\A t \in Thread, o, n \in Name :
           /\ RenameSave(t) /\ ~damaged
           /\ thread[t].call = [op |-> "rename", path |-> o, npath |-> n]
           => OnDisk(n)' = OnDisk(o) /\ OnDisk(o)' = {}]_vars
  BY RenameStepMoves
<1>2. QED
  BY <1>1, SsfsInvariant, BlocksInvariant, PTL DEF Spec, RenameMoves
================================================================================
