-------------------------- MODULE TrainProjectProofs --------------------------
(***************************************************************************)
(* Theorems about the trainer: the history of a project, the sets and the  *)
(* network, for every set of files, names and rows, any sizes, and any     *)
(* number of sessions.                                                     *)
(***************************************************************************)
EXTENDS TrainProject, WellFoundedInduction, SequenceTheorems, TLAPS

\* A record has its fields, whatever is in them; a sequence, its length.
CommitFields == {"id", "size", "net", "entries", "parent", "children"}
IsCommit(c) == c = [x \in CommitFields |-> c[x]]
FileFields == {"present", "size", "net", "entries", "history", "current"}
IsFile(p) == p = [x \in FileFields |-> p[x]]
IsSeq(s) == Len(s) \in Nat /\ s = [i \in 1 .. Len(s) |-> s[i]]

HistoryIds(h) == {h[i].id : i \in DOMAIN h}

IsHistory(h) ==
    /\ IsSeq(h)
    /\ \A i \in DOMAIN h : IsCommit(h[i]) /\ IsSeq(h[i].children) /\ h[i].id # NoParent

\* Nobody gave a commit an automatic name out of turn.
InTurn(h) == \A i \in DOMAIN h : h[i].id \in Nat => h[i].id = i - 1

Distinct(h) == \A i, j \in DOMAIN h : h[i].id = h[j].id => i = j
Rooted(h) ==
    \A i \in DOMAIN h : IF i = 1 THEN h[i].parent = NoParent
                        ELSE h[i].parent \in {h[j].id : j \in 1 .. i - 1}
Linked(h) ==
    \A i, j \in DOMAIN h : h[j].parent = h[i].id <=> h[j].id \in ToSet(h[i].children)

\* What HistoryIsTree says of one file, and that the children are commits too.
Tree(p) ==
    /\ p.history # <<>> => p.current \in HistoryIds(p.history)
    /\ Distinct(p.history) /\ Rooted(p.history) /\ Linked(p.history)
    /\ \A i \in DOMAIN p.history : ToSet(p.history[i].children) \subseteq HistoryIds(p.history)

FileOK(p) ==
    /\ IsFile(p) /\ IsHistory(p.history)
    /\ p.history = <<>> => p.current = NoParent
    /\ InTurn(p.history) => Tree(p)

ProjectInv ==
    /\ disk = [f \in ProjectFiles |-> disk[f]]
    /\ \A f \in ProjectFiles : FileOK(disk[f])
    /\ project \in [named : BOOLEAN, file : ProjectFiles \cup {""}]
    /\ failed \subseteq ProjectFiles

\* What CommitsKept says of a file that is written whole.
Extends(p, q) ==
    /\ Len(p.history) <= Len(q.history)
    /\ \A i \in DOMAIN p.history : Kept(p.history[i], q.history[i])

(***************************************************************************)
(* Sequences and least numbers.                                            *)
(***************************************************************************)

\* A sequence whose elements have no common type is still one of its elements.
LEMMA SeqOfElements ==
    ASSUME NEW s, IsSeq(s), NEW S, \A i \in 1 .. Len(s) : s[i] \in S
    PROVE  s \in Seq(S) /\ DOMAIN s = 1 .. Len(s)
  <1>1. s \in [1 .. Len(s) -> S] /\ Len(s) \in Nat
    BY DEF IsSeq
  <1>2. DOMAIN s = 1 .. Len(s)
    BY <1>1
  <1>3. s \in UNION {[1 .. n -> S] : n \in Nat}
    BY <1>1
  <1> QED
    BY <1>1, <1>2

\* Its indices are numbers.
LEMMA SeqDomain ==
    ASSUME NEW s, IsSeq(s)
    PROVE  DOMAIN s = 1 .. Len(s) /\ Len(s) \in Nat
  BY DEF IsSeq

\* One element more.
LEMMA AppendSeq ==
    ASSUME NEW s, NEW e, IsSeq(s)
    PROVE  /\ IsSeq(Append(s, e)) /\ Len(Append(s, e)) = Len(s) + 1
           /\ DOMAIN Append(s, e) = 1 .. Len(s) + 1
           /\ \A i \in 1 .. Len(s) : Append(s, e)[i] = s[i]
           /\ Append(s, e)[Len(s) + 1] = e
           /\ ToSet(Append(s, e)) = ToSet(s) \cup {e}
  <1> DEFINE S == {s[i] : i \in 1 .. Len(s)} \cup {e}
             a == Append(s, e)
  <1>1. s \in Seq(S) /\ e \in S
    BY SeqOfElements
  <1>2. Len(s) \in Nat /\ DOMAIN s = 1 .. Len(s)
    BY SeqDomain
  <1> HIDE DEF S
  <1>3. /\ a \in Seq(S) /\ Len(a) = Len(s) + 1
        /\ \A i \in 1 .. Len(s) : a[i] = s[i]
        /\ a[Len(s) + 1] = e
    BY <1>1, <1>2
  <1>4. DOMAIN a = 1 .. Len(s) + 1
    BY <1>2, <1>3
  <1>5. IsSeq(a)
    <2> HIDE DEF a
    <2>1. a \in [1 .. Len(s) + 1 -> S]
      BY <1>2, <1>3
    <2>2. a = [i \in 1 .. Len(s) + 1 |-> a[i]]
      BY <2>1
    <2> QED
      BY <1>2, <1>3, <2>2 DEF IsSeq
  <1>6. ToSet(a) = ToSet(s) \cup {e}
    <2>1. 1 .. Len(s) + 1 = (1 .. Len(s)) \cup {Len(s) + 1}
      BY <1>2
    <2> HIDE DEF a
    <2> QED
      BY <1>2, <1>3, <1>4, <2>1 DEF ToSet
  <1> QED
    BY <1>3, <1>4, <1>5, <1>6

\* The least of some numbers.
LEMMA LeastIs ==
    ASSUME NEW T, T \subseteq Nat, T # {}
    PROVE  \E x \in T : \A y \in T : x <= y
  <1>1. PICK x \in T : \A y \in T : <<y, x>> \notin OpToRel(<, Nat)
    BY NatLessThanWellFounded, WFMin
  <1>2. \A y \in T : <<y, x>> \in OpToRel(<, Nat) <=> y < x
    BY DEF OpToRel
  <1>3. ASSUME NEW y \in T PROVE x <= y
    <2>1. ~(y < x) /\ x \in Nat /\ y \in Nat
      BY <1>1, <1>2
    <2> QED
      BY <2>1
  <1> QED
    BY <1>3

\* The least of some numbers is one of them.
LEMMA MinIn ==
    ASSUME NEW T, T \subseteq Nat, T # {}
    PROVE  Min(T) \in T
  <1>1. PICK x \in T : \A y \in T : x <= y
    BY LeastIs
  <1> QED
    BY <1>1 DEF Min

\* project_find_commit finds a commit of that name.
LEMMA FirstFound ==
    ASSUME NEW h, IsSeq(h), NEW id, Found(h, id) # {}
    PROVE  First(h, id) \in DOMAIN h /\ h[First(h, id)].id = id
  <1>1. Found(h, id) \subseteq Nat
    BY SeqDomain DEF Found
  <1>2. First(h, id) \in Found(h, id)
    BY <1>1, MinIn DEF First
  <1> QED
    BY <1>2 DEF Found

(***************************************************************************)
(* What a command makes of one file.                                       *)
(***************************************************************************)

\* What has the history and the current commit of a good file is one.
LEMMA SameHistory ==
    ASSUME NEW p, NEW q, FileOK(p), IsFile(q), q.history = p.history, q.current = p.current
    PROVE  FileOK(q) /\ Extends(p, q)
  <1>1. Len(p.history) \in Nat
    BY SeqDomain DEF FileOK, IsHistory
  <1>2. Extends(p, q)
    BY <1>1 DEF Extends, Kept
  <1> QED
    BY <1>2 DEF FileOK, Tree

\* A revert only moves the current commit.
LEMMA RevertedOK ==
    ASSUME NEW p, FileOK(p), NEW i \in DOMAIN p.history
    PROVE  FileOK(Reverted(p, i)) /\ Extends(p, Reverted(p, i))
  <1> DEFINE q == Reverted(p, i)
  <1>1. IsFile(q) /\ q.history = p.history /\ q.current = p.history[i].id
    <2>1. DOMAIN p = FileFields
      BY DEF FileOK, IsFile
    <2>2. q.history = p.history /\ q.current = p.history[i].id /\ DOMAIN q = FileFields
      BY <2>1 DEF Reverted, FileFields
    <2> QED
      BY <2>1, <2>2 DEF IsFile, Reverted
  <1> HIDE DEF q
  <1>2. Len(p.history) \in Nat /\ p.history # <<>>
    BY SeqDomain DEF FileOK, IsHistory
  <1>3. Extends(p, q)
    BY <1>1, <1>2 DEF Extends, Kept
  <1>4. InTurn(q.history) => Tree(q)
    BY <1>1, <1>2 DEF FileOK, Tree, HistoryIds
  <1> QED
    BY <1>1, <1>2, <1>3, <1>4 DEF FileOK, q

\* The parent of a new commit gets a child, and nothing else of the older ones
\* changes.
Parented(p, id) ==
    IF Found(p.history, p.current) = {} THEN p.history
    ELSE WithChild(p.history, First(p.history, p.current), id)

\* So the older commits keep all but their children.
LEMMA ParentedOK ==
    ASSUME NEW p, FileOK(p), NEW id
    PROVE  /\ IsHistory(Parented(p, id)) /\ Len(Parented(p, id)) = Len(p.history)
           /\ DOMAIN Parented(p, id) = DOMAIN p.history
           /\ \A i \in DOMAIN p.history :
                  /\ Kept(p.history[i], Parented(p, id)[i])
                  /\ ToSet(Parented(p, id)[i].children)
                       = ToSet(p.history[i].children)
                         \cup IF /\ Found(p.history, p.current) # {}
                                 /\ i = First(p.history, p.current)
                              THEN {id} ELSE {}
  <1> DEFINE h == p.history
             k == First(h, p.current)
             old == Parented(p, id)
  <1>1. IsSeq(h) /\ DOMAIN h = 1 .. Len(h) /\ Len(h) \in Nat
    BY SeqDomain DEF FileOK, IsHistory
  <1>2. CASE Found(h, p.current) = {}
    <2>1. old = h
      BY <1>2 DEF Parented
    <2> QED
      BY <1>1, <1>2, <2>1 DEF FileOK, Kept
  <1>3. CASE Found(h, p.current) # {}
    <2>1. old = WithChild(h, k, id) /\ k \in DOMAIN h
      BY <1>1, <1>3, FirstFound DEF Parented
    <2> DEFINE grown == [h[k] EXCEPT !.children = Append(@, id)]
    <2>2. old = [h EXCEPT ![k] = grown]
      BY <2>1 DEF WithChild
    <2>3. /\ IsCommit(h[k]) /\ IsSeq(h[k].children) /\ h[k].id # NoParent
      BY <2>1 DEF FileOK, IsHistory
    <2>4. /\ IsCommit(grown) /\ Kept(h[k], grown) /\ grown.children = Append(h[k].children, id)
      BY <2>3 DEF IsCommit, CommitFields, Kept
    <2>5. IsSeq(grown.children) /\ ToSet(grown.children) = ToSet(h[k].children) \cup {id}
      BY <2>3, <2>4, AppendSeq
    <2> HIDE DEF grown, old, k
    <2>6. /\ DOMAIN old = DOMAIN h /\ old[k] = grown
          /\ \A i \in DOMAIN h \ {k} : old[i] = h[i]
      BY <2>1, <2>2
    <2>7. \E S : h \in [DOMAIN h -> S] /\ grown \in S
      <3>1. h \in [DOMAIN h -> {h[i] : i \in DOMAIN h} \cup {grown}]
        BY <1>1 DEF IsSeq
      <3> QED
        BY <3>1
    <2>8. Len(old) = Len(h) /\ IsSeq(old)
      <3>1. PICK S : h \in [DOMAIN h -> S] /\ grown \in S
        BY <2>7
      <3>2. old \in [1 .. Len(h) -> S]
        BY <1>1, <2>2, <3>1
      <3>3. old \in Seq(S) /\ Len(old) = Len(h)
        BY <1>1, <3>2
      <3>4. old = [i \in 1 .. Len(h) |-> old[i]]
        BY <3>2
      <3> QED
        BY <1>1, <3>3, <3>4 DEF IsSeq
    <2>9. IsHistory(old)
      <3>1. ASSUME NEW i \in DOMAIN h
            PROVE  IsCommit(old[i]) /\ IsSeq(old[i].children) /\ old[i].id # NoParent
        <4>1. CASE i = k
          BY <2>3, <2>4, <2>5, <2>6, <4>1 DEF Kept
        <4>2. CASE i # k
          BY <2>6, <4>2 DEF FileOK, IsHistory
        <4> QED
          BY <4>1, <4>2
      <3> QED
        BY <2>6, <2>8, <3>1 DEF IsHistory
    <2>10. \A i \in DOMAIN h :
             /\ Kept(h[i], old[i])
             /\ ToSet(old[i].children) = ToSet(h[i].children) \cup IF i = k THEN {id} ELSE {}
      <3> TAKE i \in DOMAIN h
      <3>1. CASE i = k
        BY <2>4, <2>5, <2>6, <3>1
      <3>2. CASE i # k
        BY <2>6, <3>2 DEF Kept
      <3> QED
        BY <3>1, <3>2
    <2> QED
      BY <1>3, <2>6, <2>8, <2>9, <2>10 DEF old, k
  <1> QED
    BY <1>2, <1>3

\* A commit whose name is new, or automatic.
NewName(h, id) == id # NoParent /\ (Found(h, id) = {} \/ id = Len(h))

\* No name is the absence of a parent.
LEMMA NamesNotParent ==
    ASSUME NEW id \in Ids
    PROVE  id # NoParent
  <1>1. CASE id \in UserIds
    BY <1>1, ProjectAssumption DEF NoParent
  <1>2. CASE id \in 0 .. MaxCommits
    <2>1. id \in Nat
      BY <1>2
    <2> QED
      BY <2>1 DEF NoParent
  <1> QED
    BY <1>1, <1>2 DEF Ids

\* Such a commit extends the history and leaves it a tree.
LEMMA CommittedOK ==
    ASSUME NEW p, FileOK(p), NEW id, NewName(p.history, id)
    PROVE  FileOK(Committed(p, id)) /\ Extends(p, Committed(p, id))
  <1> DEFINE h == p.history
             old == Parented(p, id)
             new == NewCommit(p, id)
             q == Committed(p, id)
             g == q.history
             L == Len(h)
  <1>1. IsFile(q) /\ q.history = Append(old, new) /\ q.current = id
    <2>1. q = [p EXCEPT !.history = Append(old, new), !.current = id]
      BY DEF Committed, Parented
    <2>2. DOMAIN p = FileFields
      BY DEF FileOK, IsFile
    <2> HIDE DEF q, old, new
    <2>3. q.history = Append(old, new) /\ q.current = id /\ DOMAIN q = FileFields
      BY <2>1, <2>2 DEF FileFields
    <2> QED
      BY <2>1, <2>2, <2>3 DEF IsFile
  <1>2. IsSeq(h) /\ DOMAIN h = 1 .. L /\ L \in Nat /\ \A i \in DOMAIN h : h[i].id # NoParent
    BY SeqDomain DEF FileOK, IsHistory
  <1>3. /\ IsHistory(old) /\ Len(old) = L /\ DOMAIN old = 1 .. L
        /\ \A i \in 1 .. L :
             /\ Kept(h[i], old[i])
             /\ ToSet(old[i].children)
                  = ToSet(h[i].children)
                    \cup IF Found(h, p.current) # {} /\ i = First(h, p.current) THEN {id} ELSE {}
    BY <1>2, ParentedOK
  <1>4. /\ new.id = id /\ new.parent = p.current /\ new.children = <<>>
        /\ IsCommit(new) /\ IsSeq(new.children)
    BY DEF NewCommit, IsCommit, CommitFields, IsSeq
  <1> HIDE DEF old, new, q
  <1>5. /\ IsSeq(g) /\ Len(g) = L + 1 /\ DOMAIN g = 1 .. L + 1
        /\ \A i \in 1 .. L : g[i] = old[i]
        /\ g[L + 1] = new
    BY <1>1, <1>3, AppendSeq DEF IsHistory
  <1>6. 1 .. L + 1 = (1 .. L) \cup {L + 1} /\ L + 1 \notin 1 .. L
    BY <1>2
  <1> HIDE DEF g
  <1>7. IsHistory(g)
    <2>1. ASSUME NEW i \in DOMAIN g
          PROVE  IsCommit(g[i]) /\ IsSeq(g[i].children) /\ g[i].id # NoParent
      <3>1. CASE i \in 1 .. L
        BY <1>3, <1>5, <3>1 DEF IsHistory
      <3>2. CASE i = L + 1
        BY <1>4, <1>5, <3>2 DEF NewName
      <3> QED
        BY <1>5, <1>6, <3>1, <3>2
    <2> QED
      BY <1>5, <2>1 DEF IsHistory
  <1>8. \A i \in 1 .. L : /\ Kept(h[i], g[i]) /\ g[i].id = h[i].id /\ g[i].parent = h[i].parent
    BY <1>3, <1>5 DEF Kept
  <1>9. Extends(p, q)
    BY <1>2, <1>5, <1>8 DEF Extends, g
  <1>10. ASSUME InTurn(g) PROVE Tree(q)
    <2>1. InTurn(h)
      BY <1>2, <1>5, <1>6, <1>8, <1>10 DEF InTurn
    <2>2. /\ h # <<>> => p.current \in HistoryIds(h)
          /\ Distinct(h) /\ Rooted(h) /\ Linked(h)
          /\ \A i \in 1 .. L : ToSet(h[i].children) \subseteq HistoryIds(h)
      BY <1>2, <2>1 DEF FileOK, Tree
    <2>3. \A i \in 1 .. L : h[i].id # id
      <3>1. CASE Found(h, id) = {}
        BY <1>2, <3>1 DEF Found
      <3>2. CASE id = L
        BY <1>2, <2>1, <3>2 DEF InTurn
      <3> QED
        BY <3>1, <3>2 DEF NewName
    <2>4. id \notin HistoryIds(h) /\ id # NoParent
      BY <1>2, <2>3 DEF HistoryIds, NewName
    <2>5. HistoryIds(g) = HistoryIds(h) \cup {id}
      BY <1>2, <1>4, <1>5, <1>6, <1>8 DEF HistoryIds
    <2>6. Distinct(g)
      BY <1>2, <1>4, <1>5, <1>6, <1>8, <2>2, <2>3 DEF Distinct
    <2>7. /\ L = 0 => p.current = NoParent
          /\ L # 0 => p.current \in HistoryIds(h)
      <3>1. L = 0 => h = <<>>
        BY <1>2 DEF IsSeq
      <3>2. L # 0 => h # <<>>
        OBVIOUS
      <3> QED
        BY <2>2, <3>1, <3>2 DEF FileOK
    <2>8. Rooted(g)
      <3>1. ASSUME NEW i \in 1 .. L
            PROVE  IF i = 1 THEN g[i].parent = NoParent
                   ELSE g[i].parent \in {g[j].id : j \in 1 .. i - 1}
        <4>1. IF i = 1 THEN h[i].parent = NoParent
              ELSE h[i].parent \in {h[j].id : j \in 1 .. i - 1}
          BY <1>2, <2>2, <3>1 DEF Rooted
        <4>2. \A j \in 1 .. i - 1 : j \in 1 .. L /\ g[j].id = h[j].id
          BY <1>2, <1>8, <3>1
        <4> QED
          BY <1>8, <4>1, <4>2
      <3>2. IF L + 1 = 1 THEN g[L + 1].parent = NoParent
            ELSE g[L + 1].parent \in {g[j].id : j \in 1 .. (L + 1) - 1}
        BY <1>2, <1>4, <1>5, <1>8, <2>7 DEF HistoryIds
      <3> QED
        BY <1>5, <1>6, <3>1, <3>2 DEF Rooted
    <2>9. \A i \in 1 .. L : id \notin ToSet(h[i].children)
      BY <2>2, <2>4
    <2>10. \A i \in 1 .. L : id \in ToSet(g[i].children) <=> h[i].id = p.current
      <3> TAKE i \in 1 .. L
      <3>1. CASE Found(h, p.current) = {}
        BY <1>2, <1>3, <1>5, <2>9, <3>1 DEF Found
      <3>2. CASE Found(h, p.current) # {}
        <4>1. First(h, p.current) \in 1 .. L /\ h[First(h, p.current)].id = p.current
          BY <1>2, <3>2, FirstFound
        <4>2. h[i].id = p.current <=> i = First(h, p.current)
          BY <1>2, <2>2, <4>1 DEF Distinct
        <4> QED
          BY <1>3, <1>5, <2>9, <3>2, <4>2
      <3> QED
        BY <3>1, <3>2
    <2>11. \A i, j \in 1 .. L : h[j].id \in ToSet(g[i].children) <=> h[j].id \in ToSet(h[i].children)
      BY <1>3, <1>5, <2>3
    <2>12. ToSet(new.children) = {}
      BY <1>4 DEF ToSet
    <2>13. p.current # id /\ \A i \in 1 .. L : h[i].parent # id
      <3>1. p.current # id
        BY <2>4, <2>7
      <3>2. \A i \in 1 .. L : h[i].parent \in HistoryIds(h) \cup {NoParent}
        <4> TAKE i \in 1 .. L
        <4>1. IF i = 1 THEN h[i].parent = NoParent
              ELSE h[i].parent \in {h[j].id : j \in 1 .. i - 1}
          BY <1>2, <2>2 DEF Rooted
        <4>2. \A j \in 1 .. i - 1 : j \in DOMAIN h
          BY <1>2
        <4> QED
          BY <4>1, <4>2 DEF HistoryIds
      <3> QED
        BY <2>4, <3>1, <3>2
    <2>14. Linked(g)
      <3>1. ASSUME NEW i \in DOMAIN g, NEW j \in DOMAIN g
            PROVE  g[j].parent = g[i].id <=> g[j].id \in ToSet(g[i].children)
        <4>1. CASE i \in 1 .. L /\ j \in 1 .. L
          BY <1>2, <1>8, <2>2, <2>11, <4>1 DEF Linked
        <4>2. CASE i \in 1 .. L /\ j = L + 1
          BY <1>4, <1>5, <1>8, <2>10, <4>2
        <4>3. CASE i = L + 1 /\ j \in 1 .. L
          BY <1>4, <1>5, <1>8, <2>12, <2>13, <4>3
        <4>4. CASE i = L + 1 /\ j = L + 1
          BY <1>4, <1>5, <2>12, <2>13, <4>4
        <4> QED
          BY <1>5, <1>6, <4>1, <4>2, <4>3, <4>4
      <3> QED
        BY <3>1 DEF Linked
    <2>15. \A i \in DOMAIN g : ToSet(g[i].children) \subseteq HistoryIds(g)
      <3>1. \A i \in 1 .. L : ToSet(g[i].children) \subseteq ToSet(h[i].children) \cup {id}
        BY <1>3, <1>5
      <3> QED
        BY <1>5, <1>6, <2>2, <2>5, <2>12, <3>1
    <2> QED
      BY <1>1, <2>5, <2>6, <2>8, <2>14, <2>15 DEF Tree, g
  <1>11. g # <<>>
    BY <1>2, <1>5
  <1> QED
    BY <1>1, <1>7, <1>9, <1>10, <1>11 DEF FileOK, g, q

(***************************************************************************)
(* Every command keeps ProjectInv and the commits.                         *)
(***************************************************************************)

\* A file that is not there has no history.
LEMMA NoProjectOK == FileOK(NoProject) /\ NoProject.history = <<>>
  <1>1. NoProject.history = <<>> /\ NoProject.current = NoParent /\ IsFile(NoProject)
    BY DEF NoProject, IsFile, FileFields
  <1>2. IsHistory(NoProject.history)
    BY <1>1 DEF IsHistory, IsSeq
  <1>3. Tree(NoProject)
    BY <1>1 DEF Tree, Distinct, Rooted, Linked
  <1> QED
    BY <1>1, <1>2, <1>3 DEF FileOK

\* Nor has one whose write was cut short.
LEMMA RestsOK ==
    ASSUME NEW p, FileOK(p), NEW q \in Rests(p)
    PROVE  FileOK(q) /\ q.history = <<>>
  <1>1. CASE q = NoProject
    BY <1>1, NoProjectOK
  <1>2. ASSUME NEW k, q = Cut(p, k) PROVE FileOK(q) /\ q.history = <<>>
    <2>1. DOMAIN p = FileFields
      BY DEF FileOK, IsFile
    <2>2. q.history = <<>> /\ q.current = NoParent /\ DOMAIN q = FileFields
      BY <1>2, <2>1 DEF Cut, FileFields
    <2>3. IsFile(q)
      BY <1>2, <2>1, <2>2 DEF IsFile, Cut
    <2>4. IsHistory(q.history)
      BY <2>2 DEF IsHistory, IsSeq
    <2>5. Tree(q)
      BY <2>2 DEF Tree, Distinct, Rooted, Linked
    <2> QED
      BY <2>2, <2>3, <2>4, <2>5 DEF FileOK
  <1> QED
    BY <1>1, <1>2 DEF Rests

\* A write leaves what was to be written or, if it is cut short, no history.
Outcome(f, p) ==
    \E q : /\ disk' = [disk EXCEPT ![f] = q] /\ FileOK(q)
           /\ Extends(p, q) \/ (f \in failed' /\ q.history = <<>>)

\* So does a write of what keeps the commits there were.
LEMMA WriteOutcome ==
    ASSUME NEW f, NEW p, NEW q, FileOK(q), Extends(p, q), Write(f, q)
    PROVE  Outcome(f, p)
  <1>1. CASE disk' = [disk EXCEPT ![f] = q]
    BY <1>1 DEF Outcome
  <1>2. ASSUME NEW rest \in Rests(q), disk' = [disk EXCEPT ![f] = rest],
               failed' = failed \cup {f}
        PROVE  Outcome(f, p)
    BY <1>2, RestsOK DEF Outcome
  <1> QED
    BY <1>1, <1>2 DEF Write

\* What a step does to the files: nothing, or a write of one of them.
LEMMA DiskStep ==
    ASSUME ProjectInv, [TrainerNext]_trainVars
    PROVE  UNCHANGED disk \/ \E f \in ProjectFiles : Outcome(f, disk[f])
  <1>1. project.file # "" => project.file \in ProjectFiles /\ FileOK(disk[project.file])
    BY DEF ProjectInv
  <1> DEFINE p == disk[project.file]
             Changed == project.file \in ProjectFiles /\ Outcome(project.file, p)
  <1>2. CASE Save
    <2>1. /\ IsFile(Packed(p)) /\ Packed(p).history = p.history /\ Packed(p).current = p.current
      BY DEF IsFile, FileFields, Packed
    <2>2. /\ project.file \in ProjectFiles /\ Write(project.file, Packed(p))
          /\ FileOK(Packed(p)) /\ Extends(p, Packed(p))
      BY <1>1, <1>2, <2>1, SameHistory DEF Save
    <2>3. Changed
      BY <2>2, WriteOutcome
    <2> QED
      BY <2>3
  <1>3. ASSUME NEW id \in Ids, Commit(id) PROVE Changed
    <2>1. /\ project.file # "" /\ Write(project.file, Committed(p, id))
          /\ (id \in UserIds /\ Found(p.history, id) = {}) \/ id = Len(p.history)
      BY <1>3 DEF Commit, HasFile
    <2>2. id # NoParent
      BY NamesNotParent
    <2>3. FileOK(Committed(p, id)) /\ Extends(p, Committed(p, id))
      BY <1>1, <2>1, <2>2, CommittedOK DEF NewName
    <2> QED
      BY <1>1, <2>1, <2>3, WriteOutcome
  <1>4. ASSUME NEW id \in Ids, Revert(id) PROVE Changed
    <2> DEFINE i == First(p.history, id)
    <2>1. /\ project.file # "" /\ Found(p.history, id) # {}
          /\ Write(project.file, Reverted(p, i))
      BY <1>4 DEF Revert, HasFile
    <2>2. i \in DOMAIN p.history
      BY <1>1, <2>1, FirstFound DEF FileOK, IsHistory
    <2>3. FileOK(Reverted(p, i)) /\ Extends(p, Reverted(p, i))
      BY <1>1, <2>1, <2>2, RevertedOK
    <2> QED
      BY <1>1, <2>1, <2>3, WriteOutcome
  <1>5. CASE \/ (DataCommand \/ FannCommand) /\ UNCHANGED <<project, disk, failed>>
             \/ NameProject \/ Restart \/ UNCHANGED trainVars
             \/ \E f \in ProjectFiles : SaveAs(f) \/ Load(f)
    BY <1>5 DEF NameProject, Restart, SaveAs, Load, trainVars
  <1> QED
    BY <1>2, <1>3, <1>4, <1>5 DEF TrainerNext, ProjectCommand

\* No file has a history at the start.
LEMMA ProjectStart == TrainerInit => ProjectInv
  <1> SUFFICES ASSUME TrainerInit PROVE ProjectInv
    OBVIOUS
  <1>1. \A f \in ProjectFiles : FileOK(disk[f])
    BY NoProjectOK DEF TrainerInit
  <1> QED
    BY <1>1 DEF TrainerInit, ProjectInv

\* Every step, and none.
LEMMA ProjectKeeps == ProjectInv /\ [TrainerNext]_trainVars => ProjectInv'
  <1> SUFFICES ASSUME ProjectInv, [TrainerNext]_trainVars PROVE ProjectInv'
    OBVIOUS
  <1>1. disk' = [f \in ProjectFiles |-> disk'[f]] /\ \A f \in ProjectFiles : FileOK(disk'[f])
    <2>1. CASE UNCHANGED disk
      BY <2>1 DEF ProjectInv
    <2>2. ASSUME NEW f \in ProjectFiles, NEW q, disk' = [disk EXCEPT ![f] = q], FileOK(q)
          PROVE  disk' = [g \in ProjectFiles |-> disk'[g]]
                 /\ \A g \in ProjectFiles : FileOK(disk'[g])
      BY <2>2 DEF ProjectInv
    <2> QED
      BY <2>1, <2>2, DiskStep DEF Outcome
  <1>2. project' \in [named : BOOLEAN, file : ProjectFiles \cup {""}]
    <2>1. \/ project' = project
          \/ project' = [project EXCEPT !.named = TRUE]
          \/ \E f \in ProjectFiles : project' = [named |-> TRUE, file |-> f]
          \/ project' = [named |-> FALSE, file |-> ""]
      BY DEF TrainerNext, ProjectCommand, NameProject, Save, SaveAs, Load, Commit, Revert, Restart,
             trainVars
    <2>2. project \in [named : BOOLEAN, file : ProjectFiles \cup {""}]
      BY DEF ProjectInv
    <2>3. [project EXCEPT !.named = TRUE] \in [named : BOOLEAN, file : ProjectFiles \cup {""}]
      BY <2>2
    <2>4. \A b \in BOOLEAN, f \in ProjectFiles \cup {""} :
             [named |-> b, file |-> f] \in [named : BOOLEAN, file : ProjectFiles \cup {""}]
      OBVIOUS
    <2> QED
      BY <2>1, <2>2, <2>3, <2>4
  <1>3. failed' \subseteq ProjectFiles
    <2>1. \/ failed' = failed
          \/ /\ project.file # ""
             /\ failed' = failed \cup {project.file} \/ failed' = failed \ {project.file}
      BY DEF TrainerNext, ProjectCommand, NameProject, Save, SaveAs, Load, Commit, Revert, Restart,
             HasFile, Write, trainVars
    <2> QED
      BY <2>1 DEF ProjectInv
  <1> QED
    BY <1>1, <1>2, <1>3 DEF ProjectInv

\* A step takes no commit out of a file and changes none, unless it cuts a write
\* short.
LEMMA StepKeepsCommits ==
    ASSUME ProjectInv, [TrainerNext]_trainVars, NEW f \in ProjectFiles
    PROVE  Extends(disk[f], disk'[f]) \/ (f \in failed' /\ disk'[f].history = <<>>)
  <1>1. Extends(disk[f], disk[f])
    <2>1. Len(disk[f].history) \in Nat
      BY SeqDomain DEF ProjectInv, FileOK, IsHistory
    <2> QED
      BY <2>1 DEF Extends, Kept
  <1>2. CASE UNCHANGED disk
    BY <1>1, <1>2
  <1>3. ASSUME NEW g \in ProjectFiles, Outcome(g, disk[g])
        PROVE  Extends(disk[f], disk'[f]) \/ (f \in failed' /\ disk'[f].history = <<>>)
    <2>1. PICK q : /\ disk' = [disk EXCEPT ![g] = q]
                   /\ Extends(disk[g], q) \/ (g \in failed' /\ q.history = <<>>)
      BY <1>3 DEF Outcome
    <2>2. CASE f = g
      BY <2>1, <2>2 DEF ProjectInv
    <2>3. CASE f # g
      BY <1>1, <2>1, <2>3 DEF ProjectInv
    <2> QED
      BY <2>2, <2>3
  <1> QED
    BY <1>2, <1>3, DiskStep

(***************************************************************************)
(* Sequences that are built up step by step.                               *)
(***************************************************************************)

\* Induction over numbers, for a set of them.
LEMMA UpTo ==
    ASSUME NEW l \in Nat, NEW n \in Nat, NEW G, l \in G, \A m \in l .. n : m \in G => m + 1 \in G
    PROVE  \A m \in l .. n : m \in G
  <1> SUFFICES ASSUME NEW k \in l .. n, k \notin G PROVE FALSE
    OBVIOUS
  <1> DEFINE T == {m \in l .. n : m \notin G}
  <1>1. T \subseteq Nat /\ T # {}
    OBVIOUS
  <1>2. PICK x \in T : \A y \in T : x <= y
    BY <1>1, LeastIs
  <1>3. x \in l .. n /\ x \notin G /\ x # l
    BY <1>2
  <1>4. x - 1 \in l .. n /\ ~(x <= x - 1) /\ (x - 1) + 1 = x
    BY <1>3
  <1>5. x - 1 \in G
    BY <1>2, <1>4
  <1> QED
    BY <1>3, <1>4, <1>5

\* A sequence of sequences, one after the other, is a sequence of their elements.
LEMMA FlattenIs ==
    ASSUME NEW S, NEW ss \in Seq(Seq(S))
    PROVE  FlattenSeq(ss) \in Seq(S)
  <1> DEFINE n == Len(ss)
             Step(g) == [i \in 1 .. n |-> IF i = 1 THEN ss[i] ELSE g[i - 1] \o ss[i]]
             flatten == CHOOSE g : g = Step(g)
  <1>1. n \in Nat /\ \A i \in 1 .. n : ss[i] \in Seq(S)
    BY ElementOfSeq
  <1>2. n # 0 => FlattenSeq(ss) = flatten[n]
    BY DEF FlattenSeq
  <1>3. n = 0 => FlattenSeq(ss) = <<>>
    <2>1. n = 0 => FlattenSeq(ss) = ss
      BY DEF FlattenSeq
    <2> QED
      BY <2>1, EmptySeq
  <1> HIDE DEF n
  <1>4. CASE n # 0
    <2> DEFINE Good(f, m) == /\ f \in [1 .. m -> Seq(S)]
                             /\ \A i \in 1 .. m : f[i] = IF i = 1 THEN ss[i] ELSE f[i - 1] \o ss[i]
               G == {m \in 1 .. n + 1 : m = n + 1 \/ \E f : Good(f, m)}
    <2>1. 1 \in G
      <3> DEFINE f == [i \in 1 .. 1 |-> ss[1]]
      <3>1. ss[1] \in Seq(S)
        BY <1>1, <1>4
      <3>2. f \in [1 .. 1 -> Seq(S)] /\ \A i \in 1 .. 1 : i = 1 /\ f[i] = ss[i]
        BY <3>1
      <3> HIDE DEF f
      <3>3. Good(f, 1)
        BY <3>2
      <3> QED
        BY <1>1, <3>3
    <2>2. ASSUME NEW m \in 1 .. n, m \in G PROVE m + 1 \in G
      <3>1. m + 1 \in 1 .. n + 1
        BY <1>1
      <3>2. CASE m + 1 = n + 1
        BY <3>1, <3>2
      <3>3. CASE m + 1 # n + 1
        <4>1. m + 1 \in 1 .. n /\ m # n + 1
          BY <1>1, <3>3
        <4>2. PICK f : Good(f, m)
          BY <2>2, <4>1
        <4> DEFINE h == [i \in 1 .. m + 1 |-> IF i = m + 1 THEN f[m] \o ss[m + 1] ELSE f[i]]
        <4>3. f[m] \o ss[m + 1] \in Seq(S)
          BY <1>1, <4>1, <4>2, ConcatProperties
        <4>4. h \in [1 .. m + 1 -> Seq(S)]
          <5>1. \A i \in 1 .. m + 1 : i = m + 1 \/ i \in 1 .. m
            BY <1>1
          <5> QED
            BY <4>2, <4>3, <5>1
        <4>5. ASSUME NEW i \in 1 .. m + 1
              PROVE  h[i] = IF i = 1 THEN ss[i] ELSE h[i - 1] \o ss[i]
          <5>1. CASE i = m + 1
            <6>1. i # 1 /\ i - 1 = m /\ h[m] = f[m]
              BY <1>1, <5>1
            <6> QED
              BY <5>1, <6>1
          <5>2. CASE i # m + 1
            <6>1. i \in 1 .. m /\ (i # 1 => i - 1 \in 1 .. m /\ i - 1 # m + 1 /\ i - 1 \in 1 .. m + 1)
              BY <1>1, <5>2
            <6>2. h[i] = f[i] /\ (i # 1 => h[i - 1] = f[i - 1])
              BY <5>2, <6>1
            <6> QED
              BY <4>2, <6>1, <6>2
          <5> QED
            BY <5>1, <5>2
        <4> HIDE DEF h
        <4>6. Good(h, m + 1)
          BY <4>4, <4>5
        <4> QED
          BY <3>1, <4>6
      <3> QED
        BY <3>2, <3>3
    <2> HIDE DEF G
    <2>3. n \in G
      <3>1. \A m \in 1 .. n : m \in G
        BY <1>1, <2>1, <2>2, UpTo
      <3>2. n \in 1 .. n
        BY <1>1, <1>4
      <3> QED
        BY <3>1, <3>2
    <2>4. PICK f : Good(f, n)
      <3>1. n # n + 1
        BY <1>1
      <3> QED
        BY <2>3, <3>1 DEF G
    <2>5. f = Step(f)
      BY <2>4
    <2> HIDE DEF Step
    <2>6. flatten = Step(flatten)
      BY <2>5
    <2> HIDE DEF flatten
    <2>7. \A i \in 1 .. n : flatten[i] = IF i = 1 THEN ss[i] ELSE flatten[i - 1] \o ss[i]
      BY <2>6 DEF Step
    <2> DEFINE H == {m \in 1 .. n + 1 : m = n + 1 \/ flatten[m] \in Seq(S)}
    <2>8. 1 \in H
      BY <1>1, <1>4, <2>7
    <2>9. ASSUME NEW m \in 1 .. n, m \in H PROVE m + 1 \in H
      <3>1. CASE m + 1 = n + 1
        BY <1>1, <3>1
      <3>2. CASE m + 1 # n + 1
        <4>1. m + 1 \in 1 .. n /\ m # n + 1 /\ m + 1 # 1 /\ (m + 1) - 1 = m
          BY <1>1, <3>2
        <4>2. flatten[m] \in Seq(S) /\ flatten[m + 1] = flatten[m] \o ss[m + 1]
          BY <2>7, <2>9, <4>1
        <4>3. flatten[m + 1] \in Seq(S)
          BY <1>1, <4>1, <4>2, ConcatProperties
        <4> QED
          BY <1>1, <4>1, <4>3
      <3> QED
        BY <3>1, <3>2
    <2> HIDE DEF H
    <2>10. n \in H
      <3>1. \A m \in 1 .. n : m \in H
        BY <1>1, <2>8, <2>9, UpTo
      <3>2. n \in 1 .. n
        BY <1>1, <1>4
      <3> QED
        BY <3>1, <3>2
    <2>11. flatten[n] \in Seq(S)
      <3>1. n # n + 1
        BY <1>1
      <3> QED
        BY <2>10, <3>1 DEF H
    <2> QED
      BY <1>2, <1>4, <2>11
  <1>5. CASE n = 0
    BY <1>3, <1>5
  <1> QED
    BY <1>4, <1>5

\* The first element with a property goes: what stays is of the same kind.
LEMMA DroppedIs ==
    ASSUME NEW S, NEW es \in Seq(S), NEW name
    PROVE  Dropped(es, name) \in Seq(S)
  <1> DEFINE I == {i \in 1 .. Len(es) : es[i].name = name}
             k == Min(I)
  <1>1. Len(es) \in Nat /\ \A i \in 1 .. Len(es) : es[i] \in S
    BY ElementOfSeq
  <1>2. CASE I = {}
    <2>1. Dropped(es, name) = es
      BY <1>2 DEF Dropped, RemoveFirstMatch
    <2> QED
      BY <2>1
  <1>3. CASE I # {}
    <2>1. Dropped(es, name) = SubSeq(es, 1, k - 1) \o SubSeq(es, k + 1, Len(es))
      BY <1>3 DEF Dropped, RemoveFirstMatch, RemoveAt, SelectInSeq
    <2>2. k \in 1 .. Len(es)
      <3>1. I \subseteq Nat
        OBVIOUS
      <3>2. k \in I
        BY <1>3, <3>1, MinIn
      <3> QED
        BY <3>2
    <2> HIDE DEF k
    <2>3. SubSeq(es, 1, k - 1) \in Seq(S)
      <3>1. 1 \in Int /\ k - 1 \in Int /\ \A i \in 1 .. k - 1 : es[i] \in S
        BY <1>1, <2>2
      <3> QED
        BY <3>1, SubSeqProperties
    <2>4. SubSeq(es, k + 1, Len(es)) \in Seq(S)
      <3>1. k + 1 \in Int /\ Len(es) \in Int /\ \A i \in k + 1 .. Len(es) : es[i] \in S
        BY <1>1, <2>2
      <3> QED
        BY <3>1, SubSeqProperties
    <2> QED
      BY <2>1, <2>3, <2>4, ConcatProperties
  <1> QED
    BY <1>2, <1>3

\* The greatest index of a set that has the last one.
LEMMA MaxLast ==
    ASSUME NEW n \in Nat, NEW s \in SUBSET (1 .. n + 1), n + 1 \in s
    PROVE  Max(s) = n + 1
  <1>1. \A y \in s : n + 1 >= y
    OBVIOUS
  <1>2. Max(s) \in s /\ \A y \in s : Max(s) >= y
    BY <1>1 DEF Max
  <1>3. Max(s) \in 1 .. n + 1 /\ Max(s) >= n + 1
    BY <1>2
  <1> QED
    BY <1>3

\* So it is when some elements go, one after the other.
LEMMA WithoutIs ==
    ASSUME NEW S, NEW es \in Seq(S), NEW N, NEW names \in Seq(N)
    PROVE  Without(es, names) \in Seq(S)
  <1> DEFINE n == Len(names)
             Next(g, s) == IF s = {} THEN es ELSE Dropped(g[s \ {Max(s)}], names[Max(s)])
             Step(g) == [s \in SUBSET DOMAIN names |-> Next(g, s)]
             iter == CHOOSE g : g = Step(g)
  <1>1. n \in Nat /\ DOMAIN names = 1 .. n
    BY ElementOfSeq
  <1>2. Without(es, names) = iter[DOMAIN names]
    BY DEF Without, FoldLeft, MapThenFoldSet
  <1> HIDE DEF n
  <1> DEFINE Good(f, m) == /\ f \in [SUBSET (1 .. m) -> Seq(S)]
                           /\ \A s \in SUBSET (1 .. m) : f[s] = Next(f, s)
             G == {m \in Nat : \E f : Good(f, m)}
  <1>4. 0 \in G
    <2> DEFINE f == [s \in SUBSET (1 .. 0) |-> es]
    <2>1. 1 .. 0 = {}
      OBVIOUS
    <2>2. f \in [SUBSET (1 .. 0) -> Seq(S)] /\ \A s \in SUBSET (1 .. 0) : f[s] = es /\ s = {}
      BY <2>1
    <2> HIDE DEF f
    <2>3. Good(f, 0)
      BY <2>2
    <2> QED
      BY <2>3
  <1>5. ASSUME NEW m \in 0 .. n, m \in G PROVE m + 1 \in G
    <2>1. PICK f : Good(f, m)
      BY <1>5
    <2> DEFINE h == [s \in SUBSET (1 .. m + 1) |->
                       IF m + 1 \in s THEN Dropped(f[s \ {m + 1}], names[m + 1]) ELSE f[s]]
    <2>2. \A s \in SUBSET (1 .. m + 1) :
            /\ m + 1 \in s => s \ {m + 1} \in SUBSET (1 .. m)
            /\ m + 1 \notin s => s \in SUBSET (1 .. m)
      OBVIOUS
    <2>3. h \in [SUBSET (1 .. m + 1) -> Seq(S)]
      <3>1. ASSUME NEW s \in SUBSET (1 .. m + 1)
            PROVE  (IF m + 1 \in s THEN Dropped(f[s \ {m + 1}], names[m + 1]) ELSE f[s]) \in Seq(S)
        <4>1. CASE m + 1 \in s
          <5>1. f[s \ {m + 1}] \in Seq(S)
            BY <2>1, <2>2, <4>1
          <5> QED
            BY <4>1, <5>1, DroppedIs
        <4>2. CASE m + 1 \notin s
          BY <2>1, <2>2, <4>2
        <4> QED
          BY <4>1, <4>2
      <3> QED
        BY <3>1
    <2>4. ASSUME NEW s \in SUBSET (1 .. m) PROVE s \in SUBSET (1 .. m + 1) /\ h[s] = f[s]
      <3>1. s \in SUBSET (1 .. m + 1) /\ m + 1 \notin s
        BY <2>4
      <3> QED
        BY <3>1
    <2>5. ASSUME NEW s \in SUBSET (1 .. m + 1)
          PROVE  h[s] = Next(h, s)
      <3>1. CASE m + 1 \in s
        <4>1. Max(s) = m + 1
          BY <3>1, MaxLast
        <4>2. s \ {m + 1} \in SUBSET (1 .. m)
          BY <2>2, <3>1
        <4>3. h[s \ {m + 1}] = f[s \ {m + 1}]
          BY <2>4, <4>2
        <4>4. h[s] = Dropped(f[s \ {m + 1}], names[m + 1]) /\ s # {}
          BY <3>1
        <4> HIDE DEF h
        <4> QED
          BY <4>1, <4>3, <4>4
      <3>2. CASE m + 1 \notin s
        <4>1. s \in SUBSET (1 .. m)
          BY <2>2, <3>2
        <4>2. h[s] = f[s] /\ f[s] = Next(f, s)
          BY <2>1, <2>4, <4>1
        <4>3. s # {} => s \ {Max(s)} \in SUBSET (1 .. m)
          BY <4>1
        <4>4. s # {} => h[s \ {Max(s)}] = f[s \ {Max(s)}]
          BY <2>4, <4>3
        <4> HIDE DEF h
        <4> QED
          BY <4>2, <4>4
      <3> QED
        BY <3>1, <3>2
    <2> HIDE DEF h
    <2>6. Good(h, m + 1)
      BY <2>3, <2>5
    <2>7. m + 1 \in Nat
      OBVIOUS
    <2> HIDE DEF Good
    <2> QED
      BY <2>6, <2>7
  <1> HIDE DEF G
  <1>6. n \in G
    <2>1. \A m \in 0 .. n : m \in G
      BY <1>1, <1>4, <1>5, UpTo
    <2> QED
      BY <1>1, <2>1
  <1>7. PICK f : Good(f, n)
    BY <1>6 DEF G
  <1>8. f = Step(f)
    <2>1. f = [s \in SUBSET (1 .. n) |-> f[s]]
      BY <1>7
    <2> QED
      BY <1>1, <1>7, <2>1
  <1> HIDE DEF Step
  <1>9. iter = Step(iter)
    BY <1>8
  <1> HIDE DEF iter
  <1>10. \A s \in SUBSET (1 .. n) : iter[s] = Next(iter, s)
    BY <1>1, <1>9 DEF Step
  <1> DEFINE H == {m \in Nat : \A s \in SUBSET (1 .. m) : s \in SUBSET (1 .. n) => iter[s] \in Seq(S)}
  <1>11. 0 \in H
    <2>1. 1 .. 0 = {}
      OBVIOUS
    <2>2. iter[{}] = es
      BY <1>10
    <2> QED
      BY <2>1, <2>2
  <1>12. ASSUME NEW m \in 0 .. n, m \in H PROVE m + 1 \in H
    <2> SUFFICES ASSUME NEW s \in SUBSET (1 .. m + 1), s \in SUBSET (1 .. n)
                 PROVE  iter[s] \in Seq(S)
      OBVIOUS
    <2>1. CASE m + 1 \in s
      <3>1. Max(s) = m + 1 /\ s # {} /\ s \ {m + 1} \in SUBSET (1 .. m)
            /\ s \ {m + 1} \in SUBSET (1 .. n)
        BY <2>1, MaxLast
      <3>2. iter[s \ {m + 1}] \in Seq(S)
        BY <1>12, <3>1
      <3>3. iter[s] = Dropped(iter[s \ {m + 1}], names[m + 1])
        BY <1>10, <3>1
      <3> QED
        BY <3>2, <3>3, DroppedIs
    <2>2. CASE m + 1 \notin s
      <3>1. s \in SUBSET (1 .. m)
        BY <2>2
      <3> QED
        BY <1>12, <3>1
    <2> QED
      BY <2>1, <2>2
  <1> HIDE DEF H
  <1>13. n \in H
    <2>1. \A m \in 0 .. n : m \in H
      BY <1>1, <1>11, <1>12, UpTo
    <2> QED
      BY <1>1, <2>1
  <1>14. iter[1 .. n] \in Seq(S)
    BY <1>1, <1>13 DEF H
  <1> QED
    BY <1>1, <1>2, <1>14

(***************************************************************************)
(* The data in memory, and the commands data and fann.                     *)
(***************************************************************************)

Entry == [name : Names, input : Io, output : Io]

\* The sets whose rows have the widths of a network, and those with rows at all.
Narrow(size) == {e \in Entry : /\ e.input.rows \in Seq({size["input"]})
                               /\ e.output.rows \in Seq({size["output"]})}
Fitting(size) == {e \in Narrow(size) : ~Bare(e)}

\* What is saved of data has its types, and fits while nothing has happened that
\* could make it unfit.
Saved(w, p) ==
    /\ p.size \in Sizes /\ p.net \in NetFiles \cup {""} /\ p.entries \in Seq(Entry)
    /\ w = {} => p.entries \in Seq(Fitting(p.size))
SavedFile(w, p) ==
    /\ Saved(w, p)
    /\ p.current \in {p.history[i].id : i \in DOMAIN p.history} \cup {NoParent}
    /\ \A i \in DOMAIN p.history :
           /\ Saved(w, p.history[i]) /\ p.history[i].id \in Ids
           /\ p.history[i].parent \in Ids \cup {NoParent}
           /\ ToSet(p.history[i].children) \subseteq Ids

MemoryOK ==
    /\ DataTypeOK
    /\ why = {} => /\ entries \in Seq(Fitting(opts.size)) /\ ann \in {NoNet, opts.size}
                   /\ ~unfit
FilesOK == \A f \in ProjectFiles : SavedFile(why, disk[f])

\* A sequence whose elements are of one more kind.
LEMMA Retyped ==
    ASSUME NEW S, NEW s \in Seq(S), NEW T, \A i \in 1 .. Len(s) : s[i] \in T
    PROVE  s \in Seq(T)
  <1>1. s \in [1 .. Len(s) -> S] /\ Len(s) \in Nat
    OBVIOUS
  <1>2. s \in [1 .. Len(s) -> T]
    BY <1>1
  <1> QED
    BY <1>1, <1>2

\* What stands in a sequence is one of its elements.
LEMMA SetOfSeq ==
    ASSUME NEW S, NEW s \in Seq(S)
    PROVE  ToSet(s) \subseteq S /\ s \in Seq(ToSet(s))
  <1>1. DOMAIN s = 1 .. Len(s) /\ Len(s) \in Nat /\ \A i \in 1 .. Len(s) : s[i] \in S
    BY ElementOfSeq
  <1>2. \A i \in 1 .. Len(s) : s[i] \in ToSet(s)
    BY <1>1 DEF ToSet
  <1> QED
    BY <1>1, <1>2, Retyped DEF ToSet

\* The sizes are numbers, and those of no network differ from any.
LEMMA SizesAre ==
    /\ NoOptions.size \in Sizes
    /\ NoNet \notin Sizes
    /\ \A z \in Sizes : /\ z["input"] \in Nat /\ z["output"] \in Nat
                        /\ \A s \in Sides : z[s] \in 0 .. MaxSize[s]
    /\ \A z \in Sizes, s \in Sides : \A n \in 0 .. MaxSize[s] : [z EXCEPT ![s] = n] \in Sizes
  <1>1. MaxSize["input"] \in Nat /\ MaxSize["output"] \in Nat
    BY TrainDataAssumption
  <1>2. NoOptions.size \in Sizes
    BY <1>1 DEF NoOptions, Sizes, Sides
  <1>3. NoNet \notin Sizes
    BY <1>1 DEF NoNet, Sizes
  <1>4. \A z \in Sizes : /\ z["input"] \in Nat /\ z["output"] \in Nat
                         /\ \A s \in Sides : z[s] \in 0 .. MaxSize[s]
    BY <1>1 DEF Sizes, Sides
  <1>5. \A z \in Sizes, s \in Sides : \A n \in 0 .. MaxSize[s] : [z EXCEPT ![s] = n] \in Sizes
    BY <1>1 DEF Sizes, Sides
  <1> QED
    BY <1>2, <1>3, <1>4, <1>5

\* Reading a file gives rows of the width asked for, and so much of a type.
LEMMA RereadIs ==
    ASSUME NEW io \in Io, NEW n \in Nat
    PROVE  /\ Reread(io, n) \in Io
           /\ io.type = "file" \/ io.rows \in Seq({n}) => Reread(io, n).rows \in Seq({n})
  <1> DEFINE lines == IF io.file = "" \/ ~Readable(io, n) THEN 0 ELSE Contents[io.file].lines
             rows == [i \in 1 .. lines |-> n]
  <1>1. lines \in Nat
    BY TrainDataAssumption DEF Io
  <1>2. io.type # "file" => Reread(io, n) = io
    BY DEF Reread
  <1>3. io.type = "file" => Reread(io, n) = [io EXCEPT !.rows = rows]
    BY DEF Reread
  <1> HIDE DEF lines
  <1>4. rows \in Seq({n}) /\ rows \in Seq(Nat)
    BY <1>1
  <1> HIDE DEF rows
  <1>5. [io EXCEPT !.rows = rows] \in Io /\ [io EXCEPT !.rows = rows].rows = rows
    BY <1>4 DEF Io
  <1> QED
    BY <1>2, <1>3, <1>4, <1>5

\* A set with rows of the right widths fits, or is bare.
LEMMA PutKeeps ==
    ASSUME MemoryOK, NEW es, Put(es), UNCHANGED <<opts, ann, nets, unfit>>,
           es \in Seq(Entry), why = {} => es \in Seq(Narrow(opts.size))
    PROVE  MemoryOK' /\ why \subseteq why'
  <1>1. /\ entries' = es
        /\ why' = why \cup IF \E e \in ToSet(es) : Bare(e) THEN {"bare"} ELSE {}
    BY DEF Put
  <1>2. why \subseteq why'
    BY <1>1
  <1>3. why' \subseteq {"resized", "bare", "foreign"}
    BY <1>1 DEF MemoryOK, DataTypeOK
  <1>4. DataTypeOK'
    BY <1>1, <1>3 DEF MemoryOK, DataTypeOK, Entry
  <1>5. ASSUME why' = {} PROVE es \in Seq(Fitting(opts.size)) /\ ann \in {NoNet, opts.size} /\ ~unfit
    <2>1. why = {} /\ \A e \in ToSet(es) : ~Bare(e)
      BY <1>1, <1>5
    <2>2. es \in Seq(Narrow(opts.size))
      BY <2>1
    <2>3. \A i \in 1 .. Len(es) : es[i] \in Narrow(opts.size) /\ es[i] \in ToSet(es)
      BY <2>2, ElementOfSeq DEF ToSet
    <2>4. \A i \in 1 .. Len(es) : es[i] \in Fitting(opts.size)
      BY <2>1, <2>3 DEF Fitting
    <2> QED
      BY <2>1, <2>2, <2>4, Retyped DEF MemoryOK
  <1> QED
    BY <1>1, <1>2, <1>4, <1>5 DEF MemoryOK

\* The set of a name that is listed is one of the sets.
LEMMA EntryOfIs ==
    ASSUME DataTypeOK, NEW name, Listed(name)
    PROVE  EntryOf(name) \in ToSet(entries) /\ EntryOf(name) \in Entry
  <1>1. entries \in Seq(Entry)
    BY DEF DataTypeOK, Entry
  <1>2. \E e \in ToSet(entries) : e.name = name
    BY DEF Listed, ToSet
  <1>3. EntryOf(name) \in ToSet(entries)
    BY <1>2 DEF EntryOf
  <1> QED
    BY <1>1, <1>3, SetOfSeq

\* While nothing has happened, each set is as wide as the network.
LEMMA SetsFit ==
    ASSUME MemoryOK, why = {}, NEW e \in ToSet(entries)
    PROVE  e \in Fitting(opts.size) /\ e \in Narrow(opts.size)
  BY SetOfSeq DEF MemoryOK, Fitting

\* While nothing has happened, each set is narrow, whatever else it is.
LEMMA SetsNarrow ==
    ASSUME MemoryOK, why = {}
    PROVE  entries \in Seq(Narrow(opts.size))
  <1>1. entries \in Seq(Fitting(opts.size)) /\ Fitting(opts.size) \subseteq Narrow(opts.size)
    BY DEF MemoryOK, Fitting
  <1> QED
    BY <1>1, ElementOfSeq, Retyped

\* data add
LEMMA AddKeeps ==
    ASSUME MemoryOK, NEW name \in Names, NEW inp \in Inputs, NEW out \in Outputs,
           Add(name, inp, out)
    PROVE  MemoryOK' /\ why \subseteq why'
  <1> DEFINE z == opts.size
             new == [name |-> name, input |-> Reread(inp, z["input"]),
                     output |-> Reread(out, z["output"])]
             es == Append(entries, new)
  <1>1. z \in Sizes /\ z["input"] \in Nat /\ z["output"] \in Nat /\ entries \in Seq(Entry)
    BY SizesAre DEF MemoryOK, DataTypeOK, Entry
  <1>2. ASSUME NEW n \in Nat, NEW io \in Values(n)
        PROVE  io \in Io /\ io.rows \in Seq({n})
    <2>1. io = [type |-> "vector", file |-> "", groups |-> n, rows |-> <<n>>]
      BY <1>2 DEF Values
    <2>2. <<n>> \in Seq({n}) /\ <<n>> \in Seq(Nat)
      BY <1>2
    <2>3. "vector" \in {"file", "vector", "matrix"} /\ "" \in DataFiles \cup {""}
      OBVIOUS
    <2> QED
      BY <1>2, <2>1, <2>2, <2>3 DEF Io
  <1>3. ASSUME NEW f \in DataFiles, NEW n \in Nat
        PROVE  FromFile(f, n) \in Io /\ FromFile(f, n).type = "file"
    <2>1. <<>> \in Seq(Nat) /\ "file" \in {"file", "vector", "matrix"}
      BY EmptySeq
    <2>2. FromFile(f, n) = [type |-> "file", file |-> f, groups |-> n, rows |-> <<>>]
      BY DEF FromFile
    <2>3. f \in DataFiles \cup {""} /\ n \in Nat
      BY <1>3
    <2>4. [type |-> "file", file |-> f, groups |-> n, rows |-> <<>>] \in Io
      BY <2>1, <2>3 DEF Io
    <2> QED
      BY <2>2, <2>4
  <1>4. inp \in Io /\ (inp.type = "file" \/ inp.rows \in Seq({z["input"]}))
    <2>1. CASE inp \in Values(z["input"])
      BY <1>1, <1>2, <2>1
    <2>2. CASE inp \in {FromFile(f, g) : f \in DataFiles, g \in 1 .. MaxSize["input"]}
      <3>1. PICK f \in DataFiles, g \in 1 .. MaxSize["input"] : inp = FromFile(f, g)
        BY <2>2
      <3>2. g \in Nat
        BY <3>1
      <3> QED
        BY <1>3, <3>1, <3>2
    <2> QED
      BY <2>1, <2>2 DEF Inputs
  <1>5. out \in Io /\ (out.type = "file" \/ out.rows \in Seq({z["output"]}))
    <2>1. CASE out \in Values(z["output"])
      BY <1>1, <1>2, <2>1
    <2>2. CASE out \in {FromFile(f, z["output"]) : f \in DataFiles}
      <3>1. PICK f \in DataFiles : out = FromFile(f, z["output"])
        BY <2>2
      <3> QED
        BY <1>1, <1>3, <3>1
    <2> QED
      BY <2>1, <2>2 DEF Outputs
  <1>6. new \in Entry /\ new \in Narrow(z)
    <2>1. /\ Reread(inp, z["input"]) \in Io /\ Reread(inp, z["input"]).rows \in Seq({z["input"]})
          /\ Reread(out, z["output"]) \in Io /\ Reread(out, z["output"]).rows \in Seq({z["output"]})
      BY <1>1, <1>4, <1>5, RereadIs
    <2> QED
      BY <2>1 DEF Narrow, Entry
  <1> HIDE DEF new
  <1>7. es \in Seq(Entry)
    BY <1>1, <1>6, AppendProperties
  <1>8. ASSUME why = {} PROVE es \in Seq(Narrow(z))
    <2>1. entries \in Seq(Narrow(z))
      BY <1>8, SetsNarrow
    <2> QED
      BY <1>6, <2>1, AppendProperties
  <1>9. Put(es) /\ UNCHANGED <<opts, ann, nets, unfit>>
    BY DEF Add, new
  <1> QED
    BY <1>7, <1>8, <1>9, PutKeeps

\* data reload
LEMMA ReloadKeeps ==
    ASSUME MemoryOK, NEW name, Reload(name)
    PROVE  MemoryOK' /\ why \subseteq why'
  <1> DEFINE z == opts.size
             e == EntryOf(name)
             ok == Readable(e.input, z["input"])
             new == [e EXCEPT !.input = Reread(@, z["input"]),
                              !.output = IF ok THEN Reread(@, z["output"]) ELSE @]
             es == [i \in DOMAIN entries |-> IF entries[i] = e THEN new ELSE entries[i]]
  <1>1. z \in Sizes /\ z["input"] \in Nat /\ z["output"] \in Nat /\ entries \in Seq(Entry)
    BY SizesAre DEF MemoryOK, DataTypeOK, Entry
  <1>2. e \in ToSet(entries) /\ e \in Entry
    BY EntryOfIs DEF Reload, MemoryOK
  <1>3. Put(es) /\ UNCHANGED <<opts, ann, nets, unfit>>
    BY DEF Reload
  <1>4. e.input \in Io /\ e.output \in Io
    BY <1>2 DEF Entry
  <1>5. /\ Reread(e.input, z["input"]) \in Io
        /\ Reread(e.output, z["output"]) \in Io
        /\ e.input.rows \in Seq({z["input"]}) =>
             Reread(e.input, z["input"]).rows \in Seq({z["input"]})
        /\ e.output.rows \in Seq({z["output"]}) =>
             Reread(e.output, z["output"]).rows \in Seq({z["output"]})
    BY <1>1, <1>4, RereadIs
  <1>6. /\ new.input = Reread(e.input, z["input"])
        /\ new.output = Reread(e.output, z["output"]) \/ new.output = e.output
        /\ new \in Entry
    BY <1>2, <1>4, <1>5 DEF Entry
  <1>7. e \in Narrow(z) => new \in Narrow(z)
    BY <1>5, <1>6 DEF Narrow
  <1> HIDE DEF new, e
  <1>8. ASSUME NEW T, entries \in Seq(T), new \in T PROVE es \in Seq(T)
    <2>1. DOMAIN entries = 1 .. Len(entries) /\ Len(entries) \in Nat
          /\ \A i \in 1 .. Len(entries) : entries[i] \in T
      BY <1>8, ElementOfSeq
    <2> QED
      BY <1>8, <2>1
  <1>9. es \in Seq(Entry)
    BY <1>1, <1>6, <1>8
  <1>10. ASSUME why = {} PROVE es \in Seq(Narrow(z))
    <2>1. entries \in Seq(Narrow(z))
      BY <1>10, SetsNarrow
    <2>2. new \in Narrow(z)
      BY <1>2, <1>7, <1>10, SetsFit
    <2> QED
      BY <1>8, <2>1, <2>2
  <1> HIDE DEF es
  <1> QED
    BY <1>3, <1>9, <1>10, PutKeeps

\* data remove
LEMMA RemoveKeeps ==
    ASSUME MemoryOK, NEW name, RemoveEntry(name)
    PROVE  MemoryOK' /\ why \subseteq why'
  <1> DEFINE es == Without(entries, <<name>>)
  <1>1. entries \in Seq(Entry)
    BY DEF MemoryOK, DataTypeOK, Entry
  <1>a. <<name>> \in Seq({name})
    OBVIOUS
  <1>2. es \in Seq(Entry) /\ (why = {} => es \in Seq(Narrow(opts.size)))
    BY <1>1, <1>a, SetsNarrow, WithoutIs
  <1>3. Put(es) /\ UNCHANGED <<opts, ann, nets, unfit>>
    BY DEF RemoveEntry
  <1> QED
    BY <1>2, <1>3, PutKeeps

\* The rows of some listed sets are of the kind that the rows of each are.
LEMMA RowsOfIs ==
    ASSUME DataTypeOK, NEW names \in Seq(Names), \A n \in ToSet(names) : Listed(n),
           NEW side \in Sides, NEW T, \A e \in ToSet(entries) : e[side].rows \in Seq(T)
    PROVE  RowsOf(names, side) \in Seq(T)
  <1> DEFINE ss == [i \in DOMAIN names |-> EntryOf(names[i])[side].rows]
  <1>1. DOMAIN names = 1 .. Len(names) /\ Len(names) \in Nat
        /\ \A i \in DOMAIN names : names[i] \in ToSet(names)
    BY ElementOfSeq DEF ToSet
  <1>2. \A i \in DOMAIN names : EntryOf(names[i])[side].rows \in Seq(T)
    BY <1>1, EntryOfIs
  <1>3. ss \in Seq(Seq(T))
    BY <1>1, <1>2
  <1> HIDE DEF ss
  <1>4. FlattenSeq(ss) \in Seq(T)
    BY <1>3, FlattenIs
  <1> QED
    BY <1>4 DEF RowsOf, ss

\* data merge
LEMMA MergeKeeps ==
    ASSUME MemoryOK, NEW inps \in MergeLists, NEW outs \in MergeLists, NEW name \in Names,
           NEW rm \in BOOLEAN, Merge(inps, outs, name, rm)
    PROVE  MemoryOK' /\ why \subseteq why'
  <1> DEFINE z == opts.size
             merged == [name |-> name, input |-> Matrix(RowsOf(inps, "input")),
                        output |-> Matrix(RowsOf(outs, "output"))]
             gone == (IF rm THEN inps \o outs ELSE <<>>) \o <<name>>
             rest == Without(entries, gone)
             es == Append(rest, merged)
  <1>1. z \in Sizes /\ z["input"] \in Nat /\ z["output"] \in Nat /\ entries \in Seq(Entry)
    BY SizesAre DEF MemoryOK, DataTypeOK, Entry
  <1>2. inps \in Seq(Names) /\ outs \in Seq(Names)
    BY TrainDataAssumption
  <1>3. gone \in Seq(Names)
    <2>1. inps \o outs \in Seq(Names)
      BY <1>2, ConcatProperties
    <2>2. (IF rm THEN inps \o outs ELSE <<>>) \in Seq(Names)
      BY <2>1, EmptySeq
    <2>3. <<name>> \in Seq(Names)
      OBVIOUS
    <2> QED
      BY <2>2, <2>3, ConcatProperties
  <1>4. /\ \A n \in ToSet(inps) : Listed(n)
        /\ \A n \in ToSet(outs) : Listed(n)
    <2>1. /\ \A i \in 1 .. Len(inps) : (inps \o outs)[i] = inps[i]
          /\ \A i \in 1 .. Len(outs) : (inps \o outs)[i + Len(inps)] = outs[i]
          /\ DOMAIN (inps \o outs) = 1 .. Len(inps) + Len(outs)
          /\ DOMAIN inps = 1 .. Len(inps) /\ DOMAIN outs = 1 .. Len(outs)
          /\ Len(inps) \in Nat /\ Len(outs) \in Nat
      BY <1>2
    <2>2. \A n \in ToSet(inps \o outs) : Listed(n)
      BY DEF Merge
    <2>3. \A i \in DOMAIN inps : i \in DOMAIN (inps \o outs)
      BY <2>1
    <2>4. \A i \in DOMAIN outs : i + Len(inps) \in DOMAIN (inps \o outs)
      BY <2>1
    <2>5. ToSet(inps) \subseteq ToSet(inps \o outs)
      BY <2>1, <2>3 DEF ToSet
    <2>6. ToSet(outs) \subseteq ToSet(inps \o outs)
      BY <2>1, <2>4 DEF ToSet
    <2> QED
      BY <2>2, <2>5, <2>6
  <1>5. \A e \in ToSet(entries) : e["input"].rows \in Seq(Nat) /\ e["output"].rows \in Seq(Nat)
    <2>1. ToSet(entries) \subseteq Entry
      BY <1>1, SetOfSeq
    <2> QED
      BY <2>1 DEF Entry, Io
  <1>6. RowsOf(inps, "input") \in Seq(Nat) /\ RowsOf(outs, "output") \in Seq(Nat)
    BY <1>2, <1>4, <1>5, RowsOfIs DEF MemoryOK, Sides
  <1>7. ASSUME why = {}
        PROVE  RowsOf(inps, "input") \in Seq({z["input"]}) /\ RowsOf(outs, "output") \in Seq({z["output"]})
    <2>1. \A e \in ToSet(entries) : e["input"].rows \in Seq({z["input"]})
                                    /\ e["output"].rows \in Seq({z["output"]})
      BY <1>7, SetsFit DEF Narrow
    <2> QED
      BY <1>2, <1>4, <2>1, RowsOfIs DEF MemoryOK, Sides
  <1>8. ASSUME NEW rows \in Seq(Nat) PROVE Matrix(rows) \in Io /\ Matrix(rows).rows = rows
    <2>1. "matrix" \in {"file", "vector", "matrix"} /\ "" \in DataFiles \cup {""} /\ 0 \in Nat
      OBVIOUS
    <2>2. Matrix(rows) = [type |-> "matrix", file |-> "", groups |-> 0, rows |-> rows]
      BY DEF Matrix
    <2>3. [type |-> "matrix", file |-> "", groups |-> 0, rows |-> rows] \in Io
      BY <1>8, <2>1 DEF Io
    <2>4. Matrix(rows) \in Io
      BY <2>2, <2>3
    <2>5. Matrix(rows).rows = rows
      BY DEF Matrix
    <2> QED
      BY <2>4, <2>5
  <1>9. merged \in Entry /\ (why = {} => merged \in Narrow(z))
    <2>1. merged \in Entry
      BY <1>6, <1>8 DEF Entry
    <2>2. /\ merged.input.rows = RowsOf(inps, "input")
          /\ merged.output.rows = RowsOf(outs, "output")
      BY <1>6, <1>8
    <2> HIDE DEF merged
    <2> QED
      BY <1>7, <2>1, <2>2 DEF Narrow
  <1> HIDE DEF merged, gone
  <1>10. rest \in Seq(Entry) /\ (why = {} => rest \in Seq(Narrow(z)))
    BY <1>1, <1>3, SetsNarrow, WithoutIs
  <1> HIDE DEF rest
  <1>11. es \in Seq(Entry) /\ (why = {} => es \in Seq(Narrow(z)))
    BY <1>9, <1>10, AppendProperties
  <1>12. Put(es) /\ UNCHANGED <<opts, ann, nets, unfit>>
    BY DEF Merge, merged, gone, rest
  <1> QED
    BY <1>11, <1>12, PutKeeps

\* While nothing has happened, validate_fann_opts and the network find rows of
\* their own width in every set.
LEMMA NoMisfit ==
    ASSUME MemoryOK, why = {}
    PROVE  ~Misfit /\ ~ReadsNothing
  <1> DEFINE z == opts.size
             C == {c \in [n : Nat, rows : Seq(Nat)] : c.rows # <<>> /\ c.rows \in Seq({c.n})}
             pair(i) == <<[n |-> z["input"], rows |-> entries[i].input.rows],
                          [n |-> z["output"], rows |-> entries[i].output.rows]>>
             ss == [i \in DOMAIN entries |-> pair(i)]
  <1>1. z["input"] \in Nat /\ z["output"] \in Nat /\ entries \in Seq(Entry)
        /\ entries \in Seq(Fitting(z))
    BY SizesAre DEF MemoryOK, DataTypeOK, Entry
  <1>2. DOMAIN entries = 1 .. Len(entries) /\ Len(entries) \in Nat
    BY <1>1
  <1>3. ASSUME NEW i \in DOMAIN entries PROVE pair(i) \in Seq(C)
    <2>1. entries[i] \in Fitting(z) /\ entries[i] \in Entry
      BY <1>1, <1>2, ElementOfSeq
    <2>2. /\ entries[i].input.rows \in Seq(Nat) /\ entries[i].output.rows \in Seq(Nat)
      BY <2>1 DEF Entry, Io
    <2>3. /\ entries[i].input.rows # <<>> /\ entries[i].output.rows # <<>>
          /\ entries[i].input.rows \in Seq({z["input"]})
          /\ entries[i].output.rows \in Seq({z["output"]})
      BY <2>1 DEF Fitting, Narrow, Bare
    <2> DEFINE a == [n |-> z["input"], rows |-> entries[i].input.rows]
               b == [n |-> z["output"], rows |-> entries[i].output.rows]
    <2>4. a \in C /\ b \in C
      BY <1>1, <2>2, <2>3
    <2> HIDE DEF a, b, C
    <2>5. <<a, b>> \in Seq(C)
      BY <2>4
    <2> QED
      BY <2>5 DEF a, b
  <1> HIDE DEF pair
  <1>4. ss \in Seq(Seq(C))
    <2> HIDE DEF C
    <2>1. ss \in [1 .. Len(entries) -> Seq(C)]
      BY <1>2, <1>3
    <2> HIDE DEF ss
    <2> QED
      BY <1>2, <2>1
  <1>5. Checked = FlattenSeq(ss)
    BY DEF Checked, pair
  <1> HIDE DEF ss
  <1>6. Checked \in Seq(C)
    BY <1>4, <1>5, FlattenIs
  <1>7. ASSUME NEW c \in C PROVE c.rows # <<>> /\ Head(c.rows) = c.n /\ ToSet(c.rows) = {c.n}
    <2>1. c.rows \in Seq({c.n}) /\ c.rows # <<>>
      BY <1>7
    <2>2. Len(c.rows) \in Nat /\ Len(c.rows) # 0 /\ DOMAIN c.rows = 1 .. Len(c.rows)
      BY <2>1, EmptySeq
    <2>3. \A i \in DOMAIN c.rows : c.rows[i] = c.n
      BY <2>1, <2>2, ElementOfSeq
    <2>4. 1 \in DOMAIN c.rows
      BY <2>2
    <2>5. Head(c.rows) = c.rows[1]
      BY <2>1
    <2> QED
      BY <2>1, <2>3, <2>4, <2>5 DEF ToSet
  <1> HIDE DEF C
  <1>8. \A i \in DOMAIN Checked : Checked[i] \in C
    BY <1>6, ElementOfSeq
  <1>9. Stops = {}
    BY <1>7, <1>8 DEF Stops
  <1>10. \A c \in ToSet(Checked) : ToSet(c.rows) = {c.n}
    BY <1>7, <1>8 DEF ToSet
  <1>11. ann \in {NoNet, opts.size}
    BY DEF MemoryOK
  <1> QED
    BY <1>9, <1>10, <1>11 DEF Misfit, ReadsNothing

\* data, of any kind.
LEMMA DataKeeps ==
    ASSUME MemoryOK, DataCommand
    PROVE  MemoryOK' /\ why \subseteq why'
  BY AddKeeps, ReloadKeeps, RemoveKeeps, MergeKeeps DEF DataCommand

\* fann inputs, fann outputs: new sizes for sets or a network are told of.
LEMMA ResizeKeeps ==
    ASSUME MemoryOK, NEW side \in Sides, NEW n \in 0 .. MaxSize[side], Resize(side, n)
    PROVE  MemoryOK' /\ why \subseteq why'
  <1> DEFINE z == [opts.size EXCEPT ![side] = n]
             told == opts.size[side] # n /\ (entries # <<>> \/ ann # NoNet)
  <1>1. /\ opts \in [size : Sizes, file : NetFiles \cup {""}, trained : BOOLEAN]
        /\ opts' = [opts EXCEPT !.size = z]
        /\ UNCHANGED <<entries, ann, nets, unfit>>
        /\ why' = why \cup IF told THEN {"resized"} ELSE {}
    BY DEF MemoryOK, DataTypeOK, Resize
  <1>2. z \in Sizes
    BY <1>1, SizesAre
  <1> HIDE DEF z
  <1>3. opts' \in [size : Sizes, file : NetFiles \cup {""}, trained : BOOLEAN] /\ opts'.size = z
    BY <1>1, <1>2
  <1>4. DataTypeOK'
    BY <1>1, <1>3 DEF MemoryOK, DataTypeOK
  <1>5. ASSUME why' = {}
        PROVE  entries \in Seq(Fitting(z)) /\ ann \in {NoNet, z} /\ ~unfit
    <2>1. why = {} /\ ~told
      BY <1>1, <1>5
    <2>2. CASE opts.size[side] = n
      <3>1. z = opts.size
        <4>1. opts.size \in Sizes
          BY <1>1
        <4> QED
          BY <2>2, <4>1 DEF z, Sizes, Sides
      <3> QED
        BY <2>1, <3>1 DEF MemoryOK
    <2>3. CASE entries = <<>> /\ ann = NoNet
      BY <2>1, <2>3, EmptySeq DEF MemoryOK
    <2> QED
      BY <2>1, <2>2, <2>3
  <1> QED
    BY <1>1, <1>3, <1>4, <1>5 DEF MemoryOK

\* The rest of fann: the network is only run on what fits.
LEMMA FannKeeps ==
    ASSUME MemoryOK, FannCommand
    PROVE  MemoryOK' /\ why \subseteq why'
  <1>1. opts \in [size : Sizes, file : NetFiles \cup {""}, trained : BOOLEAN]
    BY DEF MemoryOK, DataTypeOK
  <1>2. ASSUME NEW f \in NetFiles, SetNetFile(f) PROVE MemoryOK' /\ why \subseteq why'
    <2>1. /\ opts' = [opts EXCEPT !.file = f]
          /\ UNCHANGED <<entries, ann, nets, unfit, why>>
      BY <1>2 DEF SetNetFile
    <2>2. opts' \in [size : Sizes, file : NetFiles \cup {""}, trained : BOOLEAN]
          /\ opts'.size = opts.size
      BY <1>1, <2>1
    <2> QED
      BY <2>1, <2>2 DEF MemoryOK, DataTypeOK
  <1>3. CASE Train
    <2>1. /\ opts' = [opts EXCEPT !.trained = TRUE] /\ ann' = Created
          /\ unfit' = (unfit \/ Misfit) /\ UNCHANGED <<entries, nets, why>>
      BY <1>3 DEF Train
    <2>2. opts' \in [size : Sizes, file : NetFiles \cup {""}, trained : BOOLEAN]
          /\ opts'.size = opts.size
      BY <1>1, <2>1
    <2>3. /\ ann' \in Sizes \cup {NoNet} /\ (ann \in {NoNet, opts.size} => ann' = opts.size)
      BY <1>1, <2>1 DEF Created, MemoryOK, DataTypeOK
    <2>4. unfit' \in BOOLEAN
      BY <2>1
    <2>5. why = {} => ~unfit'
      BY <2>1, NoMisfit DEF MemoryOK
    <2> QED
      BY <2>1, <2>2, <2>3, <2>4, <2>5 DEF MemoryOK, DataTypeOK
  <1>4. CASE TrainRefusedByChance
    <2>1. /\ unfit' = TRUE /\ UNCHANGED <<opts, entries, ann, nets, why>> /\ why # {}
      BY <1>4, NoMisfit DEF TrainRefusedByChance
    <2> QED
      BY <2>1 DEF MemoryOK, DataTypeOK
  <1>5. CASE Validate
    <2>1. /\ unfit' = (unfit \/ Misfit) /\ UNCHANGED <<opts, entries, ann, nets, why>>
      BY <1>5 DEF Validate
    <2>2. unfit' \in BOOLEAN
      BY <2>1
    <2>3. why = {} => ~unfit'
      BY <2>1, NoMisfit DEF MemoryOK
    <2> QED
      BY <2>1, <2>2, <2>3 DEF MemoryOK, DataTypeOK
  <1>6. CASE SaveNet
    <2>1. PICK written \in {ann, NoNet} :
            /\ nets' = [nets EXCEPT ![opts.file] = written] /\ opts.file # ""
            /\ UNCHANGED <<opts, entries, ann, unfit, why>>
      BY <1>6 DEF SaveNet
    <2>2. opts.file \in NetFiles
      BY <1>1, <2>1
    <2> QED
      BY <2>1, <2>2 DEF MemoryOK, DataTypeOK
  <1>7. ASSUME NEW name \in Names, Test(name) PROVE MemoryOK' /\ why \subseteq why'
    <2> DEFINE e == EntryOf(name)
               bad == \/ unfit \/ ReadsNothing
                      \/ /\ e.input.type # "vector"
                         /\ ToSet(e.input.rows) # {opts.size["input"]} \/ ann # opts.size
    <2>1. /\ unfit' = bad /\ UNCHANGED <<opts, entries, ann, nets, why>>
          /\ Listed(name) /\ ann # NoNet
      BY <1>7 DEF Test
    <2>2. ASSUME why = {} PROVE ~bad
      <3>1. e \in Fitting(opts.size)
        BY <2>1, <2>2, EntryOfIs, SetsFit DEF MemoryOK
      <3>2. e.input.rows \in Seq({opts.size["input"]}) /\ e.input.rows # <<>>
        BY <3>1 DEF Fitting, Narrow, Bare
      <3> DEFINE rows == e.input.rows
                 w == opts.size["input"]
      <3>3. ToSet(rows) = {w}
        <4>1. Len(rows) \in Nat /\ Len(rows) # 0 /\ DOMAIN rows = 1 .. Len(rows)
          BY <3>2, EmptySeq
        <4>2. 1 \in DOMAIN rows /\ \A i \in DOMAIN rows : rows[i] = w
          BY <3>2, <4>1, ElementOfSeq
        <4> QED
          BY <4>2 DEF ToSet
      <3> QED
        BY <2>1, <2>2, <3>3, NoMisfit DEF MemoryOK
    <2>3. bad \in BOOLEAN
      OBVIOUS
    <2> HIDE DEF bad
    <2> QED
      BY <2>1, <2>2, <2>3 DEF MemoryOK, DataTypeOK
  <1> QED
    BY <1>2, <1>3, <1>4, <1>5, <1>6, <1>7, ResizeKeeps DEF FannCommand

\* unpack_project blanks the file names of a set.
Blank(e) == [e EXCEPT !.input.file = "", !.output.file = ""]

\* What it leaves of some sets are sets of their kind.
LEMMA UnpackedIs ==
    ASSUME NEW S, NEW es \in Seq(S), \A e \in S : Blank(e) \in S
    PROVE  Unpacked(es) \in Seq(S)
  <1>1. DOMAIN es = 1 .. Len(es) /\ Len(es) \in Nat /\ \A i \in 1 .. Len(es) : es[i] \in S
    BY ElementOfSeq
  <1>2. Unpacked(es) = [i \in DOMAIN es |-> Blank(es[i])]
    BY DEF Unpacked, Blank
  <1>3. [i \in DOMAIN es |-> Blank(es[i])] \in Seq(S)
    BY <1>1
  <1> QED
    BY <1>2, <1>3

\* What is unpacked is data again; a network of other sizes is told of.
LEMMA UnpackKeeps ==
    ASSUME MemoryOK, NEW p, Saved(why, p), Unpack(p)
    PROVE  MemoryOK' /\ why \subseteq why'
  <1> DEFINE net == IF p.net = "" THEN ann ELSE nets[p.net]
             es == Unpacked(p.entries)
  <1>1. /\ opts' = [size |-> p.size, file |-> p.net, trained |-> Trained(p)]
        /\ entries' = es /\ ann' = net /\ UNCHANGED <<nets, unfit>>
        /\ why' = why \cup IF net \notin {NoNet, p.size} THEN {"foreign"} ELSE {}
    BY DEF Unpack
  <1>2. opts' \in [size : Sizes, file : NetFiles \cup {""}, trained : BOOLEAN] /\ opts'.size = p.size
    <2>1. Trained(p) \in BOOLEAN
      BY DEF Trained
    <2>2. p.size \in Sizes /\ p.net \in NetFiles \cup {""}
      BY DEF Saved
    <2> QED
      BY <1>1, <2>1, <2>2
  <1>3. net \in Sizes \cup {NoNet}
    BY DEF MemoryOK, DataTypeOK, Saved
  <1> HIDE DEF net
  <1>4. ASSUME NEW e \in Entry
        PROVE  LET d == Blank(e)
               IN  /\ d \in Entry /\ d.input.rows = e.input.rows /\ d.output.rows = e.output.rows
    <2> DEFINE a == [e.input EXCEPT !.file = ""]
               b == [e.output EXCEPT !.file = ""]
               d == [e EXCEPT !.input = a, !.output = b]
    <2>1. e.input \in Io /\ e.output \in Io
      BY <1>4 DEF Entry
    <2>2. a \in Io /\ a.rows = e.input.rows /\ b \in Io /\ b.rows = e.output.rows
      BY <2>1 DEF Io
    <2>3. d = Blank(e)
      BY <1>4 DEF Entry, Blank
    <2> HIDE DEF a, b
    <2>4. d \in Entry /\ d.input = a /\ d.output = b
      BY <1>4, <2>2 DEF Entry
    <2> QED
      BY <2>2, <2>3, <2>4
  <1>5. ASSUME NEW e \in Fitting(p.size)
        PROVE  Blank(e) \in Fitting(p.size)
    <2> DEFINE d == Blank(e)
    <2>1. d \in Entry /\ d.input.rows = e.input.rows /\ d.output.rows = e.output.rows
      BY <1>4, <1>5 DEF Fitting, Narrow
    <2> HIDE DEF d
    <2>2. d \in Fitting(p.size)
      BY <1>5, <2>1 DEF Fitting, Narrow, Bare
    <2> QED
      BY <2>2 DEF d
  <1>7. es \in Seq(Entry)
    BY <1>4, UnpackedIs DEF Saved
  <1> HIDE DEF es
  <1>8. why = {} => es \in Seq(Fitting(p.size))
    BY <1>5, UnpackedIs DEF Saved, es
  <1>9. DataTypeOK'
    <2>1. why' \subseteq {"resized", "bare", "foreign"}
      BY <1>1 DEF MemoryOK, DataTypeOK
    <2> QED
      BY <1>1, <1>2, <1>3, <1>7, <2>1 DEF MemoryOK, DataTypeOK, Entry
  <1>10. why' = {} => why = {} /\ net \in {NoNet, p.size}
    BY <1>1
  <1> QED
    BY <1>1, <1>2, <1>8, <1>9, <1>10 DEF MemoryOK

(***************************************************************************)
(* Every command keeps what is saved.                                      *)
(***************************************************************************)

\* What was saved stays saved, whatever happens later.
LEMMA SavedLater ==
    ASSUME NEW p, NEW w, NEW v, w \subseteq v, SavedFile(w, p)
    PROVE  SavedFile(v, p)
  BY DEF SavedFile, Saved

\* A file that is not there saves nothing.
LEMMA NothingSaved == SavedFile({}, NoProject)
  <1>1. /\ NoProject.size = NoOptions.size /\ NoProject.net = "" /\ NoProject.entries = <<>>
        /\ NoProject.history = <<>> /\ NoProject.current = NoParent
    BY DEF NoProject
  <1>2. <<>> \in Seq(Entry) /\ <<>> \in Seq(Fitting(NoOptions.size)) /\ DOMAIN <<>> = {}
    BY EmptySeq
  <1> QED
    BY <1>1, <1>2, SizesAre DEF SavedFile, Saved

\* save_project
LEMMA PackedSaved ==
    ASSUME MemoryOK, NEW p, SavedFile(why, p)
    PROVE  SavedFile(why, Packed(p))
  <1>1. /\ Packed(p).size = opts.size /\ Packed(p).net = opts.file /\ Packed(p).entries = entries
        /\ Packed(p).history = p.history /\ Packed(p).current = p.current
    BY DEF Packed
  <1>2. /\ opts.size \in Sizes /\ opts.file \in NetFiles \cup {""} /\ entries \in Seq(Entry)
        /\ why = {} => entries \in Seq(Fitting(opts.size))
    BY DEF MemoryOK, DataTypeOK, Entry
  <1>3. Saved(why, Packed(p))
    BY <1>1, <1>2 DEF Saved
  <1> QED
    BY <1>1, <1>3 DEF SavedFile

\* A write that is cut short saves no more than it was to save.
LEMMA RestsSaved ==
    ASSUME NEW w, NEW p, FileOK(p), SavedFile(w, p), NEW q \in Rests(p)
    PROVE  SavedFile(w, q)
  <1>1. CASE q = NoProject
    BY <1>1, NothingSaved, SavedLater
  <1>2. ASSUME NEW k \in 0 .. Len(p.entries), q = Cut(p, k) PROVE SavedFile(w, q)
    <2> DEFINE es == SubSeq(p.entries, 1, k)
    <2>1. DOMAIN p = FileFields
      BY DEF FileOK, IsFile
    <2>2. /\ q.history = <<>> /\ q.current = NoParent
          /\ q.size = p.size /\ q.net = p.net /\ q.entries = es
      BY <1>2, <2>1 DEF Cut, FileFields
    <2>3. ASSUME NEW S, p.entries \in Seq(S) PROVE es \in Seq(S)
      <3>1. Len(p.entries) \in Nat
        BY <2>3
      <3>2. k \in Nat /\ k <= Len(p.entries)
        BY <1>2, <3>1
      <3>3. \A i \in 1 .. k : p.entries[i] \in S
        BY <2>3, <3>1, <3>2
      <3> QED
        BY <2>3, <3>1, <3>2, <3>3, SubSeqProperties
    <2> HIDE DEF es
    <2>4. Saved(w, q)
      BY <2>2, <2>3 DEF SavedFile, Saved
    <2>5. DOMAIN q.history = {}
      BY <2>2
    <2> QED
      BY <2>2, <2>4, <2>5 DEF SavedFile
  <1> QED
    BY <1>1, <1>2 DEF Rests

\* project_revert
LEMMA RevertedSaved ==
    ASSUME NEW w, NEW p, FileOK(p), SavedFile(w, p), NEW i \in DOMAIN p.history
    PROVE  SavedFile(w, Reverted(p, i))
  <1> DEFINE q == Reverted(p, i)
             c == p.history[i]
  <1>1. /\ q.size = c.size /\ q.net = c.net /\ q.entries = c.entries
        /\ q.history = p.history /\ q.current = c.id
    <2>1. DOMAIN p = FileFields
      BY DEF FileOK, IsFile
    <2> QED
      BY <2>1 DEF Reverted, FileFields
  <1> HIDE DEF q
  <1>2. Saved(w, q)
    BY <1>1 DEF SavedFile, Saved
  <1> QED
    BY <1>1, <1>2 DEF SavedFile, q

\* project_commit
LEMMA CommittedSaved ==
    ASSUME NEW w, NEW p, FileOK(p), SavedFile(w, p), NEW id \in Ids
    PROVE  SavedFile(w, Committed(p, id))
  <1> DEFINE h == p.history
             old == Parented(p, id)
             new == NewCommit(p, id)
             q == Committed(p, id)
             g == q.history
             L == Len(h)
  <1>1. /\ q.history = Append(old, new) /\ q.current = id
        /\ q.size = p.size /\ q.net = p.net /\ q.entries = p.entries
    <2>1. q = [p EXCEPT !.history = Append(old, new), !.current = id]
      BY DEF Committed, Parented
    <2>2. DOMAIN p = FileFields
      BY DEF FileOK, IsFile
    <2> HIDE DEF q, old, new
    <2> QED
      BY <2>1, <2>2 DEF FileFields
  <1>2. IsSeq(h) /\ DOMAIN h = 1 .. L /\ L \in Nat
    BY SeqDomain DEF FileOK, IsHistory
  <1>3. /\ IsHistory(old) /\ Len(old) = L /\ DOMAIN old = 1 .. L
        /\ \A i \in 1 .. L :
             /\ Kept(h[i], old[i])
             /\ ToSet(old[i].children) \subseteq ToSet(h[i].children) \cup {id}
    BY <1>2, ParentedOK
  <1>4. /\ new.id = id /\ new.parent = p.current /\ new.children = <<>>
        /\ new.size = p.size /\ new.net = p.net /\ new.entries = p.entries
    BY DEF NewCommit
  <1> HIDE DEF old, new, q
  <1>5. /\ Len(g) = L + 1 /\ DOMAIN g = 1 .. L + 1
        /\ \A i \in 1 .. L : g[i] = old[i]
        /\ g[L + 1] = new
    BY <1>1, <1>3, AppendSeq DEF IsHistory
  <1>6. 1 .. L + 1 = (1 .. L) \cup {L + 1}
    BY <1>2
  <1> HIDE DEF g
  <1>7. Saved(w, q)
    BY <1>1 DEF SavedFile, Saved
  <1>8. q.current \in {g[i].id : i \in DOMAIN g}
    BY <1>1, <1>4, <1>5, <1>6
  <1>9. ASSUME NEW i \in 1 .. L
        PROVE  /\ Saved(w, g[i]) /\ g[i].id \in Ids /\ g[i].parent \in Ids \cup {NoParent}
               /\ ToSet(g[i].children) \subseteq Ids
    <2>1. /\ Saved(w, h[i]) /\ h[i].id \in Ids /\ h[i].parent \in Ids \cup {NoParent}
          /\ ToSet(h[i].children) \subseteq Ids
      BY <1>2 DEF SavedFile
    <2>2. Kept(h[i], g[i]) /\ ToSet(g[i].children) \subseteq ToSet(h[i].children) \cup {id}
      BY <1>3, <1>5
    <2> QED
      BY <2>1, <2>2 DEF Kept, Saved
  <1>10. /\ Saved(w, new) /\ new.id \in Ids /\ new.parent \in Ids \cup {NoParent}
         /\ ToSet(new.children) \subseteq Ids
    <2>1. ToSet(new.children) = {}
      BY <1>4 DEF ToSet
    <2>2. Saved(w, new)
      BY <1>4 DEF SavedFile, Saved
    <2>3. p.current \in Ids \cup {NoParent}
      BY DEF SavedFile
    <2> QED
      BY <1>4, <2>1, <2>2, <2>3
  <1>11. \A i \in DOMAIN g :
           /\ Saved(w, g[i]) /\ g[i].id \in Ids /\ g[i].parent \in Ids \cup {NoParent}
           /\ ToSet(g[i].children) \subseteq Ids
    BY <1>5, <1>6, <1>9, <1>10
  <1> QED
    BY <1>7, <1>8, <1>11 DEF SavedFile, g, q

TrainerInv == ProjectInv /\ MemoryOK /\ FilesOK

\* Nothing is in memory at the start, and nothing saved.
LEMMA TrainerStart == TrainerInit => MemoryOK /\ FilesOK
  <1> SUFFICES ASSUME TrainerInit PROVE MemoryOK /\ FilesOK
    OBVIOUS
  <1>1. /\ opts = NoOptions /\ entries = <<>> /\ ann = NoNet /\ unfit = FALSE /\ why = {}
        /\ nets = [f \in NetFiles |-> NoNet] /\ disk = [f \in ProjectFiles |-> NoProject]
    BY DEF TrainerInit, DataInit
  <1>2. NoOptions \in [size : Sizes, file : NetFiles \cup {""}, trained : BOOLEAN]
    BY SizesAre DEF NoOptions
  <1>3. <<>> \in Seq([name : Names, input : Io, output : Io]) /\ <<>> \in Seq(Fitting(opts.size))
    BY EmptySeq
  <1>4. MemoryOK
    BY <1>1, <1>2, <1>3 DEF MemoryOK, DataTypeOK
  <1>5. FilesOK
    BY <1>1, NothingSaved DEF FilesOK
  <1> QED
    BY <1>4, <1>5

\* Every step, and none.
LEMMA TrainerKeeps == TrainerInv /\ [TrainerNext]_trainVars => MemoryOK' /\ FilesOK'
  <1> SUFFICES ASSUME TrainerInv, [TrainerNext]_trainVars PROVE MemoryOK' /\ FilesOK'
    OBVIOUS
  <1> USE DEF TrainerInv
  <1>1. project.file # "" => project.file \in ProjectFiles
    BY DEF ProjectInv
  <1>2. \A f \in ProjectFiles : FileOK(disk[f]) /\ SavedFile(why, disk[f])
    BY DEF ProjectInv, FilesOK
  <1>3. ASSUME why \subseteq why', UNCHANGED disk PROVE FilesOK'
    BY <1>2, <1>3, SavedLater DEF FilesOK
  <1>4. ASSUME NEW f \in ProjectFiles, NEW q, disk' = [disk EXCEPT ![f] = q],
               SavedFile(why, q), why \subseteq why'
        PROVE  FilesOK'
    <2>1. disk'[f] = q /\ \A g \in ProjectFiles \ {f} : disk'[g] = disk[g]
      BY <1>4 DEF ProjectInv
    <2>2. \A g \in ProjectFiles : SavedFile(why', disk'[g])
      BY <1>2, <1>4, <2>1, SavedLater
    <2> QED
      BY <2>1, <2>2 DEF FilesOK
  <1>5. ASSUME UNCHANGED dataVars PROVE MemoryOK' /\ UNCHANGED why
    <2>1. UNCHANGED <<opts, entries, ann, nets, unfit, why>>
      BY <1>5 DEF dataVars
    <2>2. MemoryOK
      OBVIOUS
    <2> HIDE DEF TrainerInv
    <2> QED
      BY <2>1, <2>2 DEF MemoryOK, DataTypeOK
  <1>13. ASSUME NEW f \in ProjectFiles, NEW q, Write(f, q), FileOK(q), SavedFile(why, q),
                why \subseteq why'
         PROVE  FilesOK'
    <2>1. PICK r : disk' = [disk EXCEPT ![f] = r] /\ (r = q \/ r \in Rests(q))
      BY <1>13 DEF Write
    <2>2. SavedFile(why, r)
      BY <1>13, <2>1, RestsSaved
    <2> QED
      BY <1>4, <1>13, <2>1, <2>2
  <1>6. CASE (DataCommand \/ FannCommand) /\ UNCHANGED <<project, disk, failed>>
    BY <1>3, <1>6, DataKeeps, FannKeeps
  <1>7. CASE NameProject \/ UNCHANGED trainVars \/ \E f \in ProjectFiles : SaveAs(f)
    <2>1. UNCHANGED dataVars /\ UNCHANGED disk
      BY <1>7 DEF NameProject, SaveAs, trainVars
    <2> QED
      BY <1>3, <1>5, <2>1
  <1>8. CASE Save
    <2> DEFINE p == disk[project.file]
    <2>1. /\ project.file \in ProjectFiles /\ UNCHANGED dataVars
          /\ Write(project.file, Packed(p))
      BY <1>1, <1>8 DEF Save
    <2>2. SavedFile(why, Packed(p))
      BY <1>2, <2>1, PackedSaved
    <2>3. IsFile(Packed(p)) /\ Packed(p).history = p.history /\ Packed(p).current = p.current
      BY DEF IsFile, FileFields, Packed
    <2>4. FileOK(Packed(p))
      BY <1>2, <2>1, <2>3, SameHistory
    <2> QED
      BY <1>5, <1>13, <2>1, <2>2, <2>4
  <1>9. ASSUME NEW f \in ProjectFiles, Load(f) PROVE MemoryOK' /\ FilesOK'
    <2>1. Unpack(disk[f]) /\ UNCHANGED disk /\ Saved(why, disk[f])
      BY <1>2, <1>9 DEF Load, SavedFile
    <2> QED
      BY <1>3, <2>1, UnpackKeeps
  <1>10. ASSUME NEW id \in Ids, Commit(id) PROVE MemoryOK' /\ FilesOK'
    <2> DEFINE p == disk[project.file]
    <2>1. /\ project.file \in ProjectFiles /\ UNCHANGED dataVars
          /\ Write(project.file, Committed(p, id))
          /\ (id \in UserIds /\ Found(p.history, id) = {}) \/ id = Len(p.history)
      BY <1>1, <1>10 DEF Commit, HasFile
    <2>2. SavedFile(why, Committed(p, id))
      BY <1>2, <2>1, CommittedSaved
    <2>3. id # NoParent
      BY NamesNotParent
    <2>4. FileOK(Committed(p, id))
      BY <1>2, <2>1, <2>3, CommittedOK DEF NewName
    <2> QED
      BY <1>5, <1>13, <2>1, <2>2, <2>4
  <1>11. ASSUME NEW id \in Ids, Revert(id) PROVE MemoryOK' /\ FilesOK'
    <2> DEFINE p == disk[project.file]
               i == First(p.history, id)
               q == Reverted(p, i)
    <2>1. /\ project.file \in ProjectFiles /\ Found(p.history, id) # {}
          /\ Write(project.file, q) /\ (Unpack(q) \/ UNCHANGED dataVars)
      BY <1>1, <1>11 DEF Revert, HasFile
    <2>2. i \in DOMAIN p.history
      BY <1>2, <2>1, FirstFound DEF FileOK, IsHistory
    <2>3. SavedFile(why, q) /\ FileOK(q)
      BY <1>2, <2>1, <2>2, RevertedSaved, RevertedOK
    <2> HIDE DEF q
    <2>4. MemoryOK' /\ why \subseteq why'
      <3>1. CASE Unpack(q)
        BY <2>3, <3>1, UnpackKeeps DEF SavedFile
      <3> QED
        BY <1>5, <2>1, <3>1
    <2> QED
      BY <1>13, <2>1, <2>3, <2>4
  <1>12. CASE Restart
    <2>1. /\ opts' = NoOptions /\ entries' = <<>> /\ ann' = NoNet
          /\ UNCHANGED <<nets, unfit, why, disk>>
      BY <1>12 DEF Restart
    <2>2. NoOptions \in [size : Sizes, file : NetFiles \cup {""}, trained : BOOLEAN]
      BY SizesAre DEF NoOptions
    <2>3. <<>> \in Seq([name : Names, input : Io, output : Io])
          /\ <<>> \in Seq(Fitting(NoOptions.size))
      BY EmptySeq
    <2>4. MemoryOK'
      BY <2>1, <2>2, <2>3 DEF MemoryOK, DataTypeOK
    <2> QED
      BY <1>3, <2>1, <2>4
  <1> QED
    BY <1>6, <1>7, <1>8, <1>9, <1>10, <1>11, <1>12 DEF TrainerNext, ProjectCommand

(***************************************************************************)
(* Theorems.                                                               *)
(***************************************************************************)

\* In every session each file holds a history that is a tree as far as its names
\* are in turn.
THEOREM ProjectInvCorrect == TrainerSpec => []ProjectInv
  BY ProjectStart, ProjectKeeps, PTL DEF TrainerSpec

\* project_commit, project_revert and save_project (project_handlers.cpp) keep the
\* history a tree with distinct ids whose current commit is one of them.
THEOREM HistoryIsTreeCorrect == TrainerSpec => []HistoryIsTree
  <1>1. ProjectInv => HistoryIsTree
    BY DEF ProjectInv, FileOK, Tree, InTurn, Distinct, Rooted, Linked, HistoryIds, HistoryIsTree
  <1> QED
    BY <1>1, ProjectInvCorrect, PTL

\* What was committed stays in its file as it was, whatever is saved, committed
\* or reverted after it, in this session or a later one; only a write that fails
\* loses commits, and it loses all of them.
THEOREM CommitsKeptCorrect == TrainerSpec => CommitsKept
  <1>1. ProjectInv /\ [TrainerNext]_trainVars =>
          [\A f \in ProjectFiles :
             LET h == disk[f].history
                 g == disk'[f].history
             IN  \/ Len(h) <= Len(g) /\ \A i \in DOMAIN h : Kept(h[i], g[i])
                 \/ f \in failed' /\ g = <<>>]_trainVars
    BY StepKeepsCommits DEF Extends
  <1> QED
    BY <1>1, ProjectInvCorrect, PTL DEF TrainerSpec, CommitsKept

\* Whatever is added, merged, saved, loaded and reverted, in any order of sessions.
THEOREM TrainerInvCorrect == TrainerSpec => []TrainerInv
  <1>1. TrainerInit => TrainerInv
    BY ProjectStart, TrainerStart DEF TrainerInv
  <1>2. TrainerInv /\ [TrainerNext]_trainVars => TrainerInv'
    BY ProjectKeeps, TrainerKeeps DEF TrainerInv
  <1> QED
    BY <1>1, <1>2, PTL DEF TrainerSpec

\* The data, the network and every project keep their types.
THEOREM TrainerTypesCorrect == TrainerSpec => []TrainerTypeOK
  <1>1. TrainerInv => TrainerTypeOK
    <2> SUFFICES ASSUME TrainerInv PROVE TrainerTypeOK
      OBVIOUS
    <2>1. /\ DataTypeOK /\ project \in [named : BOOLEAN, file : ProjectFiles \cup {""}]
          /\ failed \subseteq ProjectFiles
      BY DEF TrainerInv, MemoryOK, ProjectInv
    <2>2. ASSUME NEW f \in ProjectFiles
          PROVE  /\ disk[f].size \in Sizes /\ disk[f].net \in NetFiles \cup {""}
                 /\ \A h \in ToSet(disk[f].history) :
                      h.id \in Ids /\ h.parent \in Ids \cup {NoParent} /\ ToSet(h.children) \subseteq Ids
                 /\ disk[f].current \in {h.id : h \in ToSet(disk[f].history)} \cup {NoParent}
      <3>1. SavedFile(why, disk[f])
        BY DEF TrainerInv, FilesOK
      <3>2. disk[f].size \in Sizes /\ disk[f].net \in NetFiles \cup {""}
        BY <3>1 DEF SavedFile, Saved
      <3>3. ToSet(disk[f].history) = {disk[f].history[i] : i \in DOMAIN disk[f].history}
        BY DEF ToSet
      <3> QED
        BY <3>1, <3>2, <3>3 DEF SavedFile
    <2> QED
      BY <2>1, <2>2 DEF TrainerTypeOK
  <1> QED
    BY <1>1, TrainerInvCorrect, PTL

\* A network meets rows of other widths only after new sizes, a set without rows or
\* a project beside a network of other sizes, whatever the files hold.
THEOREM MisfitExplainedCorrect == TrainerSpec => []MisfitExplained
  <1>1. TrainerInv => MisfitExplained
    BY DEF TrainerInv, MemoryOK, MisfitExplained
  <1> QED
    BY <1>1, TrainerInvCorrect, PTL
=============================================================================
