------------------------------ MODULE CrashProofs ------------------------------
(***************************************************************************)
(* FsCrash for every disk, workload and number of deaths: the writes       *)
(* listed for a call are the call, one after the other.                    *)
(***************************************************************************)
EXTENDS FsCrash, TreeCallsProofs

--------------------------------------------------------------------------------
\* The disk after a sequence of writes

\* f[k] is the disk after the first k of n writes.
Steps(f, d, writes, n) ==
  /\ f[0] = d
  /\ \A k \in 1 .. n : f[k] = Written(f[k - 1], writes[k])

IsRun(R, d, writes, n) ==
  R = [k \in 0 .. n |-> IF k = 0 THEN d ELSE Written(R[k - 1], writes[k])]

LEMMA RunSteps ==
  ASSUME NEW R, NEW d, NEW writes, NEW n \in Nat, IsRun(R, d, writes, n)
  PROVE  Steps(R, d, writes, n)
<1>1. R[0] = d
  BY DEF IsRun
<1>2. ASSUME NEW k \in 1 .. n PROVE R[k] = Written(R[k - 1], writes[k])
  <2>1. k \in 0 .. n /\ k # 0
    OBVIOUS
  <2>. QED
    BY <2>1 DEF IsRun
<1>. QED
  BY <1>1, <1>2 DEF Steps

LEMMA RunExists ==
  ASSUME NEW d, NEW writes, NEW n \in Nat
  PROVE  \E R : IsRun(R, d, writes, n)
<1> DEFINE P(m) == \E R : IsRun(R, d, writes, m)
           Bad == {m \in Nat : ~ P(m)}
<1>1. P(0)
  <2>1. IsRun([k \in 0 .. 0 |-> d], d, writes, 0)
    BY DEF IsRun
  <2>. QED
    BY <2>1
<1>2. ASSUME NEW m \in Nat, P(m) PROVE P(m + 1)
  <2>1. PICK R : IsRun(R, d, writes, m)
    BY <1>2
  <2>2. Steps(R, d, writes, m)
    BY <2>1, RunSteps
  <2> DEFINE S == [k \in 0 .. m + 1 |-> IF k = m + 1 THEN Written(R[m], writes[m + 1]) ELSE R[k]]
  <2>3. ASSUME NEW k \in 0 .. m + 1
        PROVE  S[k] = IF k = 0 THEN d ELSE Written(S[k - 1], writes[k])
    <3>1. CASE k = 0
      <4>1. k # m + 1
        BY <3>1
      <4>. QED
        BY <2>2, <3>1, <4>1 DEF Steps
    <3>2. CASE k \in 1 .. m
      <4>1. k # m + 1 /\ k # 0 /\ k - 1 # m + 1 /\ k - 1 \in 0 .. m + 1
        BY <3>2
      <4>2. S[k] = R[k] /\ S[k - 1] = R[k - 1]
        BY <4>1
      <4>. QED
        BY <2>2, <3>2, <4>1, <4>2 DEF Steps
    <3>3. CASE k = m + 1
      <4>1. k # 0 /\ k - 1 = m /\ m \in 0 .. m + 1 /\ m # m + 1
        BY <3>3
      <4>2. S[k] = Written(R[m], writes[k]) /\ S[k - 1] = R[m]
        BY <3>3, <4>1
      <4>. QED
        BY <4>1, <4>2
    <3>. QED
      BY <3>1, <3>2, <3>3
  <2>4. S = [k \in 0 .. m + 1 |-> S[k]]
    OBVIOUS
  <2>5. IsRun(S, d, writes, m + 1)
    <3>. HIDE DEF S
    <3>. QED
      BY <2>3, <2>4 DEF IsRun
  <2>. QED
    BY <2>5
<1>. QED
  <2>1. SUFFICES ASSUME Bad # {} PROVE FALSE
    OBVIOUS
  <2>2. PICK m \in Bad : \A l \in Bad : m <= l
    <3>1. Bad \in SUBSET Nat
      OBVIOUS
    <3>. HIDE DEF Bad
    <3>. QED
      BY <2>1, <3>1, LeastNat
  <2>3. m \in Nat /\ ~ P(m) /\ m # 0
    BY <1>1, <2>2
  <2>4. m - 1 \in Nat /\ m - 1 \notin Bad /\ (m - 1) + 1 = m
    BY <2>2, <2>3
  <2>5. P(m - 1)
    BY <2>4
  <2>. QED
    <3>. HIDE DEF P
    <3>. QED
      BY <1>2, <2>3, <2>4, <2>5

\* The steps are determined by the writes.
LEMMA StepsOnce ==
  ASSUME NEW f, NEW g, NEW d, NEW writes, NEW n \in Nat,
         Steps(f, d, writes, n), Steps(g, d, writes, n)
  PROVE  f[n] = g[n]
<1> DEFINE Bad == {m \in 0 .. n : f[m] # g[m]}
<1>1. SUFFICES ASSUME Bad # {} PROVE FALSE
  OBVIOUS
<1>2. PICK m \in Bad : \A l \in Bad : m <= l
  <2>1. Bad \in SUBSET Nat
    OBVIOUS
  <2>. HIDE DEF Bad
  <2>. QED
    BY <1>1, <2>1, LeastNat
<1>3. m \in 1 .. n /\ f[m] # g[m]
  BY <1>2 DEF Steps
<1>4. m - 1 \in 0 .. n /\ ~ (m <= m - 1)
  BY <1>3
<1>5. f[m - 1] = g[m - 1]
  BY <1>2, <1>4
<1>. QED
  BY <1>3, <1>5 DEF Steps

LEMMA AfterSteps ==
  ASSUME NEW d, NEW writes, Len(writes) \in Nat
  PROVE  /\ \E f : Steps(f, d, writes, Len(writes)) /\ After(d, writes) = f[Len(writes)]
         /\ \A f : Steps(f, d, writes, Len(writes)) => After(d, writes) = f[Len(writes)]
<1>1. PICK n : n = Len(writes)
  OBVIOUS
<1> DEFINE R == CHOOSE f : IsRun(f, d, writes, n)
<1>2. IsRun(R, d, writes, n)
  BY <1>1, RunExists
<1>3. After(d, writes) = R[n]
  BY <1>1 DEF After, IsRun
<1>4. Steps(R, d, writes, n)
  <2>. HIDE DEF R
  <2>. QED
    BY <1>1, <1>2, RunSteps
<1>. QED
  <2>. HIDE DEF R
  <2>. QED
    BY <1>1, <1>3, <1>4, StepsOnce

IsWrite(w) ==
  \/ \E i, x : w = InodeWrite(i, x)
  \/ \E b, x : w = BlockWrite(b, x)
  \/ \E b, k, x : w = EntryWrite(b, k, x)
  \/ \E x : w = SuperblockWrite(x)
IsWrites(writes) == \E T : writes \in Seq(T) /\ \A w \in T : IsWrite(w)

LEMMA AfterNone ==
  ASSUME NEW d
  PROVE  After(d, <<>>) = d /\ IsWrites(<<>>)
<1>1. Len(<<>>) = 0 /\ <<>> \in Seq({})
  OBVIOUS
<1>. QED
  <2>1. IsWrites(<<>>)
    <3>1. PICK T : T = {}
      OBVIOUS
    <3>2. <<>> \in Seq(T) /\ \A w \in T : IsWrite(w)
      BY <3>1
    <3>. QED
      BY <3>2, Zenon DEF IsWrites
  <2>. QED
    BY <1>1, <2>1, AfterSteps DEF Steps

LEMMA AfterOne ==
  ASSUME NEW d, NEW w
  PROVE  After(d, <<w>>) = Written(d, w) /\ (IsWrite(w) => IsWrites(<<w>>))
<1>1. Len(<<w>>) = 1 /\ <<w>>[1] = w /\ <<w>> \in Seq({w})
  OBVIOUS
<1>2. PICK f : Steps(f, d, <<w>>, 1) /\ After(d, <<w>>) = f[1]
  BY <1>1, AfterSteps
<1>3. 1 \in 1 .. 1 /\ 1 - 1 = 0
  OBVIOUS
<1>4. f[1] = Written(f[0], w) /\ f[0] = d
  BY <1>1, <1>2, <1>3 DEF Steps
<1>. QED
  <2>1. ASSUME IsWrite(w) PROVE IsWrites(<<w>>)
    <3>1. PICK T : T = {w}
      OBVIOUS
    <3>2. <<w>> \in Seq(T) /\ \A x \in T : IsWrite(x)
      BY <1>1, <2>1, <3>1
    <3>. QED
      BY <3>2, Zenon DEF IsWrites
  <2>. QED
    BY <1>1, <1>2, <1>4, <2>1

LEMMA Joined ==
  ASSUME NEW v, NEW w, IsWrites(v), IsWrites(w)
  PROVE  LET m == Len(v)
             n == Len(w)
         IN  /\ m \in Nat /\ n \in Nat /\ Len(v \o w) = m + n
             /\ \A k \in 1 .. m : (v \o w)[k] = v[k]
             /\ \A k \in m + 1 .. m + n : (v \o w)[k] = w[k - m]
             /\ IsWrites(v \o w)
<1>1. PICK T : v \in Seq(T) /\ \A x \in T : IsWrite(x)
  BY DEF IsWrites
<1>2. PICK U : w \in Seq(U) /\ \A x \in U : IsWrite(x)
  BY DEF IsWrites
<1>3. v \in Seq(T \cup U) /\ w \in Seq(T \cup U)
  BY <1>1, <1>2
<1>4. v \o w \in Seq(T \cup U)
  BY <1>3
<1>5. IsWrites(v \o w)
  BY <1>1, <1>2, <1>4 DEF IsWrites
<1>. QED
  BY <1>3, <1>5

\* One sequence of writes and then another.
LEMMA AfterBoth ==
  ASSUME NEW d, NEW v, NEW w, IsWrites(v), IsWrites(w)
  PROVE  After(d, v \o w) = After(After(d, v), w) /\ IsWrites(v \o w)
<1>1. PICK m, n, vw, c : m = Len(v) /\ n = Len(w) /\ vw = v \o w /\ c = After(d, v)
  OBVIOUS
<1>2. /\ m \in Nat /\ n \in Nat /\ Len(vw) = m + n
      /\ \A k \in 1 .. m : vw[k] = v[k]
      /\ \A k \in m + 1 .. m + n : vw[k] = w[k - m]
      /\ IsWrites(vw)
  BY <1>1, Joined
<1>3. PICK f : Steps(f, d, v, m) /\ c = f[m]
  BY <1>1, <1>2, AfterSteps
<1>4. PICK g : Steps(g, c, w, n) /\ After(c, w) = g[n]
  <2>1. n = Len(w) /\ Len(w) \in Nat
    BY <1>1, <1>2
  <2>2. \E g : Steps(g, c, w, Len(w)) /\ After(c, w) = g[Len(w)]
    BY <2>1, AfterSteps, Zenon
  <2>. QED
    BY <2>1, <2>2, Zenon
<1> DEFINE h == [k \in 0 .. m + n |-> IF k <= m THEN f[k] ELSE g[k - m]]
<1>5. h[0] = d /\ h[m + n] = g[n]
  <2>1. 0 \in 0 .. m + n /\ m + n \in 0 .. m + n /\ 0 <= m
    BY <1>2
  <2>2. CASE n = 0
    BY <1>2, <1>3, <1>4, <2>1, <2>2 DEF Steps
  <2>3. CASE n # 0
    <3>1. ~ (m + n <= m) /\ (m + n) - m = n
      BY <1>2, <2>3
    <3>. QED
      BY <1>3, <2>1, <3>1 DEF Steps
  <2>. QED
    BY <2>2, <2>3
<1>6. ASSUME NEW k \in 1 .. m + n PROVE h[k] = Written(h[k - 1], vw[k])
  <2>1. k \in 0 .. m + n /\ k - 1 \in 0 .. m + n
    BY <1>2
  <2>2. CASE k <= m
    <3>1. k \in 1 .. m /\ k - 1 <= m
      BY <1>2, <2>2
    <3>2. h[k] = f[k] /\ h[k - 1] = f[k - 1]
      BY <2>1, <3>1
    <3>. QED
      BY <1>2, <1>3, <3>1, <3>2 DEF Steps
  <2>3. CASE k = m + 1
    <3>1. ~ (k <= m) /\ k - 1 <= m /\ k - 1 = m /\ k - m = 1 /\ 1 \in 1 .. n /\ k \in m + 1 .. m + n /\ 1 - 1 = 0
      BY <1>2, <2>3
    <3>2. h[k] = g[1] /\ h[k - 1] = f[m]
      BY <2>1, <3>1
    <3>3. g[1] = Written(g[0], w[1]) /\ g[0] = c
      BY <1>4, <3>1 DEF Steps
    <3>. QED
      BY <1>2, <1>3, <3>1, <3>2, <3>3
  <2>4. CASE k > m + 1
    <3>1. ~ (k <= m) /\ ~ (k - 1 <= m) /\ (k - 1) - m = (k - m) - 1 /\ k - m \in 1 .. n /\ k \in m + 1 .. m + n
      BY <1>2, <2>4
    <3>2. h[k] = g[k - m] /\ h[k - 1] = g[(k - m) - 1]
      BY <2>1, <3>1
    <3>. QED
      BY <1>2, <1>4, <3>1, <3>2 DEF Steps
  <2>. QED
    BY <1>2, <2>2, <2>3, <2>4
<1>7. Steps(h, d, vw, m + n)
  BY <1>5, <1>6 DEF Steps
<1>8. After(d, vw) = h[m + n]
  <2>. HIDE DEF h
  <2>. QED
    BY <1>2, <1>7, AfterSteps
<1>. QED
  BY <1>1, <1>2, <1>4, <1>5, <1>8

LEMMA AfterTwo ==
  ASSUME NEW d, NEW v, NEW w
  PROVE  /\ After(d, <<v, w>>) = Written(Written(d, v), w)
         /\ IsWrite(v) /\ IsWrite(w) => IsWrites(<<v, w>>)
<1>1. Len(<<v, w>>) = 2 /\ <<v, w>>[1] = v /\ <<v, w>>[2] = w /\ <<v, w>> \in Seq({v, w})
  OBVIOUS
<1>2. PICK f : Steps(f, d, <<v, w>>, 2) /\ After(d, <<v, w>>) = f[2]
  BY <1>1, AfterSteps
<1>3. 1 \in 1 .. 2 /\ 2 \in 1 .. 2 /\ 1 - 1 = 0 /\ 2 - 1 = 1
  OBVIOUS
<1>4. f[1] = Written(f[0], v) /\ f[2] = Written(f[1], w) /\ f[0] = d
  BY <1>1, <1>2, <1>3 DEF Steps
<1>. QED
  <2>1. ASSUME IsWrite(v), IsWrite(w) PROVE IsWrites(<<v, w>>)
    <3>1. PICK T : T = {v, w}
      OBVIOUS
    <3>2. <<v, w>> \in Seq(T) /\ \A x \in T : IsWrite(x)
      BY <1>1, <2>1, <3>1
    <3>. QED
      BY <3>2, Zenon DEF IsWrites
  <2>. QED
    BY <1>1, <1>2, <1>4, <2>1

LEMMA AfterThree ==
  ASSUME NEW d, NEW u, NEW v, NEW w
  PROVE  /\ After(d, <<u, v, w>>) = Written(Written(Written(d, u), v), w)
         /\ IsWrite(u) /\ IsWrite(v) /\ IsWrite(w) => IsWrites(<<u, v, w>>)
<1>1. /\ Len(<<u, v, w>>) = 3 /\ <<u, v, w>>[1] = u /\ <<u, v, w>>[2] = v /\ <<u, v, w>>[3] = w
      /\ <<u, v, w>> \in Seq({u, v, w})
  OBVIOUS
<1>2. PICK f : Steps(f, d, <<u, v, w>>, 3) /\ After(d, <<u, v, w>>) = f[3]
  BY <1>1, AfterSteps
<1>3. 1 \in 1 .. 3 /\ 2 \in 1 .. 3 /\ 3 \in 1 .. 3 /\ 1 - 1 = 0 /\ 2 - 1 = 1 /\ 3 - 1 = 2
  OBVIOUS
<1>4. f[1] = Written(f[0], u) /\ f[2] = Written(f[1], v) /\ f[3] = Written(f[2], w) /\ f[0] = d
  BY <1>1, <1>2, <1>3 DEF Steps
<1>. QED
  <2>1. ASSUME IsWrite(u), IsWrite(v), IsWrite(w) PROVE IsWrites(<<u, v, w>>)
    <3>1. PICK T : T = {u, v, w}
      OBVIOUS
    <3>2. <<u, v, w>> \in Seq(T) /\ \A x \in T : IsWrite(x)
      BY <1>1, <2>1, <3>1
    <3>. QED
      BY <3>2, Zenon DEF IsWrites
  <2>. QED
    BY <1>1, <1>2, <1>4, <2>1

--------------------------------------------------------------------------------
\* What a write does

Disk(i, b, s) == [inodes |-> i, blocks |-> b, sb |-> s]

Put(f, i, x) == [f EXCEPT ![i] = x]

LEMMA WritesAre ==
  /\ \A i, x : IsWrite(InodeWrite(i, x))
  /\ \A b, x : IsWrite(BlockWrite(b, x))
  /\ \A b, k, x : IsWrite(EntryWrite(b, k, x))
  /\ \A x : IsWrite(SuperblockWrite(x))
BY DEF IsWrite

LEMMA WriteInode ==
  ASSUME NEW I, NEW B, NEW S, NEW i, NEW x
  PROVE  Written(Disk(I, B, S), InodeWrite(i, x)) = Disk(Put(I, i, x), B, S)
<1>1. InodeWrite(i, x).to = "inode" /\ InodeWrite(i, x).at = i /\ InodeWrite(i, x).value = x
  BY DEF InodeWrite
<1>2. Written(Disk(I, B, S), InodeWrite(i, x)) = [Disk(I, B, S) EXCEPT !.inodes[i] = x]
  BY <1>1 DEF Written
<1>. QED
  BY <1>2 DEF Disk, Put

LEMMA WriteBlock ==
  ASSUME NEW I, NEW B, NEW S, NEW b, NEW x
  PROVE  Written(Disk(I, B, S), BlockWrite(b, x)) = Disk(I, Put(B, b, x), S)
<1>1. BlockWrite(b, x).to = "block" /\ BlockWrite(b, x).at = b /\ BlockWrite(b, x).value = x
  BY DEF BlockWrite
<1>2. Written(Disk(I, B, S), BlockWrite(b, x)) = [Disk(I, B, S) EXCEPT !.blocks[b] = x]
  BY <1>1 DEF Written
<1>. QED
  BY <1>2 DEF Disk, Put

LEMMA WriteEntry ==
  ASSUME NEW I, NEW B, NEW S, NEW b, NEW k, NEW x
  PROVE  Written(Disk(I, B, S), EntryWrite(b, k, x)) = Disk(I, Put(B, b, Put(B[b], k, x)), S)
<1>1. /\ EntryWrite(b, k, x).to = "entry" /\ EntryWrite(b, k, x).at[1] = b
      /\ EntryWrite(b, k, x).at[2] = k /\ EntryWrite(b, k, x).value = x
  BY DEF EntryWrite
<1>2. Written(Disk(I, B, S), EntryWrite(b, k, x)) = [Disk(I, B, S) EXCEPT !.blocks[b][k] = x]
  BY <1>1 DEF Written
<1>. QED
  BY <1>2 DEF Disk, Put

LEMMA WriteSuperblock ==
  ASSUME NEW I, NEW B, NEW S, NEW x
  PROVE  Written(Disk(I, B, S), SuperblockWrite(x)) = Disk(I, B, x)
<1>1. SuperblockWrite(x).to = "superblock" /\ SuperblockWrite(x).value = x
  BY DEF SuperblockWrite
<1>2. Written(Disk(I, B, S), SuperblockWrite(x)) = [Disk(I, B, S) EXCEPT !.sb = x]
  BY <1>1 DEF Written
<1>. QED
  BY <1>2 DEF Disk

\* The disk as the call finds it.
Found == Disk(inodes, blocks, sbdisk)

LEMMA FoundIs == \A writes : DiskAfter(writes) = After(Found, writes)
BY DEF DiskAfter, Found, Disk

\* The entry is written, and the directory with it.
LEMMA WithEntryIs ==
  ASSUME NEW dn, NEW e
  PROVE  WithEntry(dn, e) = Put(blocks, Target(dn), Put(blocks[Target(dn)], dn.size % EPB, e))
BY DEF WithEntry, Put

LEMMA AppendDone ==
  ASSUME NEW dn, NEW e
  PROVE  /\ IsWrites(AppendWrites(dn, e))
         /\ ~ Spills(dn) =>
              After(Found, AppendWrites(dn, e))
                = Disk(Put(inodes, DirIno, Grown(dn)), WithEntry(dn, e), sbdisk)
         /\ Spills(dn) /\ ~ DirFull(dn) =>
              After(Found, AppendWrites(dn, e))
                = Disk(Put(inodes, DirIno, Grown(dn)), WithEntry(dn, e), SbAfter(NextFree(sb.free_block)))
         /\ DirFull(dn) =>
              After(Found, AppendWrites(dn, e))
                = Disk(inodes, [blocks EXCEPT ![0][0].filename = "garbled",
                                              ![Target(dn)][dn.size % EPB] = e],
                       SbAfter(NextFree(sb.free_block)))
<1>1. CASE ~ Spills(dn)
  <2>1. PICK w1, w2 :
          /\ w1 = BlockWrite(Target(dn), Put(blocks[Target(dn)], dn.size % EPB, e))
          /\ w2 = InodeWrite(DirIno, Grown(dn))
    OBVIOUS
  <2>2. AppendWrites(dn, e) = <<w1, w2>> /\ ~ DirFull(dn)
    BY <1>1, <2>1 DEF AppendWrites, DirFull, Put
  <2>3. Written(Found, w1) = Disk(inodes, WithEntry(dn, e), sbdisk)
    BY <2>1, WriteBlock, WithEntryIs DEF Found
  <2>4. Written(Written(Found, w1), w2) = Disk(Put(inodes, DirIno, Grown(dn)), WithEntry(dn, e), sbdisk)
    BY <2>1, <2>3, WriteInode
  <2>5. IsWrites(<<w1, w2>>)
    BY <2>1, WritesAre, AfterTwo
  <2>. QED
    BY <1>1, <2>2, <2>4, <2>5, AfterTwo
<1>2. CASE Spills(dn) /\ ~ DirFull(dn)
  <2>1. PICK s, mid, w1, w2, w3, w4 :
          /\ s = SbAfter(NextFree(sb.free_block))
          /\ mid = [dn EXCEPT !.dblocks = Grown(dn).dblocks]
          /\ w1 = SuperblockWrite(s)
          /\ w2 = InodeWrite(DirIno, mid)
          /\ w3 = EntryWrite(Target(dn), 0, e)
          /\ w4 = InodeWrite(DirIno, Grown(dn))
    OBVIOUS
  <2>2. AppendWrites(dn, e) = <<w1>> \o <<w2, w3, w4>>
    BY <1>2, <2>1 DEF AppendWrites
  <2>3. dn.size % EPB = 0
    BY <1>2 DEF Spills
  <2>4. Written(Found, w1) = Disk(inodes, blocks, s)
    BY <2>1, WriteSuperblock DEF Found
  <2>5. Written(Disk(inodes, blocks, s), w2) = Disk(Put(inodes, DirIno, mid), blocks, s)
    BY <2>1, WriteInode
  <2>6. Written(Disk(Put(inodes, DirIno, mid), blocks, s), w3)
          = Disk(Put(inodes, DirIno, mid), WithEntry(dn, e), s)
    BY <2>1, <2>3, WriteEntry, WithEntryIs
  <2>7. Written(Disk(Put(inodes, DirIno, mid), WithEntry(dn, e), s), w4)
          = Disk(Put(inodes, DirIno, Grown(dn)), WithEntry(dn, e), s)
    <3>1. Put(Put(inodes, DirIno, mid), DirIno, Grown(dn)) = Put(inodes, DirIno, Grown(dn))
      BY DEF Put
    <3>. QED
      BY <2>1, <3>1, WriteInode
  <2>8. After(Found, <<w1>> \o <<w2, w3, w4>>) = Written(Written(Written(Written(Found, w1), w2), w3), w4)
        /\ IsWrites(<<w1>> \o <<w2, w3, w4>>)
    <3>1. IsWrites(<<w1>>) /\ IsWrites(<<w2, w3, w4>>)
      BY <2>1, WritesAre, AfterOne, AfterThree
    <3>. QED
      BY <3>1, AfterOne, AfterThree, AfterBoth
  <2>. QED
    BY <1>2, <2>1, <2>2, <2>4, <2>5, <2>6, <2>7, <2>8
<1>3. CASE DirFull(dn)
  <2>1. PICK s, old, w1, w2, w3 :
          /\ s = SbAfter(NextFree(sb.free_block))
          /\ old = [blocks[0][0] EXCEPT !.filename = "garbled"]
          /\ w1 = SuperblockWrite(s)
          /\ w2 = EntryWrite(0, 0, old)
          /\ w3 = EntryWrite(Target(dn), 0, e)
    OBVIOUS
  <2>2. AppendWrites(dn, e) = <<w1>> \o <<w2, w3>> /\ Spills(dn)
    BY <1>3, <2>1 DEF AppendWrites, DirFull
  <2>3. dn.size % EPB = 0
    BY <2>2 DEF Spills
  <2>4. PICK b : b = Put(blocks, 0, Put(blocks[0], 0, old))
    OBVIOUS
  <2>5. Written(Found, w1) = Disk(inodes, blocks, s)
    BY <2>1, WriteSuperblock DEF Found
  <2>6. Written(Disk(inodes, blocks, s), w2) = Disk(inodes, b, s)
    BY <2>1, <2>4, WriteEntry
  <2>7. Written(Disk(inodes, b, s), w3) = Disk(inodes, Put(b, Target(dn), Put(b[Target(dn)], dn.size % EPB, e)), s)
    BY <2>1, <2>3, WriteEntry
  <2>8. Put(b, Target(dn), Put(b[Target(dn)], dn.size % EPB, e))
          = [blocks EXCEPT ![0][0].filename = "garbled", ![Target(dn)][dn.size % EPB] = e]
    BY <2>1, <2>4 DEF Put
  <2>9. After(Found, <<w1>> \o <<w2, w3>>) = Written(Written(Written(Found, w1), w2), w3)
        /\ IsWrites(<<w1>> \o <<w2, w3>>)
    <3>1. IsWrites(<<w1>>) /\ IsWrites(<<w2, w3>>)
      BY <2>1, WritesAre, AfterOne, AfterTwo
    <3>. QED
      BY <3>1, AfterOne, AfterTwo, AfterBoth
  <2>. QED
    BY <1>3, <2>1, <2>2, <2>5, <2>6, <2>7, <2>8, <2>9
<1>. QED
  BY <1>1, <1>2, <1>3

--------------------------------------------------------------------------------
\* The calls

LEMMA MkdirDone ==
  ASSUME NEW dn, NEW n
  PROVE  LET e  == Entry(n, call.name)
             fb == FreeAfter(dn)
         IN  /\ IsWrites(MkdirWrites(dn, n))
             /\ DirFull(dn) => DiskAfter(MkdirWrites(dn, n)) = After(Found, AppendWrites(dn, e))
             /\ ~ DirFull(dn) =>
                  DiskAfter(MkdirWrites(dn, n))
                    = Disk(Put(Put(inodes, DirIno, Grown(dn)), n, NewDirNode(inodes[n], dn, DirIno)),
                           Put(WithEntry(dn, e), fb, NewDirBlock(WithEntry(dn, e)[fb], n, DirIno)),
                           SbAfter(WithEntry(dn, e)[fb][0].inode_index))
<1>1. PICK e, a, b, c, s, i, w1, w2, w3 :
        /\ e = Entry(n, call.name) /\ a = AppendWrites(dn, e)
        /\ c = FreeAfter(dn) /\ b = WithEntry(dn, e)[c]
        /\ s = SbAfter(b[0].inode_index) /\ i = NewDirNode(inodes[n], dn, DirIno)
        /\ w1 = BlockWrite(c, NewDirBlock(b, n, DirIno)) /\ w2 = SuperblockWrite(s) /\ w3 = InodeWrite(n, i)
  OBVIOUS
<1>2. IsWrites(a)
  BY <1>1, AppendDone
<1>3. CASE DirFull(dn)
  <2>1. MkdirWrites(dn, n) = a \o <<>>
    BY <1>1, <1>3 DEF MkdirWrites
  <2>2. After(Found, a \o <<>>) = After(Found, a) /\ IsWrites(a \o <<>>)
    BY <1>2, AfterBoth, AfterNone
  <2>. QED
    BY <1>1, <1>3, <2>1, <2>2, FoundIs
<1>4. CASE ~ DirFull(dn)
  <2>1. MkdirWrites(dn, n) = a \o <<w1, w2, w3>>
    BY <1>1, <1>4 DEF MkdirWrites, GivenBlock
  <2>2. PICK x : After(Found, a) = Disk(Put(inodes, DirIno, Grown(dn)), WithEntry(dn, e), x)
    BY <1>1, <1>4, AppendDone
  <2>3. IsWrites(<<w1, w2, w3>>)
    BY <1>1, WritesAre, AfterThree
  <2>4. /\ After(Found, a \o <<w1, w2, w3>>) = Written(Written(Written(After(Found, a), w1), w2), w3)
        /\ IsWrites(a \o <<w1, w2, w3>>)
    BY <1>2, <2>3, AfterBoth, AfterThree
  <2>5. PICK I, B, C : /\ I = Put(inodes, DirIno, Grown(dn)) /\ B = WithEntry(dn, e)
                       /\ C = Put(B, c, NewDirBlock(b, n, DirIno))
    OBVIOUS
  <2>6. Written(Disk(I, B, x), w1) = Disk(I, C, x)
    BY <1>1, <2>5, WriteBlock
  <2>7. Written(Disk(I, C, x), w2) = Disk(I, C, s)
    BY <1>1, WriteSuperblock
  <2>8. Written(Disk(I, C, s), w3) = Disk(Put(I, n, i), C, s)
    BY <1>1, WriteInode
  <2>9. After(Found, a \o <<w1, w2, w3>>) = Disk(Put(I, n, i), C, s)
    BY <2>2, <2>4, <2>5, <2>6, <2>7, <2>8
  <2>. QED
    BY <1>1, <1>4, <2>1, <2>4, <2>5, <2>9, FoundIs
<1>. QED
  BY <1>3, <1>4

LEMMA CreateDone ==
  ASSUME NEW dn, NEW n
  PROVE  LET e  == Entry(n, call.name)
             fb == FreeAfter(dn)
         IN  /\ IsWrites(CreateWrites(dn, n))
             /\ DirFull(dn) => DiskAfter(CreateWrites(dn, n)) = After(Found, AppendWrites(dn, e))
             /\ ~ DirFull(dn) /\ table_freehead # None =>
                  DiskAfter(CreateWrites(dn, n))
                    = Disk(Put(Put(inodes, DirIno, Grown(dn)), n, NewFileNode(dn, n)),
                           WithEntry(dn, e), SbAfter(WithEntry(dn, e)[fb][0].inode_index))
<1>1. PICK e, a, s, i, w1, w2 :
        /\ e = Entry(n, call.name) /\ a = AppendWrites(dn, e)
        /\ s = SbAfter(WithEntry(dn, e)[FreeAfter(dn)][0].inode_index) /\ i = NewFileNode(dn, n)
        /\ w1 = InodeWrite(n, i) /\ w2 = SuperblockWrite(s)
  OBVIOUS
<1>2. IsWrites(a)
  BY <1>1, AppendDone
<1>3. CASE DirFull(dn) \/ table_freehead = None
  <2>1. CreateWrites(dn, n) = a \o <<>>
    BY <1>1, <1>3 DEF CreateWrites
  <2>2. After(Found, a \o <<>>) = After(Found, a) /\ IsWrites(a \o <<>>)
    BY <1>2, AfterBoth, AfterNone
  <2>. QED
    BY <1>1, <1>3, <2>1, <2>2, FoundIs
<1>4. CASE ~ DirFull(dn) /\ table_freehead # None
  <2>1. CreateWrites(dn, n) = a \o <<w1, w2>>
    BY <1>1, <1>4 DEF CreateWrites, GivenBlock
  <2>2. PICK x : After(Found, a) = Disk(Put(inodes, DirIno, Grown(dn)), WithEntry(dn, e), x)
    BY <1>1, <1>4, AppendDone
  <2>3. IsWrites(<<w1, w2>>)
    BY <1>1, WritesAre, AfterTwo
  <2>4. /\ After(Found, a \o <<w1, w2>>) = Written(Written(After(Found, a), w1), w2)
        /\ IsWrites(a \o <<w1, w2>>)
    BY <1>2, <2>3, AfterBoth, AfterTwo
  <2>5. PICK I, B : I = Put(inodes, DirIno, Grown(dn)) /\ B = WithEntry(dn, e)
    OBVIOUS
  <2>6. Written(Disk(I, B, x), w1) = Disk(Put(I, n, i), B, x)
    BY <1>1, WriteInode
  <2>7. Written(Disk(Put(I, n, i), B, x), w2) = Disk(Put(I, n, i), B, s)
    BY <1>1, WriteSuperblock
  <2>8. After(Found, a \o <<w1, w2>>) = Disk(Put(I, n, i), B, s)
    BY <2>2, <2>4, <2>5, <2>6, <2>7
  <2>. QED
    BY <1>1, <1>4, <2>1, <2>4, <2>5, <2>8, FoundIs
<1>. QED
  BY <1>3, <1>4

\* The blocks given back are written with one content, one after the other.
Freeing(n, at, v) == [j \in 1 .. n |-> BlockWrite(at[j], v)]
Overwritten(B, n, at, v) == [b \in Block |-> IF \E j \in 1 .. n : at[j] = b THEN v ELSE B[b]]

LEMMA FreedDone ==
  ASSUME NEW I, NEW B, NEW S, NEW n \in Nat, NEW at, NEW v, DOMAIN B = Block, B = [b \in Block |-> B[b]]
  PROVE  /\ IsWrites(Freeing(n, at, v))
         /\ After(Disk(I, B, S), Freeing(n, at, v)) = Disk(I, Overwritten(B, n, at, v), S)
<1> DEFINE writes == [j \in 1 .. n |-> BlockWrite(at[j], v)]
           Over(k) == [b \in Block |-> IF \E j \in 1 .. k : at[j] = b THEN v ELSE B[b]]
           f == [k \in 0 .. n |-> Disk(I, Over(k), S)]
<1>1. Len(writes) = n /\ IsWrites(writes)
  <2>1. writes \in Seq({writes[j] : j \in 1 .. n}) /\ Len(writes) = n
    OBVIOUS
  <2>2. \A j \in 1 .. n : IsWrite(writes[j])
    BY WritesAre
  <2>. HIDE DEF writes
  <2>. QED
    BY <2>1, <2>2 DEF IsWrites
<1>2. f[0] = Disk(I, B, S)
  <2>1. Over(0) = B
    OBVIOUS
  <2>2. f[0] = Disk(I, Over(0), S)
    OBVIOUS
  <2>. QED
    BY <2>1, <2>2
<1>3. ASSUME NEW k \in 1 .. n PROVE f[k] = Written(f[k - 1], writes[k])
  <2>1. k \in 0 .. n /\ k - 1 \in 0 .. n /\ 1 .. k = (1 .. k - 1) \cup {k}
    OBVIOUS
  <2>2. f[k] = Disk(I, Over(k), S) /\ f[k - 1] = Disk(I, Over(k - 1), S)
    BY <2>1
  <2>3. writes[k] = BlockWrite(at[k], v)
    OBVIOUS
  <2>4. Put(Over(k - 1), at[k], v) = Over(k)
    <3>1. ASSUME NEW b \in Block PROVE Put(Over(k - 1), at[k], v)[b] = Over(k)[b]
      BY <2>1 DEF Put
    <3>2. DOMAIN Put(Over(k - 1), at[k], v) = Block /\ DOMAIN Over(k) = Block
      BY DEF Put
    <3>3. /\ Put(Over(k - 1), at[k], v) = [b \in Block |-> Put(Over(k - 1), at[k], v)[b]]
          /\ Over(k) = [b \in Block |-> Over(k)[b]]
      BY DEF Put
    <3>. QED
      BY <3>1, <3>3
  <2>. HIDE DEF f, Over, writes
  <2>. QED
    BY <2>2, <2>3, <2>4, WriteBlock
<1>4. Steps(f, Disk(I, B, S), writes, n) /\ f[n] = Disk(I, Over(n), S)
  <2>1. f[n] = Disk(I, Over(n), S)
    <3>1. n \in 0 .. n
      OBVIOUS
    <3>. HIDE DEF Over
    <3>. QED
      BY <3>1
  <2>. HIDE DEF f, Over, writes
  <2>. QED
    BY <1>2, <1>3, <2>1 DEF Steps
<1>. QED
  <2>. HIDE DEF f, Over, writes
  <2>1. After(Disk(I, B, S), writes) = f[n]
    BY <1>1, <1>4, AfterSteps
  <2>. QED
    BY <1>1, <1>4, <2>1 DEF Over, writes, Freeing, Overwritten

\* The disk f_remove leaves when it removes entry k of directory dn, which leads to t.
LastBlock(dn) == BlockOf(dn, dn.size - 1)
Linked(dn) == [blocks[LastBlock(dn)] EXCEPT ![0].inode_index = sb.free_block]
Released(dn, garbage) == [blocks[LastBlock(dn)] EXCEPT ![0].inode_index = garbage]
DirBlocks(dn, k) ==
  IF StartsBlock(dn.size - 1) THEN [MovedInto(dn, k) EXCEPT ![LastBlock(dn)] = Linked(dn)]
                              ELSE MovedInto(dn, k)
FreedBlocks(dn, k, freed, garbage) ==
  [b \in Block |-> IF \E j \in DOMAIN freed : freed[j] = b THEN Released(dn, garbage)
                                                         ELSE DirBlocks(dn, k)[b]]
SbFreed(dn, t, freed) ==
  [free_inode |-> t,
   free_block |-> IF freed # <<>> THEN freed[Len(freed)]
                  ELSE IF StartsBlock(dn.size - 1) THEN LastBlock(dn) ELSE sb.free_block]

LEMMA RemoveDone ==
  ASSUME NEW p, NEW k, NEW garbage, NEW dn, NEW t, NEW freed,
         dn = file_table[p].node, t = EntryAt(dn, k).inode_index, freed = FileBlocks(inodes[t]),
         inodes[t].size \in Nat, DOMAIN blocks = Block
  PROVE  /\ IsWrites(RemoveWrites(p, k, garbage))
         /\ DiskAfter(RemoveWrites(p, k, garbage))
              = Disk(Put(Put(inodes, file_table[p].ino, Shrunk(dn)), t, FreedInode(t)),
                     FreedBlocks(dn, k, freed, garbage), SbFreed(dn, t, freed))
<1>1. PICK n, d, i1, i2, lb, v, old, s :
        /\ n = (inodes[t].size + EPB - 1) \div EPB /\ d = file_table[p].ino
        /\ i1 = Shrunk(dn) /\ i2 = FreedInode(t) /\ lb = LastBlock(dn)
        /\ v = Released(dn, garbage) /\ old = Linked(dn) /\ s = SbFreed(dn, t, freed)
  OBVIOUS
<1>2. PICK w1, w2, w3, w4, w5 :
        /\ w1 = EntryWrite(BlockOf(dn, k), k % EPB, EntryAt(dn, dn.size - 1))
        /\ w2 = BlockWrite(lb, old) /\ w3 = InodeWrite(d, i1) /\ w4 = InodeWrite(t, i2)
        /\ w5 = SuperblockWrite(s)
  OBVIOUS
<1>3. n \in Nat /\ DOMAIN freed = 1 .. n
  <2>1. inodes[t].size + EPB - 1 \in Nat /\ EPB \in Nat /\ EPB > 0
    BY Measures
  <2>2. n \in Nat
    <3>1. PICK x : x = inodes[t].size + EPB - 1
      OBVIOUS
    <3>2. x \in Nat
      BY <2>1, <3>1
    <3>3. x \div EPB \in Nat
      BY <2>1, <3>2
    <3>. QED
      BY <1>1, <3>1, <3>3, Zenon
  <2>. QED
    BY <1>1, <2>2 DEF FileBlocks
<1>4. PICK a, b, c, z : /\ a = <<w1>> /\ b = (IF StartsBlock(dn.size - 1) THEN <<w2>> ELSE <<>>)
                        /\ c = <<w3, w4>> /\ z = Freeing(n, freed, v)
  OBVIOUS
<1>5. RemoveWrites(p, k, garbage) = a \o b \o c \o z \o <<w5>>
  BY <1>1, <1>2, <1>3, <1>4 DEF RemoveWrites, LastBlock, Released, Linked, SbFreed, Freeing
<1>6. PICK I1, I2, B0, B1, B2 :
        /\ I1 = Put(inodes, d, i1) /\ I2 = Put(I1, t, i2)
        /\ B0 = MovedInto(dn, k) /\ B1 = DirBlocks(dn, k) /\ B2 = FreedBlocks(dn, k, freed, garbage)
  OBVIOUS
<1>7. /\ B0 = Put(blocks, BlockOf(dn, k), Put(blocks[BlockOf(dn, k)], k % EPB, EntryAt(dn, dn.size - 1)))
      /\ B1 = IF StartsBlock(dn.size - 1) THEN Put(B0, lb, old) ELSE B0
  BY <1>1, <1>6 DEF MovedInto, DirBlocks, Put
<1>8. DOMAIN B1 = Block /\ B1 = [x \in Block |-> B1[x]]
  BY <1>7 DEF Put
<1>9. B2 = Overwritten(B1, n, freed, v)
  BY <1>1, <1>3, <1>6 DEF FreedBlocks, Overwritten
<1>10. After(Found, a) = Disk(inodes, B0, sbdisk) /\ IsWrites(a)
  <2>1. Written(Found, w1) = Disk(inodes, B0, sbdisk)
    BY <1>2, <1>7, WriteEntry DEF Found
  <2>. QED
    BY <1>2, <1>4, <2>1, AfterOne, WritesAre
<1>11. After(Disk(inodes, B0, sbdisk), b) = Disk(inodes, B1, sbdisk) /\ IsWrites(b)
  <2>1. CASE StartsBlock(dn.size - 1)
    <3>1. Written(Disk(inodes, B0, sbdisk), w2) = Disk(inodes, B1, sbdisk)
      BY <1>2, <1>7, <2>1, WriteBlock
    <3>. QED
      BY <1>2, <1>4, <2>1, <3>1, AfterOne, WritesAre
  <2>2. CASE ~ StartsBlock(dn.size - 1)
    BY <1>4, <1>7, <2>2, AfterNone
  <2>. QED
    BY <2>1, <2>2
<1>12. After(Disk(inodes, B1, sbdisk), c) = Disk(I2, B1, sbdisk) /\ IsWrites(c)
  <2>1. Written(Disk(inodes, B1, sbdisk), w3) = Disk(I1, B1, sbdisk)
    BY <1>2, <1>6, WriteInode
  <2>2. Written(Disk(I1, B1, sbdisk), w4) = Disk(I2, B1, sbdisk)
    BY <1>2, <1>6, WriteInode
  <2>3. IsWrite(w3) /\ IsWrite(w4)
    BY <1>2, WritesAre
  <2>. QED
    BY <1>4, <2>1, <2>2, <2>3, AfterTwo
<1>13. After(Disk(I2, B1, sbdisk), z) = Disk(I2, B2, sbdisk) /\ IsWrites(z)
  BY <1>3, <1>4, <1>8, <1>9, FreedDone
<1>14. After(Disk(I2, B2, sbdisk), <<w5>>) = Disk(I2, B2, s) /\ IsWrites(<<w5>>)
  <2>1. Written(Disk(I2, B2, sbdisk), w5) = Disk(I2, B2, s) /\ IsWrite(w5)
    BY <1>2, WriteSuperblock, WritesAre
  <2>. QED
    BY <2>1, AfterOne
<1>15. /\ After(Found, a \o b \o c \o z \o <<w5>>) = Disk(I2, B2, s)
       /\ IsWrites(a \o b \o c \o z \o <<w5>>)
  <2>1. PICK ab, abc, abcz : ab = a \o b /\ abc = ab \o c /\ abcz = abc \o z
    OBVIOUS
  <2>2. After(Found, ab) = Disk(inodes, B1, sbdisk) /\ IsWrites(ab)
    BY <1>10, <1>11, <2>1, AfterBoth
  <2>3. After(Found, abc) = Disk(I2, B1, sbdisk) /\ IsWrites(abc)
    BY <1>12, <2>1, <2>2, AfterBoth
  <2>4. After(Found, abcz) = Disk(I2, B2, sbdisk) /\ IsWrites(abcz)
    BY <1>13, <2>1, <2>3, AfterBoth
  <2>5. After(Found, abcz \o <<w5>>) = Disk(I2, B2, s) /\ IsWrites(abcz \o <<w5>>)
    BY <1>14, <2>4, AfterBoth
  <2>. QED
    BY <2>1, <2>5
<1>. QED
  BY <1>1, <1>5, <1>6, <1>15, FoundIs

--------------------------------------------------------------------------------
\* The steps

\* The entry f_remove has found, and that it is one of an inode.
Target0 == EntryAt(file_table[RemoveSlot].node, RemoveAt).inode_index
LeadsToInode == Removing => inodes[Target0].size \in Nat

CrashInv == TableInv /\ crashes \in Nat /\ DOMAIN blocks = Block

LEMMA WritesIs ==
  ASSUME NEW garbage
  PROVE  /\ Making /\ call.op = "f_mkdir" => Writes(garbage) = MkdirWrites(DirNode, sb.free_inode)
         /\ Making /\ call.op = "f_open_write" => Writes(garbage) = CreateWrites(DirNode, sb.free_inode)
         /\ Removing => Writes(garbage) = RemoveWrites(RemoveSlot, RemoveAt, garbage)
         /\ ~ Making /\ ~ Removing => Writes(garbage) = <<>>
<1>1. /\ Making => call.op \in {"f_mkdir", "f_open_write"}
      /\ Removing => call.op = "f_remove"
  BY DEF Making, Removing
<1>2. PICK a, b, c : /\ a = MkdirWrites(DirNode, sb.free_inode)
                     /\ b = CreateWrites(DirNode, sb.free_inode)
                     /\ c = RemoveWrites(RemoveSlot, RemoveAt, garbage)
  OBVIOUS
<1>3. Writes(garbage) = CASE Making /\ call.op = "f_mkdir" -> a
                          [] Making /\ call.op = "f_open_write" -> b
                          [] Removing -> c
                          [] OTHER -> <<>>
  BY <1>2, Zenon DEF Writes
<1>4. /\ Making /\ call.op = "f_mkdir" => Writes(garbage) = a
      /\ Making /\ call.op = "f_open_write" => Writes(garbage) = b
      /\ Removing => Writes(garbage) = c
      /\ ~ Making /\ ~ Removing => Writes(garbage) = <<>>
  BY <1>1, <1>3
<1>. QED
  BY <1>2, <1>4

LEMMA WritesTyped ==
  ASSUME LeadsToInode, DOMAIN blocks = Block, NEW garbage
  PROVE  IsWrites(Writes(garbage))
<1>1. CASE Making /\ call.op = "f_mkdir"
  <2>1. Writes(garbage) = MkdirWrites(DirNode, sb.free_inode)
    BY <1>1, WritesIs
  <2>. QED
    BY <2>1, MkdirDone
<1>2. CASE Making /\ call.op = "f_open_write"
  <2>1. Writes(garbage) = CreateWrites(DirNode, sb.free_inode)
    BY <1>2, WritesIs
  <2>. QED
    BY <2>1, CreateDone
<1>3. CASE Removing
  <2>1. Writes(garbage) = RemoveWrites(RemoveSlot, RemoveAt, garbage)
    BY <1>3, WritesIs
  <2>2. inodes[Target0].size \in Nat
    BY <1>3 DEF LeadsToInode
  <2>. QED
    BY <2>1, <2>2, RemoveDone DEF Target0
<1>4. CASE ~ Making /\ ~ Removing
  <2>1. Writes(garbage) = <<>>
    BY <1>4, WritesIs
  <2>. QED
    BY <2>1, AfterNone
<1>. QED
  BY <1>1, <1>2, <1>3, <1>4 DEF Making

\* Whatever is written, the data region keeps its blocks.
LEMMA RegionKept ==
  ASSUME NEW writes, IsWrites(writes), DOMAIN blocks = Block
  PROVE  DOMAIN DiskAfter(writes).blocks = Block
<1> DEFINE IsDisk(d) == \E I, B, S : d = Disk(I, B, S) /\ DOMAIN B = Block
<1>1. PICK n : n = Len(writes)
  OBVIOUS
<1>2. n \in Nat /\ \A k \in 1 .. n : IsWrite(writes[k])
  <2>1. PICK T : writes \in Seq(T) /\ \A w \in T : IsWrite(w)
    BY DEF IsWrites
  <2>. QED
    BY <1>1, <2>1
<1>3. PICK f : Steps(f, Found, writes, n) /\ DiskAfter(writes) = f[n]
  BY <1>1, <1>2, AfterSteps, FoundIs
<1>4. IsDisk(f[0])
  BY <1>3 DEF Steps, Found
<1>5. ASSUME NEW k \in 1 .. n, IsDisk(f[k - 1]) PROVE IsDisk(f[k])
  <2>1. f[k] = Written(f[k - 1], writes[k]) /\ IsWrite(writes[k])
    BY <1>2, <1>3 DEF Steps
  <2>2. PICK I, B, S : f[k - 1] = Disk(I, B, S) /\ DOMAIN B = Block
    BY <1>5
  <2>3. \A b, x : DOMAIN Put(B, b, x) = Block
    BY <2>2 DEF Put
  <2>4. ASSUME NEW i, NEW x, writes[k] = InodeWrite(i, x) PROVE IsDisk(f[k])
    BY <2>1, <2>2, <2>4, WriteInode
  <2>5. ASSUME NEW b, NEW x, writes[k] = BlockWrite(b, x) PROVE IsDisk(f[k])
    BY <2>1, <2>2, <2>3, <2>5, WriteBlock
  <2>6. ASSUME NEW b, NEW j, NEW x, writes[k] = EntryWrite(b, j, x) PROVE IsDisk(f[k])
    BY <2>1, <2>2, <2>3, <2>6, WriteEntry
  <2>7. ASSUME NEW x, writes[k] = SuperblockWrite(x) PROVE IsDisk(f[k])
    BY <2>1, <2>2, <2>7, WriteSuperblock
  <2>. HIDE DEF IsDisk
  <2>. QED
    BY <2>1, <2>4, <2>5, <2>6, <2>7 DEF IsWrite
<1>6. IsDisk(f[n])
  <2> DEFINE Bad == {m \in 0 .. n : ~ IsDisk(f[m])}
  <2>1. SUFFICES ASSUME Bad # {} PROVE FALSE
    BY <1>2
  <2>2. PICK m \in Bad : \A l \in Bad : m <= l
    <3>1. Bad \in SUBSET Nat
      OBVIOUS
    <3>. HIDE DEF Bad
    <3>. QED
      BY <2>1, <3>1, LeastNat
  <2>. HIDE DEF IsDisk
  <2>3. m \in 1 .. n /\ ~ IsDisk(f[m])
    BY <1>2, <1>4, <2>2
  <2>4. m - 1 \in 0 .. n /\ ~ (m <= m - 1)
    BY <1>2, <2>3
  <2>5. IsDisk(f[m - 1])
    BY <2>2, <2>4
  <2>. QED
    BY <1>5, <2>3, <2>5
<1>7. PICK I, B, S : f[n] = Disk(I, B, S) /\ DOMAIN B = Block
  BY <1>6
<1>. QED
  BY <1>3, <1>7 DEF Disk

LEMMA CallWrites ==
  ASSUME CrashInv, LeadsToInode, Next, Making \/ Removing, call'.pc = "idle"
  PROVE  \E garbage \in FreedMemory : Disk(inodes', blocks', sbdisk') = DiskAfter(Writes(garbage))
<1>1. call.pc = "ready" /\ call.op \in {"f_mkdir", "f_open_write", "f_remove"} /\ 0 \in FreedMemory
  BY DEF Making, Removing, FreedMemory
<1>2. Mkdir \/ OpenFile \/ Remove
  BY <1>1 DEF Next, Begin, Walk, PathEnd, OpenedDir, RmdirOpened, RmdirDescend, RmdirLeaf, Close, Restart
<1>3. ASSUME NEW kind \in {"blockfault", "tablefault"} PROVE ~ Fault(kind)
  <2>1. IsCall(call)
    BY DEF CrashInv, TableInv
  <2>. QED
    BY <2>1 DEF Fault, IsCall
<1>4. PICK dn, n, e, fb : dn = DirNode /\ n = sb.free_inode /\ e = Entry(n, call.name) /\ fb = FreeAfter(dn)
  OBVIOUS
<1>5. ASSUME NEW offset, AppendToFull(dn, DirSlot, offset)
      PROVE  /\ DirFull(dn)
             /\ Disk(inodes', blocks', sbdisk') = After(Found, AppendWrites(dn, e))
  <2>1. DirFull(dn) /\ UNCHANGED inodes /\ sbdisk' = SbAfter(NextFree(sb.free_block))
        /\ blocks' = [blocks EXCEPT ![0][0].filename = "garbled", ![Target(dn)][dn.size % EPB] = e]
    BY <1>4, <1>5 DEF AppendToFull, UpdateSuperblock
  <2>2. PICK b : b = [blocks EXCEPT ![0][0].filename = "garbled", ![Target(dn)][dn.size % EPB] = e]
    OBVIOUS
  <2>3. After(Found, AppendWrites(dn, e)) = Disk(inodes, b, SbAfter(NextFree(sb.free_block)))
    BY <2>1, <2>2, AppendDone
  <2>. QED
    BY <2>1, <2>2, <2>3
<1>6. CASE Mkdir
  <2>1. Making /\ call.op = "f_mkdir" /\ n # None /\ ~ NoBlock(dn)
    BY <1>1, <1>4, <1>6 DEF Mkdir, Making, Removing
  <2>2. \A garbage : Writes(garbage) = MkdirWrites(dn, n)
    BY <1>4, <2>1, WritesIs
  <2>3. CASE AppendToFull(dn, DirSlot, file_table[DirSlot].byte_offset)
    <3>1. DiskAfter(MkdirWrites(dn, n)) = After(Found, AppendWrites(dn, e))
      BY <1>4, <1>5, <2>3, MkdirDone
    <3>. QED
      BY <1>1, <1>5, <2>2, <2>3, <3>1
  <2>4. CASE /\ ~ DirFull(dn)
             /\ blocks' = [WithEntry(dn, e) EXCEPT ![fb] = NewDirBlock(@, n, DirIno)]
             /\ inodes' = [inodes EXCEPT ![DirIno] = Grown(dn), ![n] = NewDirNode(inodes[n], dn, DirIno)]
             /\ sb' = SbAfter(WithEntry(dn, e)[fb][0].inode_index)
             /\ UpdateSuperblock
    <3>1. /\ inodes' = Put(Put(inodes, DirIno, Grown(dn)), n, NewDirNode(inodes[n], dn, DirIno))
          /\ blocks' = Put(WithEntry(dn, e), fb, NewDirBlock(WithEntry(dn, e)[fb], n, DirIno))
          /\ sbdisk' = SbAfter(WithEntry(dn, e)[fb][0].inode_index)
      BY <2>4 DEF Put, UpdateSuperblock
    <3>2. DiskAfter(MkdirWrites(dn, n)) = Disk(inodes', blocks', sbdisk')
      BY <1>4, <2>4, <3>1, MkdirDone
    <3>. QED
      BY <1>1, <2>2, <3>2
  <2>. QED
    BY <1>3, <1>4, <1>6, <2>1, <2>3, <2>4 DEF Mkdir
<1>7. CASE OpenFile
  <2>1. Making /\ call.op = "f_open_write" /\ n # None /\ ~ NoBlock(dn) /\ Files(dn) = {}
    BY <1>1, <1>4, <1>7 DEF OpenFile, Making, Removing
  <2>2. \A garbage : Writes(garbage) = CreateWrites(dn, n)
    BY <1>4, <2>1, WritesIs
  <2>3. CASE AppendToFull(dn, DirSlot, dn.size)
    <3>1. DiskAfter(CreateWrites(dn, n)) = After(Found, AppendWrites(dn, e))
      BY <1>4, <1>5, <2>3, CreateDone
    <3>. QED
      BY <1>1, <1>5, <2>2, <2>3, <3>1
  <2>4. CASE /\ ~ DirFull(dn) /\ table_freehead # None
             /\ blocks' = WithEntry(dn, e)
             /\ inodes' = [inodes EXCEPT ![DirIno] = Grown(dn), ![n] = NewFileNode(dn, n)]
             /\ sb' = SbAfter(WithEntry(dn, e)[fb][0].inode_index)
             /\ UpdateSuperblock
    <3>1. /\ inodes' = Put(Put(inodes, DirIno, Grown(dn)), n, NewFileNode(dn, n))
          /\ sbdisk' = SbAfter(WithEntry(dn, e)[fb][0].inode_index)
      BY <2>4 DEF Put, UpdateSuperblock
    <3>2. DiskAfter(CreateWrites(dn, n)) = Disk(inodes', blocks', sbdisk')
      BY <1>4, <2>4, <3>1, CreateDone
    <3>. QED
      BY <1>1, <2>2, <3>2
  <2>. QED
    BY <1>3, <1>4, <1>7, <2>1, <2>3, <2>4 DEF OpenFile
<1>8. CASE Remove
  <2>1. Removing
    BY <1>1, <1>8 DEF Remove, Making
  <2>2. PICK p, k, dr, t, freed :
          /\ p = RemoveSlot /\ dr = file_table[p].node /\ k = RemoveAt
          /\ t = EntryAt(dr, k).inode_index /\ freed = FileBlocks(inodes[t])
    OBVIOUS
  <2>3. \A garbage : Writes(garbage) = RemoveWrites(p, k, garbage)
    BY <2>1, <2>2, WritesIs
  <2>4. PICK garbage \in FreedMemory :
          /\ blocks' = FreedBlocks(dr, k, freed, garbage)
          /\ inodes' = Put(Put(inodes, file_table[p].ino, Shrunk(dr)), t, FreedInode(t))
          /\ sbdisk' = SbFreed(dr, t, freed)
    <3>1. PICK from, found, lastk, lb, D :
            /\ from = file_table[p].byte_offset /\ found = Matches(dr, from, call.name)
            /\ lastk = dr.size - 1 /\ lb = BlockOf(dr, lastk)
            /\ D = IF StartsBlock(lastk)
                   THEN [MovedInto(dr, k) EXCEPT
                           ![lb] = [blocks[lb] EXCEPT ![0].inode_index = sb.free_block]]
                   ELSE MovedInto(dr, k)
      OBVIOUS
    <3>2. /\ found # {} /\ Removable(t)
          /\ p = LastSlotOf(file_table[call.at].ino) /\ k = Least(found)
      BY <2>1, <2>2, <3>1 DEF Removing, RemoveSlot, RemoveAt
    <3>3. RemoveAs(p, dr, file_table[p].ino, from, found, k, t, lastk, lb, D, freed)
      BY <1>8, <2>2, <3>1, <3>2, RemoveNamed
    <3>4. PICK garbage \in FreedMemory :
            /\ blocks' = [b \in Block |-> IF \E j \in DOMAIN freed : freed[j] = b
                                          THEN [blocks[lb] EXCEPT ![0].inode_index = garbage]
                                          ELSE D[b]]
            /\ inodes' = [inodes EXCEPT ![file_table[p].ino] = Shrunk(dr), ![t] = FreedInode(t)]
            /\ sb' = [free_inode |-> t,
                      free_block |-> IF freed # <<>> THEN freed[Len(freed)]
                                     ELSE IF StartsBlock(lastk) THEN lb ELSE sb.free_block]
            /\ sbdisk' = sb'
      BY <3>2, <3>3, Zenon DEF RemoveAs, UpdateSuperblock
    <3>5. blocks' = FreedBlocks(dr, k, freed, garbage)
      <4>1. D = DirBlocks(dr, k) /\ lb = LastBlock(dr)
        BY <3>1, Zenon DEF DirBlocks, Linked, LastBlock
      <4>. QED
        BY <3>4, <4>1, Zenon DEF FreedBlocks, Released
    <3>6. sbdisk' = SbFreed(dr, t, freed)
      BY <3>1, <3>4 DEF SbFreed, LastBlock
    <3>7. inodes' = Put(Put(inodes, file_table[p].ino, Shrunk(dr)), t, FreedInode(t))
      BY <3>4 DEF Put
    <3>. QED
      BY <3>5, <3>6, <3>7
  <2>5. inodes[t].size \in Nat /\ DOMAIN blocks = Block
    BY <2>1, <2>2 DEF LeadsToInode, Target0, CrashInv
  <2>6. DiskAfter(RemoveWrites(p, k, garbage)) = Disk(inodes', blocks', sbdisk')
    BY <2>2, <2>4, <2>5, RemoveDone
  <2>. QED
    BY <2>3, <2>4, <2>6
<1>. QED
  BY <1>2, <1>6, <1>7, <1>8

--------------------------------------------------------------------------------
\* Lives and deaths

LEMMA BlocksKept ==
  ASSUME DOMAIN blocks = Block, [Next]_vars
  PROVE  DOMAIN blocks' = Block
<1>. USE DEF disk, table
<1>1. ASSUME NEW i, NEW x PROVE DOMAIN [blocks EXCEPT ![i] = x] = Block
  OBVIOUS
<1>2. ASSUME NEW dn, NEW e PROVE DOMAIN WithEntry(dn, e) = Block
  BY WithEntryIs DEF Put
<1>3. ASSUME NEW dn, NEW p, NEW offset, AppendToFull(dn, p, offset) PROVE DOMAIN blocks' = Block
  BY <1>3 DEF AppendToFull
<1>4. ASSUME NEW kind, Fault(kind) PROVE DOMAIN blocks' = Block
  BY <1>4 DEF Fault
<1>5. CASE Mkdir
  BY <1>2, <1>3, <1>4, <1>5 DEF Mkdir
<1>6. CASE OpenFile
  BY <1>2, <1>3, <1>4, <1>6 DEF OpenFile
<1>7. CASE Remove
  BY <1>7 DEF Remove
<1>8. CASE UNCHANGED blocks
  BY <1>8
<1>9. (\E w \in Workload : Begin(w[1], w[2], w[3])) => UNCHANGED blocks
  BY DEF Begin, OpenRoot
<1>10. Walk \/ PathEnd \/ OpenedDir \/ RmdirOpened \/ RmdirDescend \/ RmdirLeaf => UNCHANGED blocks
  BY DEF Walk, PathEnd, OpenedDir, RmdirOpened, RmdirDescend, RmdirLeaf, OpenRoot
<1>11. (\E fd \in Slot : Close(fd)) \/ Restart \/ UNCHANGED vars => UNCHANGED blocks
  BY DEF Close, Restart, vars
<1>. QED
  BY <1>5, <1>6, <1>7, <1>8, <1>9, <1>10, <1>11 DEF Next

LEMMA EmptyTable ==
  file_table = [s \in Slot |-> FreeEntry] /\ fds = {} /\ call = Idle => TableInv
<1>1. IsEntry(FreeEntry) /\ FreeEntry.ino = None
  BY DEF IsEntry, FreeEntry
<1>2. ASSUME file_table = [s \in Slot |-> FreeEntry]
      PROVE  IsTable(file_table) /\ file_table[0].ino = None
  BY <1>1, <1>2, Slots DEF IsTable
<1>3. call = Idle => IsCall(call) /\ call.pc = "idle"
  BY DEF IsCall, Idle
<1>. QED
  BY <1>2, <1>3 DEF TableInv

\* The first writes of a call are writes.
LEMMA SomeWrites ==
  ASSUME NEW writes, IsWrites(writes), NEW k \in 0 .. Len(writes)
  PROVE  IsWrites(SubSeq(writes, 1, k))
<1>1. PICK T : writes \in Seq(T) /\ \A w \in T : IsWrite(w)
  BY DEF IsWrites
<1>2. SubSeq(writes, 1, k) \in Seq(T)
  BY <1>1
<1>. QED
  BY <1>1, <1>2 DEF IsWrites

LEMMA CrashStep ==
  ASSUME CrashInv, LeadsToInode, [CrashNext]_crashVars
  PROVE  CrashInv'
<1>1. CASE Next /\ UNCHANGED crashes
  <2>1. TableInv'
    BY <1>1, CallStep DEF CrashInv, StepOK
  <2>2. DOMAIN blocks' = Block
    BY <1>1, BlocksKept DEF CrashInv
  <2>. QED
    BY <1>1, <2>1, <2>2 DEF CrashInv
<1>2. CASE Crash
  <2>0. PICK garbage \in FreedMemory :
          \E k \in 0 .. Len(Writes(garbage)) :
            blocks' = DiskAfter(SubSeq(Writes(garbage), 1, k)).blocks
    BY <1>2 DEF Crash
  <2>1. PICK k \in 0 .. Len(Writes(garbage)) :
          blocks' = DiskAfter(SubSeq(Writes(garbage), 1, k)).blocks
    BY <2>0
  <2>2. DOMAIN blocks' = Block
    BY <2>1, WritesTyped, SomeWrites, RegionKept DEF CrashInv
  <2>3. TableInv'
    <3>1. file_table' = [s \in Slot |-> FreeEntry] /\ fds' = {} /\ call' = Idle
      BY <1>2 DEF Crash
    <3>2. (file_table = [s \in Slot |-> FreeEntry] /\ fds = {} /\ call = Idle => TableInv)'
      BY EmptyTable, PTL
    <3>. QED
      BY <3>1, <3>2
  <2>. QED
    BY <1>2, <2>2, <2>3 DEF CrashInv, Crash
<1>3. CASE UNCHANGED crashVars
  <2>1. UNCHANGED vars /\ UNCHANGED <<blocks, crashes>>
    BY <1>3 DEF crashVars, vars, disk, table
  <2>2. TableInv'
    BY <2>1, CallStep DEF CrashInv, StepOK
  <2>. QED
    BY <2>1, <2>2 DEF CrashInv
<1>. QED
  BY <1>1, <1>2, <1>3 DEF CrashNext

\* What f_mkdir, f_open and f_remove have done to the disk when they return is what
\* their writes do one after the other, in the order of the code: of the inodes, the
\* blocks and the superblock nothing else has changed, and the values a call works
\* out before it writes are still right although earlier writes change what they
\* were read from.  For every disk, table and workload, with any number of deaths
\* before, as long as the entry f_remove finds leads to an inode.
THEOREM CallsWriteInOrder == CrashSpec /\ []LeadsToInode => WritesComplete
<1>1. CrashInit => CrashInv
  <2>1. Init => TableInv /\ DOMAIN blocks = Block
    BY TableInit DEF Init
  <2>. QED
    BY <2>1 DEF CrashInit, CrashInv
<1>2. CrashInv /\ LeadsToInode /\ [CrashNext]_crashVars => CrashInv'
  BY CrashStep
<1>3. CrashInv /\ LeadsToInode /\ [CrashNext]_crashVars =>
        [ (Making \/ Removing) /\ crashes' = crashes /\ call'.pc = "idle"
            => \E garbage \in FreedMemory :
                 [inodes |-> inodes', blocks |-> blocks', sb |-> sbdisk'] = DiskAfter(Writes(garbage)) ]_crashVars
  <2>1. SUFFICES ASSUME CrashInv, LeadsToInode, CrashNext, Making \/ Removing,
                        crashes' = crashes, call'.pc = "idle"
                 PROVE  \E garbage \in FreedMemory :
                          [inodes |-> inodes', blocks |-> blocks', sb |-> sbdisk'] = DiskAfter(Writes(garbage))
    OBVIOUS
  <2>2. ~ Crash
    BY <2>1 DEF Crash, CrashInv
  <2>3. Next
    BY <2>1, <2>2 DEF CrashNext
  <2>. QED
    BY <2>1, <2>3, CallWrites DEF Disk
<1>. QED
  BY <1>1, <1>2, <1>3, PTL DEF CrashSpec, WritesComplete

--------------------------------------------------------------------------------
\* A death between the writes

LEMMA Prefix ==
  ASSUME NEW writes, IsWrites(writes), NEW k \in 0 .. Len(writes)
  PROVE  \E f : Steps(f, Found, writes, Len(writes)) /\ DiskAfter(SubSeq(writes, 1, k)) = f[k]
<1>1. PICK T : writes \in Seq(T) /\ \A w \in T : IsWrite(w)
  BY DEF IsWrites
<1>2. PICK n, head : n = Len(writes) /\ head = SubSeq(writes, 1, k)
  OBVIOUS
<1>3. n \in Nat /\ Len(head) = k /\ k \in Nat /\ k <= n /\ \A j \in 1 .. k : head[j] = writes[j]
  BY <1>1, <1>2
<1>4. PICK f : Steps(f, Found, writes, n)
  BY <1>2, <1>3, AfterSteps
<1>5. Steps(f, Found, head, k)
  BY <1>3, <1>4 DEF Steps
<1>6. DiskAfter(head) = f[k]
  BY <1>3, <1>5, AfterSteps, FoundIs
<1>. QED
  BY <1>2, <1>4, <1>6

\* Names are of inodes in use: no free inode is a directory.
NoFreeDirectory == \A i \in FreeInodes : inodes[i].type # "DIR"

Others(entries, about) == {e \in entries : e[3].inode_index \notin about}

\* What a disk must have kept of the one found, for the names to be the same but for those
\* of the inodes in about; the inodes in E may have come to the free list.
LEMMA NamesKept ==
  ASSUME IInv, NoFreeDirectory, NEW about, NEW E \in SUBSET Inode, E \cap Directories = {},
         sb'.free_inode \in Inode => sb'.free_inode \in FreeInodes \cup E,
         \A i \in FreeInodes \cup E : inodes'[i].next \in Inode => inodes'[i].next \in FreeInodes \cup E,
         \A i \in Directories : inodes'[i].type = "DIR",
         \A i \in Inode : inodes'[i].type = "DIR" => inodes[i].type = "DIR" \/ inodes'[i].size = 2,
         \A i \in Directories : \A k \in 2 .. inodes[i].size - 1 :
           EntryAt(inodes[i], k).inode_index \notin about =>
             k \in 2 .. inodes'[i].size - 1 /\ EntryAfter(i, k) = EntryAt(inodes[i], k),
         \A i \in Directories : \A k \in 2 .. inodes'[i].size - 1 :
           EntryAfter(i, k).inode_index \notin about =>
             k \in 2 .. inodes[i].size - 1 /\ EntryAfter(i, k) = EntryAt(inodes[i], k)
  PROVE  Others(Entries', about) = Others(Entries, about)
<1>1. FreeInodes' \subseteq FreeInodes \cup E
  <2>1. PICK T, h, link : T = FreeInodes \cup E /\ h = sb'.free_inode /\ link = NextInode'
    OBVIOUS
  <2>2. T \in SUBSET Inode /\ IsFiniteSet(Inode)
    BY <2>1, FreeListFacts, FiniteRegions
  <2>3. \A i \in T : link[i] \in Inode => link[i] \in T
    BY <2>1, <2>2 DEF NextInode
  <2>4. Listed(Inode, h, link) \subseteq T
    BY <2>1, <2>2, <2>3, ListLeast
  <2>5. FreeInodes' = Listed(Inode, h, link)
    BY <2>1 DEF FreeInodes, Listed
  <2>. QED
    BY <2>1, <2>4, <2>5
<1>2. Directories \subseteq Directories'
  BY <1>1 DEF Directories, Allocated
<1>3. \A i \in Directories' : i \in Directories \/ inodes'[i].size = 2
  BY DEF Directories, Allocated, NoFreeDirectory
<1>4. Entries' = UNION {{<<i, k, EntryAfter(i, k)>> : k \in 2 .. inodes'[i].size - 1} : i \in Directories'}
  BY DEF Entries, EntryAt, EntryAfter, BlockOf
<1>5. ASSUME NEW e \in Entries, e[3].inode_index \notin about PROVE e \in Entries'
  <2>1. PICK i \in Directories : \E k \in 2 .. inodes[i].size - 1 : e = <<i, k, EntryAt(inodes[i], k)>>
    BY InEntries
  <2>2. PICK k \in 2 .. inodes[i].size - 1 : e = <<i, k, EntryAt(inodes[i], k)>>
    BY <2>1
  <2>3. k \in 2 .. inodes'[i].size - 1 /\ EntryAfter(i, k) = EntryAt(inodes[i], k)
    BY <1>5, <2>2
  <2>. QED
    BY <1>2, <1>4, <2>2, <2>3
<1>6. ASSUME NEW e \in Entries', e[3].inode_index \notin about PROVE e \in Entries
  <2>1. PICK i \in Directories' : \E k \in 2 .. inodes'[i].size - 1 : e = <<i, k, EntryAfter(i, k)>>
    BY <1>4
  <2>2. PICK k \in 2 .. inodes'[i].size - 1 : e = <<i, k, EntryAfter(i, k)>>
    BY <2>1
  <2>3. i \in Directories
    BY <1>3, <2>1, <2>2
  <2>4. k \in 2 .. inodes[i].size - 1 /\ EntryAfter(i, k) = EntryAt(inodes[i], k)
    BY <1>6, <2>2, <2>3
  <2>. QED
    BY <2>2, <2>3, <2>4, InEntries
<1>. QED
  BY <1>5, <1>6 DEF Others

\* The disk while inode n is entered in directory d, the entry going into block tb and block
\* fb to the new inode: once the directory has grown, the entry is in its place.
Entering(I, B, S, d, n, tb, fb, in) ==
  LET k == inodes[d].size
  IN  /\ DOMAIN I = Inode /\ DOMAIN B = Block
      /\ S.free_inode \in {n, inodes[n].next}
      /\ \A i \in Inode \ {d, n} : I[i] = inodes[i]
      /\ I[d].type = "DIR" /\ I[d].size \in IF in THEN {k, k + 1} ELSE {k}
      /\ \A l \in 0 .. k - 1 : BlockOf(I[d], l) = BlockOf(inodes[d], l)
      /\ I[d].size = k + 1 => BlockOf(I[d], k) = tb
      /\ I[n].next \in {inodes[n].next, None} /\ (I[n].type = "DIR" => I[n].size = 2)
      /\ \A b \in Block \ {tb, fb} : B[b] = blocks[b]
      /\ DOMAIN B[tb] = 0 .. EPB - 1
      /\ \A j \in 0 .. EPB - 1 : j # k % EPB => B[tb][j] = blocks[tb][j]
      /\ in => B[tb][k % EPB].inode_index = n

LEMMA EnteringKeeps ==
  ASSUME IInv, NoFreeDirectory, NEW d \in Directories, NEW n, n = sb.free_inode, n # None,
         NEW tb \in Block, NEW fb \in Block, Grows(d, tb, fb), NEW in \in BOOLEAN,
         Entering(inodes', blocks', sb', d, n, tb, fb, in)
  PROVE  Others(Entries', {n}) = Others(Entries, {n})
<1>1. PICK k : k = inodes[d].size
  OBVIOUS
<1>2. /\ d \in Allocated /\ d \in Inode /\ inodes[d].type = "DIR" /\ k \in Nat /\ k >= 2
      /\ Held(d) = 0 .. k - 1 /\ Shapes /\ Kinds /\ HeldOnce
      /\ Ends(Inode, sb.free_inode, NextInode)
  BY <1>1, InDirectories DEF IInv
<1>3. /\ n \in FreeInodes /\ n \in Inode /\ n # d /\ n \notin Directories /\ FreeInodes \subseteq Inode
      /\ inodes[n].next \in Inode => inodes[n].next \in FreeInodes
      /\ \A i \in FreeInodes : inodes[i].next \in Inode => inodes[i].next \in FreeInodes
  <2>1. n \in FreeInodes /\ FreeInodes \subseteq Inode
    BY FreeListFacts
  <2>2. \A i \in FreeInodes : NextInode[i] = inodes[i].next
    BY FreeListFacts
  <2>3. \A i \in FreeInodes : NextInode[i] \in Inode => NextInode[i] \in FreeInodes
    BY ListClosed, FiniteRegions DEF FreeInodes
  <2>. QED
    BY <1>2, <2>1, <2>2, <2>3 DEF Allocated, Directories
<1>4. None \notin Inode
  BY Sizes
<1>5. /\ \A i \in Inode \ {d, n} : inodes'[i] = inodes[i]
      /\ inodes'[d].type = "DIR" /\ inodes'[d].size \in {k, k + 1}
      /\ inodes'[d].size = k + 1 => in
      /\ \A l \in 0 .. k - 1 : BlockOf(inodes'[d], l) = BlockOf(inodes[d], l)
      /\ inodes'[d].size = k + 1 => BlockOf(inodes'[d], k) = tb
      /\ inodes'[n].next \in {inodes[n].next, None} /\ (inodes'[n].type = "DIR" => inodes'[n].size = 2)
      /\ sb'.free_inode \in {n, inodes[n].next}
  BY <1>1, <1>2 DEF Entering
<1>6. /\ \A b \in Block \ {tb, fb} : blocks'[b] = blocks[b]
      /\ \A j \in 0 .. EPB - 1 : j # k % EPB => blocks'[tb][j] = blocks[tb][j]
      /\ in => blocks'[tb][k % EPB].inode_index = n
  BY <1>1 DEF Entering
<1>7. /\ fb \in FreeBlocks /\ tb # fb
      /\ tb \in FreeBlocks \/ (tb = BlockOf(inodes[d], k - 1) /\ (k - 1) \div EPB = k \div EPB)
  BY <1>1 DEF Grows
<1>8. ASSUME NEW e \in Directories, NEW l \in 0 .. inodes[e].size - 1
      PROVE  EntryAfter(e, l) = EntryAt(inodes[e], l)
  <2>1. e \in Allocated /\ l \in Held(e) /\ e # n /\ e \in Inode
    BY <1>2, <1>3, InDirectories
  <2>2. BlockOf(inodes'[e], l) = BlockOf(inodes[e], l)
    BY <1>1, <1>5, <2>1
  <2>3. PICK b, c : b = BlockOf(inodes[e], l) /\ c = l % EPB
    OBVIOUS
  <2>4. b \in Block /\ c \in 0 .. EPB - 1 /\ b \notin FreeBlocks /\ l \in Nat
    BY <1>2, <2>1, <2>3, HeldPlace, HeldNotFree, Place
  <2>5. b = tb => c # k % EPB
    <3>1. SUFFICES ASSUME b = tb, c = k % EPB PROVE FALSE
      OBVIOUS
    <3>2. BlockOf(inodes[e], l) = BlockOf(inodes[d], k - 1) /\ (k - 1) \div EPB = k \div EPB
          /\ k - 1 \in Held(d)
      BY <1>2, <1>7, <2>3, <2>4, <3>1
    <3>3. e = d /\ l \div EPB = k \div EPB
      BY <1>2, <2>1, <3>2, HeldByOne
    <3>4. l = k
      BY <1>2, <2>3, <2>4, <3>1, <3>3, PlaceOnce
    <3>. QED
      BY <1>1, <1>2, <3>3, <3>4
  <2>6. blocks'[b][c] = blocks[b][c]
    BY <1>6, <1>7, <2>4, <2>5
  <2>. QED
    BY <2>2, <2>3, <2>6 DEF EntryAfter, EntryAt
<1>9. inodes'[d].size = k + 1 => EntryAfter(d, k).inode_index = n
  BY <1>5, <1>6 DEF EntryAfter
<1>10. \A e \in Directories \ {d} : inodes'[e].size = inodes[e].size
  BY <1>3, <1>5, InDirectories, <1>2
<1>11. ASSUME NEW i \in Directories, NEW l \in 2 .. inodes[i].size - 1
       PROVE  l \in 2 .. inodes'[i].size - 1 /\ EntryAfter(i, l) = EntryAt(inodes[i], l)
  <2>1. inodes[i].size \in Nat /\ l \in 0 .. inodes[i].size - 1
    BY <1>2, InDirectories
  <2>. QED
    BY <1>1, <1>5, <1>8, <1>10, <2>1
<1>12. ASSUME NEW i \in Directories, NEW l \in 2 .. inodes'[i].size - 1, EntryAfter(i, l).inode_index \notin {n}
       PROVE  l \in 2 .. inodes[i].size - 1 /\ EntryAfter(i, l) = EntryAt(inodes[i], l)
  <2>1. l \in 2 .. inodes[i].size - 1
    BY <1>1, <1>2, <1>5, <1>9, <1>10, <1>12
  <2>. QED
    BY <1>11, <2>1
<1>13. \A i \in FreeInodes : inodes'[i].next \in Inode => inodes'[i].next \in FreeInodes
  BY <1>2, <1>3, <1>4, <1>5 DEF Allocated
<1>14. sb'.free_inode \in Inode => sb'.free_inode \in FreeInodes
  BY <1>3, <1>5
<1>15. \A i \in Directories : inodes'[i].type = "DIR"
  BY <1>3, <1>5 DEF Directories, Allocated
<1>16. \A i \in Inode : inodes'[i].type = "DIR" => inodes[i].type = "DIR" \/ inodes'[i].size = 2
  BY <1>2, <1>5
<1>17. PICK E, T, about : E = {} /\ T = FreeInodes \cup E /\ about = {n}
  OBVIOUS
<1>18. E \in SUBSET Inode /\ E \cap Directories = {} /\ T = FreeInodes
  BY <1>17
<1>19. /\ sb'.free_inode \in Inode => sb'.free_inode \in FreeInodes \cup E
       /\ \A i \in FreeInodes \cup E : inodes'[i].next \in Inode => inodes'[i].next \in FreeInodes \cup E
  BY <1>13, <1>14, <1>17, <1>18
<1>20. /\ \A i \in Directories : \A l \in 2 .. inodes[i].size - 1 :
            EntryAt(inodes[i], l).inode_index \notin about =>
              l \in 2 .. inodes'[i].size - 1 /\ EntryAfter(i, l) = EntryAt(inodes[i], l)
       /\ \A i \in Directories : \A l \in 2 .. inodes'[i].size - 1 :
            EntryAfter(i, l).inode_index \notin about =>
              l \in 2 .. inodes[i].size - 1 /\ EntryAfter(i, l) = EntryAt(inodes[i], l)
  BY <1>11, <1>12, <1>17
<1>21. Others(Entries', about) = Others(Entries, about)
  BY <1>15, <1>16, <1>18, <1>19, <1>20, NamesKept
<1>. QED
  BY <1>17, <1>21

LEMMA EnteringStarts ==
  ASSUME IInv, NoFreeDirectory, NEW d \in Directories, NEW n, n = sb.free_inode, n # None,
         NEW tb \in Block, NEW fb
  PROVE  Entering(inodes, blocks, sbdisk, d, n, tb, fb, FALSE)
<1>1. /\ inodes \in [Inode -> InodeRecord] /\ blocks \in [Block -> [0 .. EPB - 1 -> Dirent]]
      /\ sbdisk = sb /\ n \in FreeInodes /\ inodes[d].type = "DIR"
      /\ inodes[d].size \in Nat
  BY FreeListFacts, InDirectories DEF IInv, Shapes, SbDurable
<1>2. inodes[n].type # "DIR" /\ inodes[d].size # inodes[d].size + 1
  BY <1>1 DEF NoFreeDirectory
<1>3. DOMAIN blocks[tb] = 0 .. EPB - 1
  BY <1>1
<1>. QED
  BY <1>1, <1>2, <1>3 DEF Entering

\* The writes that may come at any time, and those that need the entry to be there.
LEMMA EnteringWrites ==
  ASSUME NEW I, NEW B, NEW S, NEW d \in Inode, NEW n \in Inode, NEW tb \in Block, NEW fb, NEW in \in BOOLEAN,
         d # n, tb # fb, inodes[d].size \in Nat, Entering(I, B, S, d, n, tb, fb, in)
  PROVE  /\ \A x : x.next \in {inodes[n].next, None} /\ (x.type = "DIR" => x.size = 2)
                     => Entering(Put(I, n, x), B, S, d, n, tb, fb, in)
         /\ \A x : Entering(I, Put(B, fb, x), S, d, n, tb, fb, in)
         /\ \A x : /\ x.type = "DIR" /\ x.size = inodes[d].size
                   /\ \A l \in 0 .. inodes[d].size - 1 : BlockOf(x, l) = BlockOf(inodes[d], l)
                   => Entering(Put(I, d, x), B, S, d, n, tb, fb, in)
         /\ \A x : /\ in = TRUE /\ x.type = "DIR" /\ x.size = inodes[d].size + 1
                   /\ \A l \in 0 .. inodes[d].size - 1 : BlockOf(x, l) = BlockOf(inodes[d], l)
                   /\ BlockOf(x, inodes[d].size) = tb
                   => Entering(Put(I, d, x), B, S, d, n, tb, fb, in)
         /\ \A x : /\ DOMAIN x = 0 .. EPB - 1 /\ x[inodes[d].size % EPB].inode_index = n
                   /\ \A j \in 0 .. EPB - 1 : j # inodes[d].size % EPB => x[j] = blocks[tb][j]
                   => Entering(I, Put(B, tb, x), S, d, n, tb, fb, TRUE)
<1>1. PICK k : k = inodes[d].size
  OBVIOUS
<1>2. PICK c : c = k % EPB
  OBVIOUS
<1>3. /\ DOMAIN I = Inode /\ DOMAIN B = Block
      /\ S.free_inode \in {n, inodes[n].next}
      /\ \A i \in Inode \ {d, n} : I[i] = inodes[i]
      /\ I[d].type = "DIR" /\ I[d].size \in IF in THEN {k, k + 1} ELSE {k}
      /\ \A l \in 0 .. k - 1 : BlockOf(I[d], l) = BlockOf(inodes[d], l)
      /\ I[d].size = k + 1 => BlockOf(I[d], k) = tb
      /\ I[n].next \in {inodes[n].next, None} /\ (I[n].type = "DIR" => I[n].size = 2)
      /\ \A b \in Block \ {tb, fb} : B[b] = blocks[b]
      /\ DOMAIN B[tb] = 0 .. EPB - 1
      /\ \A j \in 0 .. EPB - 1 : j # c => B[tb][j] = blocks[tb][j]
      /\ in => B[tb][c].inode_index = n
  BY <1>1, <1>2 DEF Entering
<1>4. k \in Nat /\ k # k + 1
  BY <1>1
<1>5. \A f, i, x : /\ DOMAIN Put(f, i, x) = DOMAIN f /\ (i \in DOMAIN f => Put(f, i, x)[i] = x)
                   /\ \A j \in DOMAIN f \ {i} : Put(f, i, x)[j] = f[j]
  BY DEF Put
<1>7. ASSUME NEW x, x.next \in {inodes[n].next, None}, x.type = "DIR" => x.size = 2
      PROVE  Entering(Put(I, n, x), B, S, d, n, tb, fb, in)
  <2>1. PICK J : J = Put(I, n, x)
    OBVIOUS
  <2>2. DOMAIN J = Inode /\ J[n] = x /\ \A j \in Inode \ {n} : J[j] = I[j]
    BY <1>3, <1>5, <2>1
  <2>3. Entering(J, B, S, d, n, tb, fb, in)
    BY <1>1, <1>2, <1>3, <1>7, <2>2 DEF Entering
  <2>. QED
    BY <2>1, <2>3
<1>8. ASSUME NEW x PROVE Entering(I, Put(B, fb, x), S, d, n, tb, fb, in)
  <2>1. PICK C : C = Put(B, fb, x)
    OBVIOUS
  <2>2. DOMAIN C = Block /\ \A b \in Block \ {fb} : C[b] = B[b]
    BY <1>3, <1>5, <2>1
  <2>3. Entering(I, C, S, d, n, tb, fb, in)
    BY <1>1, <1>2, <1>3, <2>2 DEF Entering
  <2>. QED
    BY <2>1, <2>3
<1>9. ASSUME NEW x, x.type = "DIR", x.size \in IF in THEN {k, k + 1} ELSE {k},
             \A l \in 0 .. k - 1 : BlockOf(x, l) = BlockOf(inodes[d], l),
             x.size = k + 1 => BlockOf(x, k) = tb
      PROVE  Entering(Put(I, d, x), B, S, d, n, tb, fb, in)
  <2>1. PICK J : J = Put(I, d, x)
    OBVIOUS
  <2>2. DOMAIN J = Inode /\ J[d] = x /\ \A j \in Inode \ {d} : J[j] = I[j]
    BY <1>3, <1>5, <2>1
  <2>3. Entering(J, B, S, d, n, tb, fb, in)
    BY <1>1, <1>2, <1>3, <1>9, <2>2 DEF Entering
  <2>. QED
    BY <2>1, <2>3
<1>10. ASSUME NEW x, DOMAIN x = 0 .. EPB - 1, x[c].inode_index = n,
              \A j \in 0 .. EPB - 1 : j # c => x[j] = blocks[tb][j]
       PROVE  Entering(I, Put(B, tb, x), S, d, n, tb, fb, TRUE)
  <2>1. PICK C : C = Put(B, tb, x)
    OBVIOUS
  <2>2. DOMAIN C = Block /\ C[tb] = x /\ \A b \in Block \ {tb} : C[b] = B[b]
    BY <1>3, <1>5, <2>1
  <2>3. Entering(I, C, S, d, n, tb, fb, TRUE)
    BY <1>1, <1>2, <1>3, <1>10, <2>2 DEF Entering
  <2>. QED
    BY <2>1, <2>3
<1>11. ASSUME NEW x, x.type = "DIR", x.size = inodes[d].size,
              \A l \in 0 .. inodes[d].size - 1 : BlockOf(x, l) = BlockOf(inodes[d], l)
       PROVE  Entering(Put(I, d, x), B, S, d, n, tb, fb, in)
  BY <1>1, <1>4, <1>9, <1>11
<1>12. ASSUME NEW x, in = TRUE, x.type = "DIR", x.size = inodes[d].size + 1,
              \A l \in 0 .. inodes[d].size - 1 : BlockOf(x, l) = BlockOf(inodes[d], l),
              BlockOf(x, inodes[d].size) = tb
       PROVE  Entering(Put(I, d, x), B, S, d, n, tb, fb, in)
  BY <1>1, <1>4, <1>9, <1>12
<1>13. ASSUME NEW x, DOMAIN x = 0 .. EPB - 1, x[inodes[d].size % EPB].inode_index = n,
              \A j \in 0 .. EPB - 1 : j # inodes[d].size % EPB => x[j] = blocks[tb][j]
       PROVE  Entering(I, Put(B, tb, x), S, d, n, tb, fb, TRUE)
  BY <1>1, <1>2, <1>10, <1>13
<1>14. \A x : x.next \in {inodes[n].next, None} /\ (x.type = "DIR" => x.size = 2)
                => Entering(Put(I, n, x), B, S, d, n, tb, fb, in)
  BY <1>7
<1>15. \A x : /\ x.type = "DIR" /\ x.size = inodes[d].size
              /\ \A l \in 0 .. inodes[d].size - 1 : BlockOf(x, l) = BlockOf(inodes[d], l)
              => Entering(Put(I, d, x), B, S, d, n, tb, fb, in)
  BY <1>11
<1>16. \A x : /\ in = TRUE /\ x.type = "DIR" /\ x.size = inodes[d].size + 1
              /\ \A l \in 0 .. inodes[d].size - 1 : BlockOf(x, l) = BlockOf(inodes[d], l)
              /\ BlockOf(x, inodes[d].size) = tb
              => Entering(Put(I, d, x), B, S, d, n, tb, fb, in)
  BY <1>12
<1>17. \A x : /\ DOMAIN x = 0 .. EPB - 1 /\ x[inodes[d].size % EPB].inode_index = n
              /\ \A j \in 0 .. EPB - 1 : j # inodes[d].size % EPB => x[j] = blocks[tb][j]
              => Entering(I, Put(B, tb, x), S, d, n, tb, fb, TRUE)
  BY <1>13
<1>. QED
  BY <1>8, <1>14, <1>15, <1>16, <1>17

Midway(D, d, n, tb, fb, in) ==
  \E I, B, S : D = Disk(I, B, S) /\ Entering(I, B, S, d, n, tb, fb, in)

\* Where a call that appends an entry puts it.
Placed(d, n, tb, fb) ==
  /\ d \in Directories /\ n = sb.free_inode /\ n # None /\ ~ DirFull(inodes[d])
  /\ tb \in Block /\ fb \in Block /\ tb = Target(inodes[d]) /\ fb = FreeAfter(inodes[d])
  /\ Grows(d, tb, fb)

LEMMA PlacedFacts ==
  ASSUME IInv, NEW d, NEW n, NEW tb, NEW fb, Placed(d, n, tb, fb)
  PROVE  /\ d \in Inode /\ n \in Inode /\ d # n /\ tb # fb /\ tb \in Block
         /\ inodes[d].size \in Nat /\ inodes[d].size >= 2 /\ inodes[d] \in InodeRecord
         /\ inodes[d].type = "DIR" /\ blocks \in [Block -> [0 .. EPB - 1 -> Dirent]]
         /\ n \in FreeInodes
<1>1. n \in FreeInodes /\ FreeInodes \subseteq Inode
  BY FreeListFacts DEF Placed
<1>2. /\ d \in Inode /\ d \in Allocated /\ inodes[d].size \in Nat /\ inodes[d].size >= 2
      /\ inodes[d].type = "DIR"
  BY InDirectories DEF Placed, IInv
<1>3. inodes[d] \in InodeRecord /\ blocks \in [Block -> [0 .. EPB - 1 -> Dirent]]
  BY <1>2 DEF IInv, Shapes
<1>. QED
  BY <1>1, <1>2, <1>3 DEF Placed, Grows, Allocated

LEMMA MidwayWrites ==
  ASSUME IInv, NEW d, NEW n, NEW tb, NEW fb, Placed(d, n, tb, fb), NEW in \in BOOLEAN,
         NEW D, Midway(D, d, n, tb, fb, in)
  PROVE  /\ \A x : x.free_inode = inodes[n].next
                     => Midway(Written(D, SuperblockWrite(x)), d, n, tb, fb, in)
         /\ \A x : x.next \in {inodes[n].next, None} /\ (x.type = "DIR" => x.size = 2)
                     => Midway(Written(D, InodeWrite(n, x)), d, n, tb, fb, in)
         /\ \A x : Midway(Written(D, BlockWrite(fb, x)), d, n, tb, fb, in)
         /\ Midway(Written(D, InodeWrite(d, [inodes[d] EXCEPT !.dblocks = Grown(inodes[d]).dblocks])),
                   d, n, tb, fb, in)
         /\ in = TRUE => Midway(Written(D, InodeWrite(d, Grown(inodes[d]))), d, n, tb, fb, in)
         /\ \A x : x.inode_index = n =>
              /\ Midway(Written(D, EntryWrite(tb, inodes[d].size % EPB, x)), d, n, tb, fb, TRUE)
              /\ Midway(Written(D, BlockWrite(tb, Put(blocks[tb], inodes[d].size % EPB, x))),
                        d, n, tb, fb, TRUE)
<1>1. PICK I, B, S : D = Disk(I, B, S) /\ Entering(I, B, S, d, n, tb, fb, in)
  BY DEF Midway
<1>2. /\ d \in Inode /\ n \in Inode /\ d # n /\ tb # fb /\ tb \in Block
      /\ inodes[d].size \in Nat /\ inodes[d].size >= 2
  BY PlacedFacts
<1>3. ASSUME NEW x, x.free_inode = inodes[n].next
      PROVE  Midway(Written(D, SuperblockWrite(x)), d, n, tb, fb, in)
  <2>1. Entering(I, B, x, d, n, tb, fb, in)
    BY <1>1, <1>3 DEF Entering
  <2>. QED
    BY <1>1, <2>1, WriteSuperblock DEF Midway
<1>4. ASSUME NEW x, x.next \in {inodes[n].next, None}, x.type = "DIR" => x.size = 2
      PROVE  Midway(Written(D, InodeWrite(n, x)), d, n, tb, fb, in)
  <2>1. Entering(Put(I, n, x), B, S, d, n, tb, fb, in)
    BY <1>1, <1>2, <1>4, EnteringWrites
  <2>. QED
    BY <1>1, <2>1, WriteInode DEF Midway
<1>5. ASSUME NEW x PROVE Midway(Written(D, BlockWrite(fb, x)), d, n, tb, fb, in)
  <2>1. Entering(I, Put(B, fb, x), S, d, n, tb, fb, in)
    BY <1>1, <1>2, EnteringWrites
  <2>. QED
    BY <1>1, <2>1, WriteBlock DEF Midway
<1>6. PICK g, m : g = Grown(inodes[d]) /\ m = [inodes[d] EXCEPT !.dblocks = Grown(inodes[d]).dblocks]
  OBVIOUS
<1>7. /\ g.type = "DIR" /\ g.size = inodes[d].size + 1
      /\ \A l \in 0 .. inodes[d].size - 1 : BlockOf(g, l) = BlockOf(inodes[d], l)
      /\ BlockOf(g, inodes[d].size) = tb
  BY <1>6 DEF Placed, Grows
<1>8. m.type = "DIR" /\ m.size = inodes[d].size /\ m.dblocks = g.dblocks
  <2>1. PICK ty, a, b, c, e, f :
          inodes[d] = [type |-> ty, parent |-> a, next |-> b, size |-> c, dblocks |-> e, last |-> f]
    BY PlacedFacts, RecordParts
  <2>. QED
    BY <1>6, <2>1, PlacedFacts
<1>9. \A l : BlockOf(m, l) = BlockOf(g, l)
  BY <1>8 DEF BlockOf
<1>10. Midway(Written(D, InodeWrite(d, m)), d, n, tb, fb, in)
  <2>1. \A l \in 0 .. inodes[d].size - 1 : BlockOf(m, l) = BlockOf(inodes[d], l)
    BY <1>7, <1>9
  <2>2. \A x : /\ x.type = "DIR" /\ x.size = inodes[d].size
               /\ \A l \in 0 .. inodes[d].size - 1 : BlockOf(x, l) = BlockOf(inodes[d], l)
               => Entering(Put(I, d, x), B, S, d, n, tb, fb, in)
    BY <1>1, <1>2, EnteringWrites
  <2>3. Entering(Put(I, d, m), B, S, d, n, tb, fb, in)
    BY <1>8, <2>1, <2>2, Zenon
  <2>. QED
    BY <1>1, <2>3, WriteInode DEF Midway
<1>11. ASSUME in = TRUE PROVE Midway(Written(D, InodeWrite(d, g)), d, n, tb, fb, in)
  <2>1. Entering(Put(I, d, g), B, S, d, n, tb, fb, in)
    BY <1>1, <1>2, <1>7, <1>11, EnteringWrites
  <2>. QED
    BY <1>1, <2>1, WriteInode DEF Midway
<1>12. PICK c : c = inodes[d].size % EPB
  OBVIOUS
<1>13. c \in 0 .. EPB - 1
  BY <1>2, <1>12, Place
<1>14. ASSUME NEW x, x.inode_index = n, NEW old, DOMAIN old = 0 .. EPB - 1,
              \A j \in 0 .. EPB - 1 : j # c => old[j] = blocks[tb][j]
       PROVE  Entering(I, Put(B, tb, Put(old, c, x)), S, d, n, tb, fb, TRUE)
  <2>1. PICK y : y = Put(old, c, x)
    OBVIOUS
  <2>2. DOMAIN y = 0 .. EPB - 1 /\ y[c] = x /\ \A j \in 0 .. EPB - 1 : j # c => y[j] = old[j]
    BY <1>13, <1>14, <2>1 DEF Put
  <2>3. DOMAIN y = 0 .. EPB - 1 /\ y[inodes[d].size % EPB].inode_index = n
        /\ \A j \in 0 .. EPB - 1 : j # inodes[d].size % EPB => y[j] = blocks[tb][j]
    BY <1>12, <1>14, <2>2
  <2>. QED
    BY <1>1, <1>2, <2>1, <2>3, EnteringWrites
<1>15. ASSUME NEW x, x.inode_index = n
       PROVE  /\ Midway(Written(D, EntryWrite(tb, c, x)), d, n, tb, fb, TRUE)
              /\ Midway(Written(D, BlockWrite(tb, Put(blocks[tb], c, x))), d, n, tb, fb, TRUE)
  <2>1. DOMAIN B[tb] = 0 .. EPB - 1 /\ \A j \in 0 .. EPB - 1 : j # c => B[tb][j] = blocks[tb][j]
    BY <1>1, <1>12 DEF Entering
  <2>2. DOMAIN blocks[tb] = 0 .. EPB - 1
    BY <1>2, PlacedFacts
  <2>3. Entering(I, Put(B, tb, Put(B[tb], c, x)), S, d, n, tb, fb, TRUE)
    BY <1>14, <1>15, <2>1
  <2>4. Entering(I, Put(B, tb, Put(blocks[tb], c, x)), S, d, n, tb, fb, TRUE)
    BY <1>14, <1>15, <2>2
  <2>5. Written(D, EntryWrite(tb, c, x)) = Disk(I, Put(B, tb, Put(B[tb], c, x)), S)
    BY <1>1, WriteEntry
  <2>6. Written(D, BlockWrite(tb, Put(blocks[tb], c, x))) = Disk(I, Put(B, tb, Put(blocks[tb], c, x)), S)
    BY <1>1, WriteBlock
  <2>. QED
    BY <2>3, <2>4, <2>5, <2>6 DEF Midway
<1>16. \A x : x.free_inode = inodes[n].next => Midway(Written(D, SuperblockWrite(x)), d, n, tb, fb, in)
  BY <1>3
<1>17. \A x : x.next \in {inodes[n].next, None} /\ (x.type = "DIR" => x.size = 2)
                => Midway(Written(D, InodeWrite(n, x)), d, n, tb, fb, in)
  BY <1>4
<1>18. \A x : x.inode_index = n =>
         /\ Midway(Written(D, EntryWrite(tb, inodes[d].size % EPB, x)), d, n, tb, fb, TRUE)
         /\ Midway(Written(D, BlockWrite(tb, Put(blocks[tb], inodes[d].size % EPB, x))), d, n, tb, fb, TRUE)
  BY <1>12, <1>15
<1>. QED
  BY <1>5, <1>6, <1>10, <1>11, <1>16, <1>17, <1>18

LEMMA AppendPrefixes ==
  ASSUME IInv, NoFreeDirectory, NEW d, NEW n, NEW tb, NEW fb, Placed(d, n, tb, fb), d = DirIno,
         NEW e, e.inode_index = n, NEW f, NEW m, m = Len(AppendWrites(inodes[d], e)),
         Steps(f, Found, AppendWrites(inodes[d], e), m)
  PROVE  /\ m \in Nat
         /\ \A j \in 0 .. m : Midway(f[j], d, n, tb, fb, FALSE) \/ Midway(f[j], d, n, tb, fb, TRUE)
         /\ Midway(f[m], d, n, tb, fb, TRUE)
<1>1. PICK dn, c, w : dn = inodes[d] /\ c = dn.size % EPB /\ w = AppendWrites(dn, e)
  OBVIOUS
<1>2. f[0] = Found /\ \A k \in 1 .. m : f[k] = Written(f[k - 1], w[k])
  BY <1>1 DEF Steps
<1>3. Midway(f[0], d, n, tb, fb, FALSE)
  <2>1. Entering(inodes, blocks, sbdisk, d, n, tb, fb, FALSE)
    BY EnteringStarts DEF Placed
  <2>. QED
    BY <1>2, <2>1 DEF Found, Midway
<1>4. ~ DirFull(dn) /\ tb = Target(dn)
  BY <1>1 DEF Placed
<1>5. CASE ~ Spills(dn)
  <2>1. PICK w1, w2 : w1 = BlockWrite(tb, Put(blocks[tb], c, e)) /\ w2 = InodeWrite(d, Grown(dn))
    OBVIOUS
  <2>2. w = <<w1, w2>>
    BY <1>1, <1>4, <1>5, <2>1 DEF AppendWrites, Put
  <2>3. m = 2 /\ w[1] = w1 /\ w[2] = w2
    BY <1>1, <2>2
  <2>4. f[1] = Written(f[0], w1) /\ f[2] = Written(f[1], w2)
    <3>1. 1 \in 1 .. m /\ 2 \in 1 .. m /\ 1 - 1 = 0 /\ 2 - 1 = 1
      BY <2>3
    <3>. QED
      BY <1>2, <2>3, <3>1
  <2>5. Midway(f[1], d, n, tb, fb, TRUE)
    <3>1. Midway(Written(f[0], BlockWrite(tb, Put(blocks[tb], inodes[d].size % EPB, e))),
                 d, n, tb, fb, TRUE)
      BY <1>1, <1>3, MidwayWrites
    <3>. QED
      BY <1>1, <2>1, <2>4, <3>1
  <2>6. Midway(f[2], d, n, tb, fb, TRUE)
    <3>1. Midway(Written(f[1], InodeWrite(d, Grown(inodes[d]))), d, n, tb, fb, TRUE)
      BY <2>5, MidwayWrites
    <3>. QED
      BY <1>1, <2>1, <2>4, <3>1
  <2>7. m \in Nat /\ \A j \in 0 .. m : j = 0 \/ j = 1 \/ j = 2
    BY <2>3
  <2>. QED
    BY <1>3, <2>3, <2>5, <2>6, <2>7, Zenon
<1>6. CASE Spills(dn)
  <2>1. PICK w1, w2, w3, w4 :
          /\ w1 = SuperblockWrite(SbAfter(NextFree(sb.free_block)))
          /\ w2 = InodeWrite(d, [dn EXCEPT !.dblocks = Grown(dn).dblocks])
          /\ w3 = EntryWrite(tb, c, e)
          /\ w4 = InodeWrite(d, Grown(dn))
    OBVIOUS
  <2>2. w = <<w1>> \o <<w2, w3, w4>>
    <3>1. c = 0
      BY <1>1, <1>6 DEF Spills
    <3>. QED
      BY <1>1, <1>4, <1>6, <2>1, <3>1 DEF AppendWrites
  <2>3. m = 4 /\ w[1] = w1 /\ w[2] = w2 /\ w[3] = w3 /\ w[4] = w4
    BY <1>1, <2>2
  <2>4. /\ f[1] = Written(f[0], w1) /\ f[2] = Written(f[1], w2)
        /\ f[3] = Written(f[2], w3) /\ f[4] = Written(f[3], w4)
    <3>1. /\ 1 \in 1 .. m /\ 2 \in 1 .. m /\ 3 \in 1 .. m /\ 4 \in 1 .. m
          /\ 1 - 1 = 0 /\ 2 - 1 = 1 /\ 3 - 1 = 2 /\ 4 - 1 = 3
      BY <2>3
    <3>. QED
      BY <1>2, <2>3, <3>1
  <2>5. Midway(f[1], d, n, tb, fb, FALSE)
    <3>1. SbAfter(NextFree(sb.free_block)).free_inode = inodes[n].next
      BY DEF SbAfter, Placed
    <3>. QED
      BY <1>3, <2>1, <2>4, <3>1, MidwayWrites
  <2>6. Midway(f[2], d, n, tb, fb, FALSE)
    <3>1. Midway(Written(f[1], InodeWrite(d, [inodes[d] EXCEPT !.dblocks = Grown(inodes[d]).dblocks])),
                 d, n, tb, fb, FALSE)
      BY <2>5, MidwayWrites
    <3>. QED
      BY <1>1, <2>1, <2>4, <3>1
  <2>7. Midway(f[3], d, n, tb, fb, TRUE)
    <3>1. Midway(Written(f[2], EntryWrite(tb, inodes[d].size % EPB, e)), d, n, tb, fb, TRUE)
      BY <2>6, MidwayWrites
    <3>. QED
      BY <1>1, <2>1, <2>4, <3>1
  <2>8. Midway(f[4], d, n, tb, fb, TRUE)
    <3>1. Midway(Written(f[3], InodeWrite(d, Grown(inodes[d]))), d, n, tb, fb, TRUE)
      BY <2>7, MidwayWrites
    <3>. QED
      BY <1>1, <2>1, <2>4, <3>1
  <2>9. m \in Nat /\ \A j \in 0 .. m : j = 0 \/ j = 1 \/ j = 2 \/ j = 3 \/ j = 4
    BY <2>3
  <2>. QED
    BY <1>3, <2>3, <2>5, <2>6, <2>7, <2>8, <2>9, Zenon
<1>. QED
  BY <1>5, <1>6

\* What may be written when the entry is in its place.
Harmless(w, d, n, tb, fb) ==
  \A D : Midway(D, d, n, tb, fb, TRUE) => Midway(Written(D, w), d, n, tb, fb, TRUE)

LEMMA RestKeeps ==
  ASSUME NEW d, NEW n, NEW tb, NEW fb, NEW f, NEW w, NEW m \in Nat, NEW l \in Nat, m <= l,
         Steps(f, Found, w, l), Midway(f[m], d, n, tb, fb, TRUE),
         \A j \in m + 1 .. l : Harmless(w[j], d, n, tb, fb)
  PROVE  \A j \in m .. l : Midway(f[j], d, n, tb, fb, TRUE)
<1> DEFINE Bad == {j \in m .. l : ~ Midway(f[j], d, n, tb, fb, TRUE)}
<1>1. SUFFICES ASSUME Bad # {} PROVE FALSE
  OBVIOUS
<1>2. PICK j \in Bad : \A i \in Bad : j <= i
  <2>1. Bad \in SUBSET Nat
    <3>1. \A j \in m .. l : j \in Nat
      OBVIOUS
    <3>2. \A j \in Bad : j \in m .. l
      BY Zenon
    <3>. QED
      BY <3>1, <3>2, Zenon
  <2>. HIDE DEF Bad
  <2>. QED
    BY <1>1, <2>1, LeastNat
<1>3. j \in m .. l /\ j # m /\ ~ Midway(f[j], d, n, tb, fb, TRUE)
  BY <1>2
<1>4. j \in m + 1 .. l /\ j \in 1 .. l /\ j - 1 \in m .. l /\ ~ (j <= j - 1)
  BY <1>3
<1>5. Midway(f[j - 1], d, n, tb, fb, TRUE)
  BY <1>2, <1>4
<1>6. Midway(Written(f[j - 1], w[j]), d, n, tb, fb, TRUE)
  BY <1>4, <1>5 DEF Harmless
<1>7. f[j] = Written(f[j - 1], w[j])
  BY <1>4 DEF Steps
<1>. QED
  BY <1>3, <1>6, <1>7

LEMMA MakingPrefixes ==
  ASSUME IInv, NoFreeDirectory, NEW d, NEW n, NEW tb, NEW fb, Placed(d, n, tb, fb), d = DirIno,
         NEW e, e.inode_index = n, NEW rest, IsWrites(rest),
         \A j \in 1 .. Len(rest) : Harmless(rest[j], d, n, tb, fb),
         NEW w, w = AppendWrites(inodes[d], e) \o rest, NEW k \in 0 .. Len(w)
  PROVE  \/ Midway(DiskAfter(SubSeq(w, 1, k)), d, n, tb, fb, FALSE)
         \/ Midway(DiskAfter(SubSeq(w, 1, k)), d, n, tb, fb, TRUE)
<1>1. PICK a, m, r, l : a = AppendWrites(inodes[d], e) /\ m = Len(a) /\ r = Len(rest) /\ l = Len(w)
  OBVIOUS
<1>2. IsWrites(a)
  BY <1>1, AppendDone
<1>3. /\ m \in Nat /\ r \in Nat /\ l = m + r /\ l \in Nat /\ IsWrites(w)
      /\ \A j \in 1 .. m : w[j] = a[j]
      /\ \A j \in m + 1 .. l : w[j] = rest[j - m]
  <2>1. /\ m \in Nat /\ r \in Nat /\ l = m + r /\ IsWrites(w)
        /\ \A j \in 1 .. m : w[j] = a[j]
        /\ \A j \in m + 1 .. m + r : w[j] = rest[j - m]
    BY <1>1, <1>2, Joined
  <2>2. l = m + r /\ l \in Nat
    BY <2>1
  <2>3. \A j \in m + 1 .. l : w[j] = rest[j - m]
    BY <2>1, <2>2, Zenon
  <2>. QED
    BY <2>1, <2>2, <2>3, Zenon
<1>4. PICK f : Steps(f, Found, w, l) /\ DiskAfter(SubSeq(w, 1, k)) = f[k]
  <2>1. \E f : Steps(f, Found, w, Len(w)) /\ DiskAfter(SubSeq(w, 1, k)) = f[k]
    <3>1. IsWrites(w) /\ k \in 0 .. Len(w)
      BY <1>1, <1>3
    <3>. QED
      BY <3>1, Prefix
  <2>. QED
    BY <1>1, <2>1, Zenon
<1>5. f[0] = Found /\ \A j \in 1 .. l : f[j] = Written(f[j - 1], w[j])
  BY <1>4 DEF Steps
<1>6. Steps(f, Found, a, m)
  <2>1. \A j \in 1 .. m : j \in 1 .. l
    BY <1>3
  <2>. QED
    BY <1>3, <1>5, <2>1 DEF Steps
<1>7. /\ \A j \in 0 .. m : Midway(f[j], d, n, tb, fb, FALSE) \/ Midway(f[j], d, n, tb, fb, TRUE)
      /\ Midway(f[m], d, n, tb, fb, TRUE)
  BY <1>1, <1>6, AppendPrefixes
<1>8. \A j \in m + 1 .. l : Harmless(w[j], d, n, tb, fb)
  <2>1. \A j \in m + 1 .. l : j - m \in 1 .. r
    BY <1>3
  <2>. QED
    BY <1>1, <1>3, <2>1
<1>9. m <= l
  BY <1>3
<1>10. \A j \in m .. l : Midway(f[j], d, n, tb, fb, TRUE)
  BY <1>3, <1>4, <1>7, <1>8, <1>9, RestKeeps
<1>11. k \in 0 .. m \/ k \in m .. l
  BY <1>1, <1>3
<1>. QED
  BY <1>4, <1>7, <1>10, <1>11, Zenon

\* Whatever f_mkdir or f_open have written of a new inode when the process dies.
LEMMA MakingDies ==
  ASSUME IInv, NoFreeDirectory, Orderly, Making, NEW garbage, NEW k \in 0 .. Len(Writes(garbage))
  PROVE  LET disk_ == DiskAfter(SubSeq(Writes(garbage), 1, k))
             d     == DirIno
             n     == sb.free_inode
             tb    == Target(DirNode)
             fb    == FreeAfter(DirNode)
         IN  Placed(d, n, tb, fb) /\ (Midway(disk_, d, n, tb, fb, FALSE) \/ Midway(disk_, d, n, tb, fb, TRUE))
<1>1. PICK dn, d, n, tb, fb, e :
        /\ dn = DirNode /\ d = DirIno /\ n = sb.free_inode /\ tb = Target(dn) /\ fb = FreeAfter(dn)
        /\ e = Entry(n, call.name)
  OBVIOUS
<1>2. /\ call.pc = "ready" /\ Appends /\ ~ NoBlock(DirNode) /\ n # None
      /\ call.op = "f_mkdir" \/ call.op = "f_open_write"
  BY <1>1 DEF Making, Appends
<1>3. /\ dn = inodes[d] /\ d \in Directories /\ ~ DirFull(dn) /\ tb \in Block /\ fb \in Block
      /\ Spills(dn) \/ tb = BlockOf(dn, dn.size - 1)
  BY <1>1, <1>2, DirSlotRight, CreatePlace
<1>4. Grows(d, tb, fb)
  BY <1>1, <1>3, PlaceGrows
<1>5. Placed(d, n, tb, fb)
  BY <1>1, <1>2, <1>3, <1>4 DEF Placed
<1>6. e.inode_index = n
  BY <1>1 DEF Entry
<1>7. /\ d # n /\ n \in Inode /\ inodes[n] \in InodeRecord
  BY <1>5, PlacedFacts DEF IInv, Shapes
<1>8. ASSUME NEW x, x.next \in {inodes[n].next, None}, x.type = "DIR" => x.size = 2
      PROVE  Harmless(InodeWrite(n, x), d, n, tb, fb)
  BY <1>5, <1>8, MidwayWrites DEF Harmless
<1>9. ASSUME NEW x PROVE Harmless(BlockWrite(fb, x), d, n, tb, fb)
  BY <1>5, MidwayWrites DEF Harmless
<1>10. ASSUME NEW x PROVE Harmless(SuperblockWrite(SbAfter(x)), d, n, tb, fb)
  <2>1. SbAfter(x).free_inode = inodes[n].next
    BY <1>1 DEF SbAfter
  <2>. QED
    BY <1>5, <2>1, MidwayWrites DEF Harmless
<1>11. PICK ty, pa, nx, sz, db, la :
         inodes[n] = [type |-> ty, parent |-> pa, next |-> nx, size |-> sz, dblocks |-> db, last |-> la]
  <2>1. PICK old \in InodeRecord : old = inodes[n]
    BY <1>7
  <2>2. old = [type |-> old.type, parent |-> old.parent, next |-> old.next, size |-> old.size,
               dblocks |-> old.dblocks, last |-> old.last]
    BY RecordParts
  <2>. QED
    BY <2>1, <2>2
<1>12. CASE call.op = "f_mkdir"
  <2>1. PICK nn : nn = NewDirNode(inodes[n], dn, d)
    OBVIOUS
  <2>2. nn.next = inodes[n].next /\ nn.type = "DIR" /\ nn.size = 2
    BY <1>11, <2>1 DEF NewDirNode
  <2>3. PICK w1, w2, w3, rest :
          /\ w1 = BlockWrite(fb, NewDirBlock(GivenBlock(dn, n), n, DirIno))
          /\ w2 = SuperblockWrite(SbAfter(GivenBlock(dn, n)[0].inode_index))
          /\ w3 = InodeWrite(n, nn) /\ rest = <<w1, w2, w3>>
    OBVIOUS
  <2>4. Writes(garbage) = AppendWrites(dn, e) \o rest
    <3>1. Writes(garbage) = MkdirWrites(dn, n)
      BY <1>1, <1>12, WritesIs
    <3>. QED
      BY <1>1, <1>3, <2>1, <2>3, <3>1 DEF MkdirWrites
  <2>5. IsWrites(rest)
    BY <2>3, WritesAre, AfterThree
  <2>6. Len(rest) = 3 /\ rest[1] = w1 /\ rest[2] = w2 /\ rest[3] = w3
    BY <2>3
  <2>7. \A j \in 1 .. Len(rest) : Harmless(rest[j], d, n, tb, fb)
    <3>1. \A j \in 1 .. 3 : j = 1 \/ j = 2 \/ j = 3
      OBVIOUS
    <3>2. Harmless(w1, d, n, tb, fb) /\ Harmless(w2, d, n, tb, fb) /\ Harmless(w3, d, n, tb, fb)
      BY <1>8, <1>9, <1>10, <2>2, <2>3
    <3>. QED
      BY <2>6, <3>1, <3>2
  <2>8. PICK w : w = Writes(garbage)
    OBVIOUS
  <2>9. \/ Midway(DiskAfter(SubSeq(w, 1, k)), d, n, tb, fb, FALSE)
        \/ Midway(DiskAfter(SubSeq(w, 1, k)), d, n, tb, fb, TRUE)
    BY <1>1, <1>3, <1>5, <1>6, <2>4, <2>5, <2>7, <2>8, MakingPrefixes
  <2>. QED
    BY <1>1, <1>5, <2>8, <2>9, Zenon
<1>13. CASE call.op = "f_open_write"
  <2>1. PICK nn : nn = NewFileNode(dn, n)
    OBVIOUS
  <2>2. nn.next = None /\ nn.type = "REG"
    BY <1>1, <1>7, <1>11, <2>1 DEF NewFileNode
  <2>3. PICK w1, w2, rest :
          /\ w1 = InodeWrite(n, nn)
          /\ w2 = SuperblockWrite(SbAfter(GivenBlock(dn, n)[0].inode_index))
          /\ rest = IF table_freehead = None THEN <<>> ELSE <<w1, w2>>
    OBVIOUS
  <2>4. Writes(garbage) = AppendWrites(dn, e) \o rest
    <3>1. Writes(garbage) = CreateWrites(dn, n)
      BY <1>1, <1>13, WritesIs
    <3>. QED
      BY <1>1, <1>3, <2>1, <2>3, <3>1 DEF CreateWrites
  <2>5. IsWrites(rest)
    BY <2>3, WritesAre, AfterTwo, AfterNone
  <2>6. rest = <<>> \/ (Len(rest) = 2 /\ rest[1] = w1 /\ rest[2] = w2)
    BY <2>3
  <2>7. \A j \in 1 .. Len(rest) : Harmless(rest[j], d, n, tb, fb)
    <3>1. \A j \in 1 .. 2 : j = 1 \/ j = 2
      OBVIOUS
    <3>2. Harmless(w1, d, n, tb, fb) /\ Harmless(w2, d, n, tb, fb)
      BY <1>8, <1>10, <2>2, <2>3
    <3>3. rest = <<>> => \A j \in 1 .. Len(rest) : FALSE
      OBVIOUS
    <3>. QED
      BY <2>6, <3>1, <3>2, <3>3
  <2>8. PICK w : w = Writes(garbage)
    OBVIOUS
  <2>9. \/ Midway(DiskAfter(SubSeq(w, 1, k)), d, n, tb, fb, FALSE)
        \/ Midway(DiskAfter(SubSeq(w, 1, k)), d, n, tb, fb, TRUE)
    BY <1>1, <1>3, <1>5, <1>6, <2>4, <2>5, <2>7, <2>8, MakingPrefixes
  <2>. QED
    BY <1>1, <1>5, <2>8, <2>9, Zenon
<1>. QED
  BY <1>2, <1>12, <1>13

\* The disk while entry k of directory d is removed, and file t with it; in, once t is linked
\* to the free inodes.
Leaving(I, B, S, d, k, t, about, in) ==
  LET last == inodes[d].size - 1
      lb   == BlockOf(inodes[d], inodes[d].size - 1)
      kb   == BlockOf(inodes[d], k)
  IN  /\ DOMAIN I = Inode /\ DOMAIN B = Block
      /\ S.free_inode = sb.free_inode \/ (in /\ S.free_inode = t)
      /\ in => I[t].next = sb.free_inode
      /\ \A i \in Inode \ {d, t} : I[i] = inodes[i]
      /\ I[t].type = "REG" /\ I[d].type = "DIR" /\ I[d].dblocks = inodes[d].dblocks
      /\ I[d].size \in {last, last + 1}
      /\ \A b \in Block : DOMAIN B[b] = 0 .. EPB - 1
      /\ \A b \in Block : \A c \in 0 .. EPB - 1 :
           \/ B[b][c] = blocks[b][c]
           \/ b = kb /\ c = k % EPB
           \/ b = lb /\ c = last % EPB
      /\ B[kb][k % EPB].inode_index \in about /\ B[lb][last % EPB].inode_index \in about

\* The entry f_remove removes.
Taken(d, k, t, about) ==
  /\ d \in Directories /\ k \in 2 .. inodes[d].size - 1
  /\ t = EntryAt(inodes[d], k).inode_index /\ t \in Allocated /\ inodes[t].type = "REG"
  /\ t \in about /\ EntryAt(inodes[d], inodes[d].size - 1).inode_index \in about
  /\ StartsBlock(inodes[d].size - 1) => sb.free_block \in about

LEMMA TakenFacts ==
  ASSUME IInv, NEW d, NEW k, NEW t, NEW about, Taken(d, k, t, about)
  PROVE  LET last == inodes[d].size - 1
             lb   == BlockOf(inodes[d], inodes[d].size - 1)
             kb   == BlockOf(inodes[d], k)
         IN  /\ Shapes /\ Kinds /\ HeldOnce
             /\ d \in Allocated /\ d \in Inode /\ t \in Inode /\ d # t /\ t \notin FreeInodes
             /\ inodes[d].size \in Nat /\ last \in Nat /\ k \in Nat /\ inodes[d].size = last + 1
             /\ Held(d) = 0 .. last /\ k \in Held(d) /\ last \in Held(d)
             /\ lb \in Block /\ kb \in Block
             /\ k % EPB \in 0 .. EPB - 1 /\ last % EPB \in 0 .. EPB - 1
             /\ inodes[d].type = "DIR" /\ inodes[d] \in InodeRecord
             /\ blocks \in [Block -> [0 .. EPB - 1 -> Dirent]]
<1>1. PICK z : z = inodes[d].size
  OBVIOUS
<1>2. /\ Shapes /\ Kinds /\ HeldOnce /\ d \in Allocated /\ d \in Inode /\ inodes[d].type = "DIR"
      /\ z \in Nat /\ z >= 2 /\ Held(d) = 0 .. z - 1 /\ k \in 2 .. z - 1
  BY <1>1, InDirectories DEF Taken, IInv
<1>3. t \in Inode /\ d # t /\ t \notin FreeInodes
  BY <1>2 DEF Taken, Allocated
<1>4. k \in Held(d) /\ z - 1 \in Held(d) /\ k \in Nat /\ z - 1 \in Nat /\ z = (z - 1) + 1
  BY <1>2
<1>5. BlockOf(inodes[d], z - 1) \in Block /\ BlockOf(inodes[d], k) \in Block
  BY <1>2, <1>4, HeldPlace
<1>6. k % EPB \in 0 .. EPB - 1 /\ (z - 1) % EPB \in 0 .. EPB - 1
  BY <1>4, Place
<1>7. inodes[d] \in InodeRecord /\ blocks \in [Block -> [0 .. EPB - 1 -> Dirent]]
  BY <1>2 DEF Shapes
<1>. QED
  BY <1>1, <1>2, <1>3, <1>4, <1>5, <1>6, <1>7

LEMMA LeavingKeeps ==
  ASSUME IInv, NoFreeDirectory, NEW d, NEW k, NEW t, NEW about, Taken(d, k, t, about),
         NEW in \in BOOLEAN, Leaving(inodes', blocks', sb', d, k, t, about, in)
  PROVE  Others(Entries', about) = Others(Entries, about)
<1>1. PICK last, lb, kb : /\ last = inodes[d].size - 1 /\ lb = BlockOf(inodes[d], inodes[d].size - 1)
                          /\ kb = BlockOf(inodes[d], k)
  OBVIOUS
<1>2. /\ Shapes /\ Kinds /\ HeldOnce /\ d \in Directories
      /\ d \in Allocated /\ d \in Inode /\ t \in Inode /\ d # t /\ t \notin FreeInodes
      /\ last \in Nat /\ k \in Nat /\ inodes[d].size = last + 1
      /\ Held(d) = 0 .. last /\ k \in Held(d) /\ last \in Held(d)
      /\ inodes[d].type = "DIR" /\ inodes[t].type = "REG" /\ t \in about
      /\ EntryAt(inodes[d], k).inode_index = t /\ EntryAt(inodes[d], last).inode_index \in about
  <2>1. /\ d \in Directories /\ inodes[t].type = "REG" /\ t \in about
        /\ EntryAt(inodes[d], k).inode_index = t
        /\ EntryAt(inodes[d], inodes[d].size - 1).inode_index \in about
    BY DEF Taken
  <2>2. /\ Shapes /\ Kinds /\ HeldOnce
        /\ d \in Allocated /\ d \in Inode /\ t \in Inode /\ d # t /\ t \notin FreeInodes
        /\ last \in Nat /\ k \in Nat /\ inodes[d].size = last + 1
        /\ Held(d) = 0 .. last /\ k \in Held(d) /\ last \in Held(d) /\ inodes[d].type = "DIR"
    BY <1>1, TakenFacts
  <2>. QED
    BY <1>1, <2>1, <2>2
<1>3. /\ sb'.free_inode = sb.free_inode \/ (in /\ sb'.free_inode = t)
      /\ in => inodes'[t].next = sb.free_inode
      /\ \A i \in Inode \ {d, t} : inodes'[i] = inodes[i]
      /\ inodes'[t].type = "REG" /\ inodes'[d].type = "DIR" /\ inodes'[d].dblocks = inodes[d].dblocks
      /\ inodes'[d].size \in {last, last + 1}
  BY <1>1 DEF Leaving
<1>4. /\ \A b \in Block : \A c \in 0 .. EPB - 1 :
           \/ blocks'[b][c] = blocks[b][c]
           \/ b = kb /\ c = k % EPB
           \/ b = lb /\ c = last % EPB
      /\ blocks'[kb][k % EPB].inode_index \in about /\ blocks'[lb][last % EPB].inode_index \in about
  BY <1>1 DEF Leaving
<1>5. /\ FreeInodes \subseteq Inode
      /\ sb.free_inode \in Inode => sb.free_inode \in FreeInodes
      /\ \A i \in FreeInodes : inodes[i].next \in Inode => inodes[i].next \in FreeInodes
  <2>1. FreeInodes \subseteq Inode /\ \A i \in FreeInodes : NextInode[i] = inodes[i].next
    BY FreeListFacts
  <2>2. /\ sb.free_inode \in Inode => sb.free_inode \in FreeInodes
        /\ \A i \in FreeInodes : NextInode[i] \in Inode => NextInode[i] \in FreeInodes
    BY ListClosed, FiniteRegions DEF FreeInodes
  <2>. QED
    BY <2>1, <2>2
<1>6. \A i \in FreeInodes : i # d /\ i # t /\ inodes'[i] = inodes[i]
  <2>1. d \notin FreeInodes
    BY <1>2 DEF Allocated
  <2>. QED
    BY <1>2, <1>3, <1>5, <2>1
<1>7. ASSUME NEW e \in Directories, NEW l \in 0 .. inodes[e].size - 1
      PROVE  /\ e = d /\ l \in {k, last} => EntryAfter(e, l).inode_index \in about
             /\ ~ (e = d /\ l \in {k, last}) => EntryAfter(e, l) = EntryAt(inodes[e], l)
  <2>1. e \in Allocated /\ l \in Held(e) /\ e # t /\ e \in Inode
    <3>1. e \in Allocated /\ e \in Inode /\ l \in Held(e)
      BY <1>2, InDirectories
    <3>2. inodes[e].type = "DIR"
      BY DEF Directories
    <3>. QED
      BY <1>2, <3>1, <3>2
  <2>2. BlockOf(inodes'[e], l) = BlockOf(inodes[e], l)
    BY <1>3, <2>1 DEF BlockOf
  <2>3. PICK b, c : b = BlockOf(inodes[e], l) /\ c = l % EPB
    OBVIOUS
  <2>4. b \in Block /\ c \in 0 .. EPB - 1 /\ l \in Nat
    BY <1>2, <2>1, <2>3, HeldPlace, Place
  <2>5. EntryAfter(e, l) = blocks'[b][c] /\ EntryAt(inodes[e], l) = blocks[b][c]
    BY <2>2, <2>3 DEF EntryAfter, EntryAt
  <2>6. b = kb /\ c = k % EPB => e = d /\ l = k
    <3>1. SUFFICES ASSUME BlockOf(inodes[e], l) = BlockOf(inodes[d], k), l % EPB = k % EPB
                   PROVE  e = d /\ l = k
      BY <1>1, <1>2, <2>3
    <3>. QED
      BY <1>2, <2>1, <3>1, PlacesApart
  <2>7. b = lb /\ c = last % EPB => e = d /\ l = last
    <3>1. SUFFICES ASSUME BlockOf(inodes[e], l) = BlockOf(inodes[d], last), l % EPB = last % EPB
                   PROVE  e = d /\ l = last
      BY <1>1, <1>2, <2>3
    <3>. QED
      BY <1>2, <2>1, <3>1, PlacesApart
  <2>8. e = d /\ l = k => b = kb /\ c = k % EPB
    BY <1>1, <2>3
  <2>9. e = d /\ l = last => b = lb /\ c = last % EPB
    BY <1>1, <2>3
  <2>. QED
    BY <1>4, <2>4, <2>5, <2>6, <2>7, <2>8, <2>9
<1>8. \A e \in Directories \ {d} : inodes'[e].size = inodes[e].size /\ inodes'[e].type = "DIR"
  BY <1>2, <1>3 DEF Directories, Allocated
<1>9. \A e \in Directories : inodes[e].size \in Nat
  BY <1>2, InDirectories
<1>10. ASSUME NEW e \in Directories, NEW l \in 2 .. inodes[e].size - 1,
              EntryAt(inodes[e], l).inode_index \notin about
       PROVE  l \in 2 .. inodes'[e].size - 1 /\ EntryAfter(e, l) = EntryAt(inodes[e], l)
  <2>1. l \in 0 .. inodes[e].size - 1
    BY <1>9
  <2>2. ~ (e = d /\ l \in {k, last})
    BY <1>2, <1>10
  <2>3. e = d => l \in 2 .. last - 1
    BY <1>2, <2>2
  <2>. QED
    BY <1>2, <1>3, <1>7, <1>8, <2>1, <2>2, <2>3
<1>11. ASSUME NEW e \in Directories, NEW l \in 2 .. inodes'[e].size - 1,
              EntryAfter(e, l).inode_index \notin about
       PROVE  l \in 2 .. inodes[e].size - 1 /\ EntryAfter(e, l) = EntryAt(inodes[e], l)
  <2>1. l \in 2 .. inodes[e].size - 1 /\ l \in 0 .. inodes[e].size - 1
    BY <1>2, <1>3, <1>8, <1>9
  <2>. QED
    BY <1>7, <1>11, <2>1
<1>12. PICK E : E = IF sb'.free_inode = t THEN {t} ELSE {}
  OBVIOUS
<1>13. E \in SUBSET Inode /\ E \cap Directories = {}
  BY <1>2, <1>12 DEF Directories
<1>14. sb'.free_inode \in Inode => sb'.free_inode \in FreeInodes \cup E
  BY <1>3, <1>5, <1>12
<1>15. \A i \in FreeInodes \cup E : inodes'[i].next \in Inode => inodes'[i].next \in FreeInodes \cup E
  <2>1. sb'.free_inode = t => inodes'[t].next = sb.free_inode
    BY <1>2, <1>3, <1>5
  <2>. QED
    BY <1>5, <1>6, <1>12, <2>1
<1>16. \A e \in Directories : inodes'[e].type = "DIR"
  BY <1>3, <1>8
<1>17. \A i \in Inode : inodes'[i].type = "DIR" => inodes[i].type = "DIR" \/ inodes'[i].size = 2
  BY <1>2, <1>3
<1>. QED
  BY <1>10, <1>11, <1>13, <1>14, <1>15, <1>16, <1>17, NamesKept

LEMMA LeavingStarts ==
  ASSUME IInv, NEW d, NEW k, NEW t, NEW about, Taken(d, k, t, about)
  PROVE  Leaving(inodes, blocks, sbdisk, d, k, t, about, FALSE)
<1>1. PICK last, lb, kb : /\ last = inodes[d].size - 1 /\ lb = BlockOf(inodes[d], inodes[d].size - 1)
                          /\ kb = BlockOf(inodes[d], k)
  OBVIOUS
<1>2. /\ inodes \in [Inode -> InodeRecord] /\ sbdisk = sb
      /\ inodes[t].type = "REG" /\ t \in about
      /\ EntryAt(inodes[d], k).inode_index = t
      /\ EntryAt(inodes[d], inodes[d].size - 1).inode_index \in about
  BY DEF IInv, Shapes, SbDurable, Taken
<1>3. /\ inodes[d].type = "DIR" /\ inodes[d].size = last + 1
      /\ blocks \in [Block -> [0 .. EPB - 1 -> Dirent]]
  BY <1>1, TakenFacts
<1>4. blocks[kb][k % EPB].inode_index = t /\ blocks[lb][last % EPB].inode_index \in about
  BY <1>1, <1>2 DEF EntryAt
<1>. QED
  BY <1>1, <1>2, <1>3, <1>4 DEF Leaving

\* The writes of f_remove; the inode must be linked before the superblock.
LEMMA LeavingWrites ==
  ASSUME IInv, NEW d, NEW k, NEW t, NEW about, Taken(d, k, t, about),
         NEW I, NEW B, NEW S, NEW in \in BOOLEAN, Leaving(I, B, S, d, k, t, about, in)
  PROVE  LET last == inodes[d].size - 1
             lb   == BlockOf(inodes[d], inodes[d].size - 1)
             kb   == BlockOf(inodes[d], k)
         IN  /\ \A x : x.inode_index \in about
                  => Leaving(I, Put(B, kb, Put(B[kb], k % EPB, x)), S, d, k, t, about, in)
             /\ StartsBlock(last)
                  => Leaving(I, Put(B, lb, [blocks[lb] EXCEPT ![0].inode_index = sb.free_block]),
                             S, d, k, t, about, in)
             /\ Leaving(Put(I, d, Shrunk(inodes[d])), B, S, d, k, t, about, in)
             /\ Leaving(Put(I, t, FreedInode(t)), B, S, d, k, t, about, TRUE)
             /\ \A x : in = TRUE /\ x.free_inode = t => Leaving(I, B, x, d, k, t, about, TRUE)
<1>1. PICK last, lb, kb : /\ last = inodes[d].size - 1 /\ lb = BlockOf(inodes[d], inodes[d].size - 1)
                          /\ kb = BlockOf(inodes[d], k)
  OBVIOUS
<1>2. /\ d \in Inode /\ t \in Inode /\ d # t /\ last \in Nat /\ inodes[d].size = last + 1
      /\ lb \in Block /\ kb \in Block /\ k % EPB \in 0 .. EPB - 1 /\ last % EPB \in 0 .. EPB - 1
      /\ inodes[d].type = "DIR" /\ inodes[d] \in InodeRecord
      /\ blocks \in [Block -> [0 .. EPB - 1 -> Dirent]]
  BY <1>1, TakenFacts
<1>3. /\ DOMAIN I = Inode /\ DOMAIN B = Block
      /\ S.free_inode = sb.free_inode \/ (in /\ S.free_inode = t)
      /\ in => I[t].next = sb.free_inode
      /\ \A i \in Inode \ {d, t} : I[i] = inodes[i]
      /\ I[t].type = "REG" /\ I[d].type = "DIR" /\ I[d].dblocks = inodes[d].dblocks
      /\ I[d].size \in {last, last + 1}
      /\ \A b \in Block : DOMAIN B[b] = 0 .. EPB - 1
      /\ \A b \in Block : \A c \in 0 .. EPB - 1 :
           \/ B[b][c] = blocks[b][c]
           \/ b = kb /\ c = k % EPB
           \/ b = lb /\ c = last % EPB
      /\ B[kb][k % EPB].inode_index \in about /\ B[lb][last % EPB].inode_index \in about
  BY <1>1 DEF Leaving
<1>4. \A f, i, x : /\ DOMAIN Put(f, i, x) = DOMAIN f /\ (i \in DOMAIN f => Put(f, i, x)[i] = x)
                   /\ \A j \in DOMAIN f \ {i} : Put(f, i, x)[j] = f[j]
  BY DEF Put
<1>5. ASSUME NEW C, DOMAIN C = Block, \A b \in Block : DOMAIN C[b] = 0 .. EPB - 1,
             \A b \in Block : \A c \in 0 .. EPB - 1 :
               \/ C[b][c] = blocks[b][c]
               \/ b = kb /\ c = k % EPB
               \/ b = lb /\ c = last % EPB,
             C[kb][k % EPB].inode_index \in about, C[lb][last % EPB].inode_index \in about
      PROVE  Leaving(I, C, S, d, k, t, about, in)
  BY <1>1, <1>3, <1>5 DEF Leaving
<1>6. ASSUME NEW x, x.inode_index \in about
      PROVE  Leaving(I, Put(B, kb, Put(B[kb], k % EPB, x)), S, d, k, t, about, in)
  <2>1. PICK C, y : C = Put(B, kb, y) /\ y = Put(B[kb], k % EPB, x)
    OBVIOUS
  <2>2. DOMAIN C = Block /\ C[kb] = y /\ \A b \in Block \ {kb} : C[b] = B[b]
    BY <1>2, <1>3, <1>4, <2>1
  <2>3. DOMAIN y = 0 .. EPB - 1 /\ y[k % EPB] = x
        /\ \A c \in (0 .. EPB - 1) \ {k % EPB} : y[c] = B[kb][c]
    <3>1. PICK f, i : f = B[kb] /\ i = k % EPB
      OBVIOUS
    <3>2. DOMAIN f = 0 .. EPB - 1 /\ i \in DOMAIN f
      BY <1>2, <1>3, <3>1
    <3>3. y = Put(f, i, x)
      BY <2>1, <3>1
    <3>4. DOMAIN y = DOMAIN f /\ y[i] = x /\ \A c \in DOMAIN f \ {i} : y[c] = f[c]
      BY <3>2, <3>3 DEF Put
    <3>. QED
      BY <3>1, <3>2, <3>4
  <2>4. \A b \in Block : DOMAIN C[b] = 0 .. EPB - 1
    BY <1>3, <2>2, <2>3
  <2>5. ASSUME NEW b \in Block, NEW c \in 0 .. EPB - 1, ~ (b = kb /\ c = k % EPB)
        PROVE  C[b][c] = B[b][c]
    BY <2>2, <2>3, <2>5
  <2>6. C[kb][k % EPB].inode_index \in about
    BY <1>6, <2>2, <2>3
  <2>7. C[lb][last % EPB].inode_index \in about
    BY <1>2, <1>3, <2>5, <2>6
  <2>8. \A b \in Block : \A c \in 0 .. EPB - 1 :
          \/ C[b][c] = blocks[b][c]
          \/ b = kb /\ c = k % EPB
          \/ b = lb /\ c = last % EPB
    BY <1>3, <2>5
  <2>9. Leaving(I, C, S, d, k, t, about, in)
    BY <1>5, <2>2, <2>4, <2>6, <2>7, <2>8
  <2>. QED
    BY <2>1, <2>9
<1>7. ASSUME StartsBlock(last)
      PROVE  Leaving(I, Put(B, lb, [blocks[lb] EXCEPT ![0].inode_index = sb.free_block]), S, d, k, t, about, in)
  <2>1. PICK C, y : C = Put(B, lb, y) /\ y = [blocks[lb] EXCEPT ![0].inode_index = sb.free_block]
    OBVIOUS
  <2>2. DOMAIN C = Block /\ C[lb] = y /\ \A b \in Block \ {lb} : C[b] = B[b]
    BY <1>2, <1>3, <1>4, <2>1
  <2>3. last % EPB = 0 /\ sb.free_block \in about
    BY <1>1, <1>7 DEF StartsBlock, Taken
  <2>4. blocks[lb][0] \in Dirent /\ DOMAIN blocks[lb] = 0 .. EPB - 1 /\ 0 \in 0 .. EPB - 1
    BY <1>2, <2>3
  <2>5. DOMAIN y = 0 .. EPB - 1 /\ y[0].inode_index = sb.free_block
        /\ \A c \in (0 .. EPB - 1) \ {0} : y[c] = blocks[lb][c]
    <3>1. y[0] = [blocks[lb][0] EXCEPT !.inode_index = sb.free_block]
      BY <2>1, <2>4
    <3>2. y[0].inode_index = sb.free_block
      BY <2>4, <3>1 DEF Dirent
    <3>. QED
      BY <2>1, <2>4, <3>2
  <2>6. \A b \in Block : DOMAIN C[b] = 0 .. EPB - 1
    BY <1>3, <2>2, <2>5
  <2>7. C[lb][last % EPB].inode_index \in about
    BY <2>2, <2>3, <2>5
  <2>8. C[kb][k % EPB].inode_index \in about
    <3>1. CASE kb = lb /\ k % EPB = 0
      BY <2>3, <2>7, <3>1
    <3>2. CASE kb = lb /\ k % EPB # 0
      <4>1. C[kb][k % EPB] = EntryAt(inodes[d], k)
        <5>1. PICK i : i = k % EPB
          OBVIOUS
        <5>2. i \in (0 .. EPB - 1) \ {0}
          BY <1>2, <3>2, <5>1
        <5>3. C[kb][i] = blocks[kb][i]
          BY <2>2, <2>5, <3>2, <5>2
        <5>. QED
          BY <1>1, <5>1, <5>3, Zenon DEF EntryAt
      <4>. QED
        BY <4>1 DEF Taken
    <3>3. CASE kb # lb
      BY <1>2, <1>3, <2>2, <3>3
    <3>. QED
      BY <3>1, <3>2, <3>3
  <2>9. \A b \in Block : \A c \in 0 .. EPB - 1 :
          \/ C[b][c] = blocks[b][c]
          \/ b = kb /\ c = k % EPB
          \/ b = lb /\ c = last % EPB
    <3>1. \A b \in Block \ {lb} : C[b] = B[b]
      BY <2>2
    <3>2. \A c \in 0 .. EPB - 1 : C[lb][c] = blocks[lb][c] \/ c = last % EPB
      BY <2>2, <2>3, <2>5
    <3>. QED
      BY <1>3, <3>1, <3>2
  <2>10. Leaving(I, C, S, d, k, t, about, in)
    BY <1>5, <2>2, <2>6, <2>7, <2>8, <2>9
  <2>. QED
    BY <2>1, <2>10
<1>8. Leaving(Put(I, d, Shrunk(inodes[d])), B, S, d, k, t, about, in)
  <2>1. PICK J, x : J = Put(I, d, x) /\ x = Shrunk(inodes[d])
    OBVIOUS
  <2>2. DOMAIN J = Inode /\ J[d] = x /\ \A j \in Inode \ {d} : J[j] = I[j]
    BY <1>2, <1>3, <1>4, <2>1
  <2>3. PICK ty, a, b, c, e, f :
          inodes[d] = [type |-> ty, parent |-> a, next |-> b, size |-> c, dblocks |-> e, last |-> f]
    BY <1>2, RecordParts
  <2>4. x.type = "DIR" /\ x.dblocks = inodes[d].dblocks /\ x.size = inodes[d].size - 1
    BY <1>2, <2>1, <2>3 DEF Shrunk
  <2>5. x.size = last
    BY <1>1, <2>4
  <2>6. Leaving(J, B, S, d, k, t, about, in)
    BY <1>1, <1>2, <1>3, <2>2, <2>4, <2>5 DEF Leaving
  <2>. QED
    BY <2>1, <2>6
<1>9. Leaving(Put(I, t, FreedInode(t)), B, S, d, k, t, about, TRUE)
  <2>1. PICK J, x : J = Put(I, t, x) /\ x = FreedInode(t)
    OBVIOUS
  <2>2. DOMAIN J = Inode /\ J[t] = x /\ \A j \in Inode \ {t} : J[j] = I[j]
    BY <1>2, <1>3, <1>4, <2>1
  <2>3. inodes[t] \in InodeRecord /\ inodes[t].type = "REG"
    BY <1>2 DEF IInv, Shapes, Taken
  <2>4. PICK ty, a, b, c, e, f :
          inodes[t] = [type |-> ty, parent |-> a, next |-> b, size |-> c, dblocks |-> e, last |-> f]
    BY <2>3, RecordParts
  <2>5. x.type = "REG" /\ x.next = sb.free_inode
    BY <2>1, <2>3, <2>4 DEF FreedInode
  <2>6. Leaving(J, B, S, d, k, t, about, TRUE)
    BY <1>1, <1>2, <1>3, <2>2, <2>5 DEF Leaving
  <2>. QED
    BY <2>1, <2>6
<1>10. ASSUME NEW x, in = TRUE, x.free_inode = t PROVE Leaving(I, B, x, d, k, t, about, TRUE)
  BY <1>1, <1>3, <1>10 DEF Leaving
<1>. QED
  BY <1>1, <1>6, <1>7, <1>8, <1>9, <1>10

\* Not yet, or no longer, what it was: entry k of d is leaving disk D, and t with it.
Partway(D, d, k, t, about, in) ==
  \E I, B, S : D = Disk(I, B, S) /\ Leaving(I, B, S, d, k, t, about, in)

\* The last entry's block is given back: the write of the block, if there is one.
LEMMA PartwayWrites ==
  ASSUME IInv, NEW d, NEW k, NEW t, NEW about, Taken(d, k, t, about),
         NEW in \in BOOLEAN, NEW D, Partway(D, d, k, t, about, in)
  PROVE  LET last == inodes[d].size - 1
             lb   == BlockOf(inodes[d], inodes[d].size - 1)
             kb   == BlockOf(inodes[d], k)
         IN  /\ \A x : x.inode_index \in about
                  => Partway(Written(D, EntryWrite(kb, k % EPB, x)), d, k, t, about, in)
             /\ StartsBlock(last)
                  => Partway(Written(D, BlockWrite(lb, [blocks[lb] EXCEPT ![0].inode_index = sb.free_block])),
                             d, k, t, about, in)
             /\ Partway(Written(D, InodeWrite(d, Shrunk(inodes[d]))), d, k, t, about, in)
             /\ Partway(Written(D, InodeWrite(t, FreedInode(t))), d, k, t, about, TRUE)
             /\ \A x : in = TRUE /\ x.free_inode = t
                  => Partway(Written(D, SuperblockWrite(x)), d, k, t, about, TRUE)
<1>1. PICK last, lb, kb : /\ last = inodes[d].size - 1 /\ lb = BlockOf(inodes[d], inodes[d].size - 1)
                          /\ kb = BlockOf(inodes[d], k)
  OBVIOUS
<1>2. PICK I, B, S : D = Disk(I, B, S) /\ Leaving(I, B, S, d, k, t, about, in)
  BY DEF Partway
<1>3. ASSUME NEW x, x.inode_index \in about
      PROVE  Partway(Written(D, EntryWrite(kb, k % EPB, x)), d, k, t, about, in)
  <2>1. Leaving(I, Put(B, kb, Put(B[kb], k % EPB, x)), S, d, k, t, about, in)
    BY <1>1, <1>2, <1>3, LeavingWrites
  <2>. QED
    BY <1>2, <2>1, WriteEntry DEF Partway
<1>4. ASSUME StartsBlock(last), NEW y, y = [blocks[lb] EXCEPT ![0].inode_index = sb.free_block]
      PROVE  Partway(Written(D, BlockWrite(lb, y)), d, k, t, about, in)
  <2>1. Leaving(I, Put(B, lb, y), S, d, k, t, about, in)
    BY <1>1, <1>2, <1>4, LeavingWrites
  <2>. QED
    BY <1>2, <2>1, WriteBlock DEF Partway
<1>5. Partway(Written(D, InodeWrite(d, Shrunk(inodes[d]))), d, k, t, about, in)
  <2>1. Leaving(Put(I, d, Shrunk(inodes[d])), B, S, d, k, t, about, in)
    BY <1>2, LeavingWrites
  <2>. QED
    BY <1>2, <2>1, WriteInode DEF Partway
<1>6. Partway(Written(D, InodeWrite(t, FreedInode(t))), d, k, t, about, TRUE)
  <2>1. PICK x : x = FreedInode(t)
    OBVIOUS
  <2>2. Leaving(Put(I, t, x), B, S, d, k, t, about, TRUE)
    BY <1>2, <2>1, LeavingWrites
  <2>3. Written(D, InodeWrite(t, x)) = Disk(Put(I, t, x), B, S)
    BY <1>2, WriteInode
  <2>4. Partway(Written(D, InodeWrite(t, x)), d, k, t, about, TRUE)
    BY <2>2, <2>3 DEF Partway
  <2>. QED
    BY <2>1, <2>4
<1>7. ASSUME NEW x, in = TRUE, x.free_inode = t
      PROVE  Partway(Written(D, SuperblockWrite(x)), d, k, t, about, TRUE)
  <2>1. Leaving(I, B, x, d, k, t, about, TRUE)
    BY <1>2, <1>7, LeavingWrites
  <2>. QED
    BY <1>2, <2>1, WriteSuperblock DEF Partway
<1>. QED
  BY <1>1, <1>3, <1>4, <1>5, <1>6, <1>7

\* Whatever f_remove has written when the process dies.
LEMMA RemovingDies ==
  ASSUME IInv, Orderly, Removing, NEW garbage, NEW j \in 0 .. Len(Writes(garbage))
  PROVE  LET disk_ == DiskAfter(SubSeq(Writes(garbage), 1, j))
             d     == file_table[RemoveSlot].ino
             k     == RemoveAt
             t     == EntryAt(file_table[RemoveSlot].node, RemoveAt).inode_index
         IN  /\ Taken(d, k, t, Subjects)
             /\ \/ Partway(disk_, d, k, t, Subjects, FALSE)
                \/ Partway(disk_, d, k, t, Subjects, TRUE)
<1>1. PICK p, dn, d, from, found, k, t, last, lb, freed, about :
        /\ p = RemoveSlot /\ dn = file_table[p].node
        /\ d = file_table[p].ino /\ from = file_table[p].byte_offset
        /\ found = Matches(dn, from, call.name) /\ k = RemoveAt
        /\ t = EntryAt(dn, k).inode_index /\ last = dn.size - 1 /\ lb = BlockOf(dn, last)
        /\ freed = FileBlocks(inodes[t]) /\ about = Subjects
  OBVIOUS
<1>2. call.pc = "ready" /\ call.op = "f_remove" /\ found # {} /\ Removable(t) /\ ~ Making
  BY <1>1 DEF Removing, Making
<1>3. /\ p \in Slot /\ d \in Allocated /\ d # None /\ dn = inodes[d] /\ from \in Nat
      /\ call.name \in FileNames
  BY <1>1, <1>2, LastSlotRight DEF RemoveSlot
<1>4. OnDisk /\ k = Least(found)
  BY <1>1, Parts DEF RemoveAt
<1>5. d \in Directories /\ k \in 2 .. dn.size - 1 /\ t \in Allocated
  <2>1. k \in found
    <3>1. found \in SUBSET Matches(inodes[d], from, call.name)
      BY <1>1, <1>3
    <3>. QED
      BY <1>2, <1>3, <1>4, <3>1, FirstMatch
  <2>2. k \in Matches(inodes[d], from, call.name)
    BY <1>1, <1>3, <2>1
  <2>. QED
    BY <1>1, <1>3, <1>4, <2>2, LookedUp, ZenonT(40)
<1>6. inodes[t].type = "REG" /\ inodes[t].size = 0
  <2>1. inodes[t].type = "REG"
    BY <1>1, <1>2, <1>4 DEF Orderly, RemoveSlot, RemoveAt
  <2>. QED
    BY <1>4, <1>5, <2>1 DEF OnDisk, Kinds
<1>7. freed = <<>> /\ DOMAIN freed = {}
  <2>1. (0 + EPB - 1) \div EPB = 0
    BY FirstPlaces, Measures
  <2>2. 1 .. 0 = {}
    OBVIOUS
  <2>3. freed = [i \in 1 .. 0 |-> BlockOf(inodes[t], (i - 1) * EPB)]
    BY <1>1, <1>6, <2>1 DEF FileBlocks
  <2>. QED
    BY <2>2, <2>3
<1>8. Taken(d, k, t, about)
  <2>1. about = {t, EntryAt(dn, last).inode_index} \cup IF StartsBlock(last) THEN {sb.free_block} ELSE {}
    BY <1>1, <1>2 DEF Subjects
  <2>. QED
    BY <1>1, <1>3, <1>5, <1>6, <2>1 DEF Taken
<1>9. PICK w1, w2, w3, w4, w5 :
        /\ w1 = EntryWrite(BlockOf(dn, k), k % EPB, EntryAt(dn, last))
        /\ w2 = BlockWrite(lb, [blocks[lb] EXCEPT ![0].inode_index = sb.free_block])
        /\ w3 = InodeWrite(d, Shrunk(dn)) /\ w4 = InodeWrite(t, FreedInode(t))
        /\ w5 = SuperblockWrite(SbFreed(dn, t, freed))
  OBVIOUS
<1>10. PICK w, n : w = Writes(garbage) /\ n = Len(w)
  OBVIOUS
<1>11. /\ StartsBlock(last) =>
             n = 5 /\ w[1] = w1 /\ w[2] = w2 /\ w[3] = w3 /\ w[4] = w4 /\ w[5] = w5
       /\ ~ StartsBlock(last) =>
             n = 4 /\ w[1] = w1 /\ w[2] = w3 /\ w[3] = w4 /\ w[4] = w5
  <2>1. w = RemoveWrites(p, k, garbage)
    BY <1>1, <1>10, WritesIs
  <2>2. PICK b, z : /\ b = (IF StartsBlock(last) THEN <<w2>> ELSE <<>>)
                    /\ z = [i \in DOMAIN freed |->
                             BlockWrite(freed[i], [blocks[lb] EXCEPT ![0].inode_index = garbage])]
    OBVIOUS
  <2>3. w = <<w1>> \o b \o <<w3, w4>> \o z \o <<w5>>
    <3>1. /\ dn = file_table[p].node /\ d = file_table[p].ino /\ t = EntryAt(dn, k).inode_index
          /\ last = dn.size - 1 /\ lb = BlockOf(dn, last) /\ freed = FileBlocks(inodes[t])
      BY <1>1, Zenon
    <3>2. w5 = SuperblockWrite([free_inode |-> t,
                                free_block |-> IF freed # <<>> THEN freed[Len(freed)]
                                               ELSE IF StartsBlock(last) THEN lb
                                               ELSE sb.free_block])
      BY <1>9, <3>1, Zenon DEF SbFreed, LastBlock
    <3>. QED
      BY <1>9, <2>1, <2>2, <3>1, <3>2 DEF RemoveWrites
  <2>4. z = <<>>
    BY <1>7, <2>2
  <2>5. CASE StartsBlock(last)
    <3>1. w = <<w1>> \o <<w2>> \o <<w3, w4>> \o <<>> \o <<w5>>
      BY <2>2, <2>3, <2>4, <2>5
    <3>2. n = 5 /\ w[1] = w1 /\ w[2] = w2 /\ w[3] = w3 /\ w[4] = w4 /\ w[5] = w5
      BY <1>10, <3>1
    <3>. QED
      BY <2>5, <3>2
  <2>6. CASE ~ StartsBlock(last)
    <3>1. w = <<w1>> \o <<>> \o <<w3, w4>> \o <<>> \o <<w5>>
      BY <2>2, <2>3, <2>4, <2>6
    <3>2. n = 4 /\ w[1] = w1 /\ w[2] = w3 /\ w[3] = w4 /\ w[4] = w5
      BY <1>10, <3>1
    <3>. QED
      BY <2>6, <3>2
  <2>. QED
    BY <2>5, <2>6
<1>12. IsWrites(w)
  <2>1. inodes[Target0].size \in Nat
    BY <1>1, <1>6 DEF Target0
  <2>2. DOMAIN blocks = Block
    BY <1>4 DEF OnDisk
  <2>. QED
    BY <1>10, <2>1, <2>2, WritesTyped DEF LeadsToInode
<1>13. PICK f : Steps(f, Found, w, n) /\ DiskAfter(SubSeq(w, 1, j)) = f[j]
  <2>1. \E f : Steps(f, Found, w, Len(w)) /\ DiskAfter(SubSeq(w, 1, j)) = f[j]
    BY <1>10, <1>12, Prefix
  <2>. QED
    BY <1>10, <2>1, Zenon
<1>14. f[0] = Found /\ \A i \in 1 .. n : f[i] = Written(f[i - 1], w[i])
  BY <1>13 DEF Steps
<1>15. Partway(f[0], d, k, t, about, FALSE)
  <2>1. Leaving(inodes, blocks, sbdisk, d, k, t, about, FALSE)
    BY <1>8, LeavingStarts
  <2>. QED
    BY <1>14, <2>1 DEF Found, Partway
<1>16. ASSUME NEW D, Partway(D, d, k, t, about, FALSE)
       PROVE  /\ Partway(Written(D, w1), d, k, t, about, FALSE)
              /\ StartsBlock(last) => Partway(Written(D, w2), d, k, t, about, FALSE)
              /\ Partway(Written(D, w3), d, k, t, about, FALSE)
              /\ Partway(Written(D, w4), d, k, t, about, TRUE)
  <2>1. EntryAt(dn, last).inode_index \in about
    BY <1>1, <1>3, <1>8 DEF Taken
  <2>. QED
    BY <1>1, <1>3, <1>8, <1>9, <1>16, <2>1, PartwayWrites
<1>17. ASSUME NEW D, Partway(D, d, k, t, about, TRUE)
       PROVE  Partway(Written(D, w5), d, k, t, about, TRUE)
  <2>1. SbFreed(dn, t, freed).free_inode = t
    BY DEF SbFreed
  <2>. QED
    BY <1>8, <1>9, <1>17, <2>1, PartwayWrites
<1>18. \A i \in 0 .. n : Partway(f[i], d, k, t, about, FALSE) \/ Partway(f[i], d, k, t, about, TRUE)
  <2>1. CASE StartsBlock(last)
    <3>1. n = 5 /\ w[1] = w1 /\ w[2] = w2 /\ w[3] = w3 /\ w[4] = w4 /\ w[5] = w5
      BY <1>11, <2>1
    <3>2. /\ f[1] = Written(f[0], w1) /\ f[2] = Written(f[1], w2) /\ f[3] = Written(f[2], w3)
          /\ f[4] = Written(f[3], w4) /\ f[5] = Written(f[4], w5)
      <4>1. /\ 1 \in 1 .. n /\ 2 \in 1 .. n /\ 3 \in 1 .. n /\ 4 \in 1 .. n /\ 5 \in 1 .. n
            /\ 1 - 1 = 0 /\ 2 - 1 = 1 /\ 3 - 1 = 2 /\ 4 - 1 = 3 /\ 5 - 1 = 4
        BY <3>1
      <4>. QED
        BY <1>14, <3>1, <4>1
    <3>3. Partway(f[1], d, k, t, about, FALSE)
      BY <1>15, <1>16, <3>2
    <3>4. Partway(f[2], d, k, t, about, FALSE)
      BY <1>16, <2>1, <3>2, <3>3
    <3>5. Partway(f[3], d, k, t, about, FALSE)
      BY <1>16, <3>2, <3>4
    <3>6. Partway(f[4], d, k, t, about, TRUE)
      BY <1>16, <3>2, <3>5
    <3>7. Partway(f[5], d, k, t, about, TRUE)
      BY <1>17, <3>2, <3>6
    <3>8. \A i \in 0 .. n : i = 0 \/ i = 1 \/ i = 2 \/ i = 3 \/ i = 4 \/ i = 5
      BY <3>1
    <3>. QED
      BY <1>15, <3>3, <3>4, <3>5, <3>6, <3>7, <3>8, Zenon
  <2>2. CASE ~ StartsBlock(last)
    <3>1. n = 4 /\ w[1] = w1 /\ w[2] = w3 /\ w[3] = w4 /\ w[4] = w5
      BY <1>11, <2>2
    <3>2. /\ f[1] = Written(f[0], w1) /\ f[2] = Written(f[1], w3) /\ f[3] = Written(f[2], w4)
          /\ f[4] = Written(f[3], w5)
      <4>1. /\ 1 \in 1 .. n /\ 2 \in 1 .. n /\ 3 \in 1 .. n /\ 4 \in 1 .. n
            /\ 1 - 1 = 0 /\ 2 - 1 = 1 /\ 3 - 1 = 2 /\ 4 - 1 = 3
        BY <3>1
      <4>. QED
        BY <1>14, <3>1, <4>1
    <3>3. Partway(f[1], d, k, t, about, FALSE)
      BY <1>15, <1>16, <3>2
    <3>4. Partway(f[2], d, k, t, about, FALSE)
      BY <1>16, <3>2, <3>3
    <3>5. Partway(f[3], d, k, t, about, TRUE)
      BY <1>16, <3>2, <3>4
    <3>6. Partway(f[4], d, k, t, about, TRUE)
      BY <1>17, <3>2, <3>5
    <3>7. \A i \in 0 .. n : i = 0 \/ i = 1 \/ i = 2 \/ i = 3 \/ i = 4
      BY <3>1
    <3>. QED
      BY <1>15, <3>3, <3>4, <3>5, <3>6, <3>7, Zenon
  <2>. QED
    BY <2>1, <2>2
<1>. QED
  BY <1>1, <1>8, <1>10, <1>13, <1>18

\* The disk a new process mounts has the names the dead one found, but for those the call
\* was about.
LEMMA DeathKeeps ==
  ASSUME IInv, NoFreeDirectory, Orderly, Crash
  PROVE  LET about == IF Making \/ Removing THEN Subjects ELSE {}
         IN  Others(Entries', about) = Others(Entries, about)
<1>1. PICK garbage \in FreedMemory :
        \E k \in 0 .. Len(Writes(garbage)) :
          LET dk == DiskAfter(SubSeq(Writes(garbage), 1, k))
          IN  inodes' = dk.inodes /\ blocks' = dk.blocks /\ sbdisk' = dk.sb
  BY DEF Crash
<1>2. PICK k \in 0 .. Len(Writes(garbage)) :
        LET dk == DiskAfter(SubSeq(Writes(garbage), 1, k))
        IN  inodes' = dk.inodes /\ blocks' = dk.blocks /\ sbdisk' = dk.sb
  BY <1>1
<1>3. PICK D : D = DiskAfter(SubSeq(Writes(garbage), 1, k))
  OBVIOUS
<1>4. inodes' = D.inodes /\ blocks' = D.blocks /\ sb' = D.sb
  BY <1>2, <1>3 DEF Crash
<1>5. ASSUME NEW I, NEW B, NEW S, D = Disk(I, B, S) PROVE inodes' = I /\ blocks' = B /\ sb' = S
  BY <1>4, <1>5 DEF Disk
<1>6. CASE Making
  <2>1. PICK d, n, tb, fb : d = DirIno /\ n = sb.free_inode /\ tb = Target(DirNode) /\ fb = FreeAfter(DirNode)
    OBVIOUS
  <2>2. Placed(d, n, tb, fb) /\ (Midway(D, d, n, tb, fb, FALSE) \/ Midway(D, d, n, tb, fb, TRUE))
    BY <1>3, <1>6, <2>1, MakingDies
  <2>3. PICK in \in BOOLEAN : Midway(D, d, n, tb, fb, in)
    BY <2>2
  <2>4. PICK I, B, S : D = Disk(I, B, S) /\ Entering(I, B, S, d, n, tb, fb, in)
    BY <2>3 DEF Midway
  <2>5. Entering(inodes', blocks', sb', d, n, tb, fb, in)
    BY <1>5, <2>4
  <2>6. Others(Entries', {n}) = Others(Entries, {n})
    BY <2>2, <2>5, EnteringKeeps DEF Placed
  <2>7. Subjects = {n}
    BY <1>6, <2>1 DEF Subjects
  <2>. QED
    BY <1>6, <2>6, <2>7
<1>7. CASE Removing /\ ~ Making
  <2>1. PICK d, l, t, about : /\ d = file_table[RemoveSlot].ino /\ l = RemoveAt
                              /\ t = EntryAt(file_table[RemoveSlot].node, RemoveAt).inode_index
                              /\ about = Subjects
    OBVIOUS
  <2>2. /\ Taken(d, l, t, about)
        /\ Partway(D, d, l, t, about, FALSE) \/ Partway(D, d, l, t, about, TRUE)
    BY <1>3, <1>7, <2>1, RemovingDies
  <2>3. PICK in \in BOOLEAN : Partway(D, d, l, t, about, in)
    BY <2>2
  <2>4. PICK I, B, S : D = Disk(I, B, S) /\ Leaving(I, B, S, d, l, t, about, in)
    BY <2>3 DEF Partway
  <2>5. Leaving(inodes', blocks', sb', d, l, t, about, in)
    BY <1>5, <2>4
  <2>6. Others(Entries', about) = Others(Entries, about)
    BY <2>2, <2>5, LeavingKeeps
  <2>. QED
    BY <1>7, <2>1, <2>6
<1>8. CASE ~ Making /\ ~ Removing
  <2>1. Writes(garbage) = <<>>
    BY <1>8, WritesIs
  <2>2. SubSeq(Writes(garbage), 1, k) = <<>>
    <3>1. k = 0
      BY <1>2, <2>1
    <3>. QED
      BY <2>1, <3>1
  <2>3. D = Disk(inodes, blocks, sbdisk)
    BY <1>3, <2>2, AfterNone, FoundIs DEF Found
  <2>4. inodes' = inodes /\ blocks' = blocks /\ sb' = sb
    BY <1>5, <2>3 DEF IInv, SbDurable
  <2>5. Entries' = Entries
    <3>1. Directories' = Directories
      BY <2>4, LinksSame, Parts
    <3>2. \A i : \A l : EntryAfter(i, l) = EntryAt(inodes[i], l)
      BY <2>4 DEF EntryAfter, EntryAt, BlockOf
    <3>3. Entries' = UNION {{<<i, l, EntryAfter(i, l)>> : l \in 2 .. inodes'[i].size - 1} : i \in Directories'}
      BY DEF Entries, EntryAt, EntryAfter, BlockOf
    <3>4. Entries' = UNION {{<<i, l, EntryAt(inodes[i], l)>> : l \in 2 .. inodes[i].size - 1} : i \in Directories}
      BY <2>4, <3>1, <3>2, <3>3
    <3>. QED
      BY <3>4 DEF Entries
  <2>. QED
    BY <1>8, <2>5
<1>. QED
  BY <1>6, <1>7, <1>8

LEMMA NoFreeDirectoryStep ==
  ASSUME IInv, NoFreeDirectory, IInv', TreeStep
  PROVE  NoFreeDirectory'
<1>1. \A i \in FreeInodes : i \in Inode /\ i \notin Allocated
  BY FreeListFacts DEF Allocated
<1>2. CASE UNCHANGED <<inodes, blocks, sb>>
  <2>1. FreeInodes' = FreeInodes
    BY <1>2, LinksSame, Parts
  <2>. QED
    BY <1>2, <2>1 DEF NoFreeDirectory
<1>3. ASSUME NEW d, NEW n, NEW nn, NEW tb, NEW fb, AppendStep(d, n, nn, tb, fb) PROVE NoFreeDirectory'
  <2>1. FreeInodes' = FreeInodes \ {n} /\ d \in Allocated
    <3>1. FreeInodes' = FreeInodes \ {n}
      BY <1>3, AppendLists
    <3>2. d \in Directories
      BY <1>3 DEF AppendStep
    <3>. QED
      BY <3>1, <3>2 DEF Directories
  <2>2. \A i \in Inode \ {d, n} : inodes'[i] = inodes[i]
    BY <1>3 DEF AppendStep, IInv, Shapes
  <2>. QED
    BY <1>1, <2>1, <2>2 DEF NoFreeDirectory
<1>4. ASSUME NEW d, NEW k, NEW t, RemoveStep(d, k, t) PROVE NoFreeDirectory'
  <2>1. /\ d \in Allocated /\ d \in Inode /\ inodes[d].type = "DIR" /\ inodes[t].type = "REG"
        /\ inodes' = [inodes EXCEPT ![d] = Shrunk(inodes[d]), ![t] = FreedInode(t)]
        /\ inodes \in [Inode -> InodeRecord]
    BY <1>4, InDirectories DEF RemoveStep, IInv, Shapes
  <2>2. Allocated' = Allocated \ {t}
    BY <1>4, RemoveDisk
  <2>3. (FreeInodes \subseteq Inode)'
    BY FreeListFacts, PTL
  <2>4. FreeInodes' \subseteq Inode
    BY <2>3 DEF Inode
  <2>5. ASSUME NEW i \in FreeInodes' PROVE inodes'[i].type # "DIR"
    <3>1. i \in Inode /\ i \notin Allocated'
      BY <2>4, <2>5 DEF Allocated
    <3>2. CASE i = t
      <4>1. inodes'[i] = FreedInode(t) /\ inodes[t] \in InodeRecord
        BY <2>1, <3>1, <3>2
      <4>2. PICK ty, a, b, c, e, f :
              inodes[t] = [type |-> ty, parent |-> a, next |-> b, size |-> c, dblocks |-> e, last |-> f]
        BY <4>1, RecordParts
      <4>. QED
        BY <2>1, <4>1, <4>2 DEF FreedInode
    <3>3. CASE i # t
      <4>1. i # d /\ i \in FreeInodes /\ inodes'[i] = inodes[i]
        BY <2>1, <2>2, <3>1, <3>3 DEF Allocated
      <4>. QED
        BY <4>1 DEF NoFreeDirectory
    <3>. QED
      BY <3>2, <3>3
  <2>. QED
    BY <2>5 DEF NoFreeDirectory
<1>. QED
  BY <1>2, <1>3, <1>4, Creation DEF TreeStep

LEMMA NoFreeDirectoryStart == Init => NoFreeDirectory
<1>. SUFFICES ASSUME Init PROVE NoFreeDirectory
  OBVIOUS
<1>1. FreeInodes = Inode \ {Root}
  BY FormatLists
<1>. QED
  BY <1>1 DEF NoFreeDirectory, Init, FormatInode

\* As long as nobody has died the disk is that of FileSystem.
BeforeDeath == crashes \in Nat /\ (crashes = 0 => IInv /\ TableInv /\ NoFreeDirectory)

LEMMA UntilDeath ==
  ASSUME BeforeDeath, crashes = 0 => Orderly, [CrashNext]_crashVars
  PROVE  BeforeDeath'
<1>1. CASE Crash
  BY <1>1 DEF Crash, BeforeDeath
<1>2. CASE [Next]_vars /\ crashes' = crashes
  <2>1. SUFFICES ASSUME crashes = 0 PROVE IInv' /\ TableInv' /\ NoFreeDirectory'
    BY <1>2 DEF BeforeDeath
  <2>2. IInv' /\ TreeStep
    BY <1>2, <2>1, StepRight DEF BeforeDeath
  <2>3. TableInv'
    BY <1>2, <2>1, CallStep DEF BeforeDeath, StepOK
  <2>. QED
    BY <2>1, <2>2, <2>3, NoFreeDirectoryStep DEF BeforeDeath
<1>3. UNCHANGED crashVars => UNCHANGED vars /\ crashes' = crashes
  BY DEF crashVars, vars, disk, table
<1>. QED
  BY <1>1, <1>2, <1>3 DEF CrashNext

\* Wherever between its writes the process dies, the next one finds every name of the tree
\* that the call was not about, in its place and for the inode it was for, and no other: an
\* entry is in its block before the directory counts it, the place of one that goes is taken
\* before the directory shrinks, and the superblock is the last to give an inode away.  For
\* every disk, table and workload, as long as the calls before the death were Orderly; of the
\* disk a death leaves nothing more is said, so there is one.
THEOREM NamesOutliveDeath ==
  ASSUME MaxCrashes <= 1
  PROVE  CrashSpec /\ [](crashes = 0 => Orderly) => NamesSurvive
<1>1. CrashInit => BeforeDeath
  BY FormatRight, TableInit, NoFreeDirectoryStart DEF CrashInit, BeforeDeath
<1>2. BeforeDeath /\ (crashes = 0 => Orderly) /\ [CrashNext]_crashVars => BeforeDeath'
  BY UntilDeath
<1>3. BeforeDeath /\ (crashes = 0 => Orderly) /\ [CrashNext]_crashVars =>
        [ crashes' # crashes =>
            LET about == IF Making \/ Removing THEN Subjects ELSE {}
            IN  Others(Entries', about) = Others(Entries, about) ]_crashVars
  <2>1. SUFFICES ASSUME BeforeDeath, crashes = 0 => Orderly, CrashNext, crashes' # crashes
                 PROVE  LET about == IF Making \/ Removing THEN Subjects ELSE {}
                        IN  Others(Entries', about) = Others(Entries, about)
    OBVIOUS
  <2>2. Crash
    BY <2>1 DEF CrashNext
  <2>3. crashes = 0
    BY <2>1, <2>2, CrashAssumption DEF Crash, BeforeDeath
  <2>. QED
    BY <2>1, <2>2, <2>3, DeathKeeps DEF BeforeDeath
<1>. QED
  BY <1>1, <1>2, <1>3, PTL DEF CrashSpec, NamesSurvive, Others

\* Nothing needs to be asked of the run before the death on a disk with fewer inodes than fit
\* in a directory, when the callers keep the names of directories and those of files apart.
THEOREM SmallDisksOutliveDeath ==
  ASSUME NEW D, NEW C, NamesApart(D), Limit(C), NInodes < C, MaxCrashes <= 1
  PROVE  CrashSpec => NamesSurvive
<1> DEFINE Kept == BeforeDeath /\ (crashes = 0 => Steady(D, C))
<1>1. Kept => (crashes = 0 => Orderly)
  BY RoomForAll, SteadyOrderly DEF BeforeDeath, NamesApart
<1>2. CrashInit => Kept
  BY FormatRight, TableInit, NoFreeDirectoryStart, SteadyStart DEF CrashInit, BeforeDeath
<1>3. Kept /\ [CrashNext]_crashVars => Kept'
  <2>1. SUFFICES ASSUME Kept, [CrashNext]_crashVars PROVE Kept'
    OBVIOUS
  <2>2. BeforeDeath'
    BY <1>1, <2>1, UntilDeath
  <2>3. ASSUME crashes' = 0 PROVE Steady(D, C)'
    <3>1. crashes = 0 /\ [Next]_vars
      BY <2>1, <2>3 DEF BeforeDeath, CrashNext, Crash, crashVars, vars, disk, table
    <3>. QED
      BY <2>1, <3>1, RoomForAll, SteadyStep DEF BeforeDeath
  <2>. QED
    BY <2>2, <2>3
<1>. QED
  BY <1>1, <1>2, <1>3, NamesOutliveDeath, PTL DEF CrashSpec
================================================================================
