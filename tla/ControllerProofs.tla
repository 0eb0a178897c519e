-------------------------- MODULE ControllerProofs --------------------------
(***************************************************************************)
(* Proofs about Controller, for any number of blocks, branches, failing    *)
(* blocks and faults: the safety properties of the node.                   *)
(*                                                                         *)
(* A branch is a chain of ids, each the start of the next, so most of what *)
(* happens is about heights: the lemmas of the first part say what an      *)
(* operation does to the ancestors of a block, at every height.            *)
(***************************************************************************)
EXTENDS Controller, FiniteSetTheorems, TLAPS

(* What a header keeps.                                                    *)
Headers == [timestamp : Nat, claim : [block_num : Nat, is_strong_qc : BOOLEAN], executable : BOOLEAN]

(* Chains of headers.                                                      *)
Ids == Seq(Headers)

(* The id of a block: timestamps grow along its branch, claims are older   *)
(* than the block (but for genesis) and do not go back.                    *)
BlockId(id) ==
    /\ id \in Ids
    /\ Len(id) >= 1
    /\ \A i \in 1..Len(id) : id[i].claim.block_num \in 1..i /\ (i > 1 => id[i].claim.block_num < i)
    /\ \A i, j \in 1..Len(id) : i < j => /\ id[i].timestamp < id[j].timestamp
                                         /\ id[i].claim.block_num <= id[j].claim.block_num

(* The blocks of the branch of id that are above height n.                 *)
Above(id, n) == {ancestor_at(id, m) : m \in n + 1 .. Len(id)}

(* The blocks of the network: with a block its ancestors.                  *)
BlocksOK(bs) ==
    /\ IsFiniteSet(bs)
    /\ \A b \in bs : BlockId(b) /\ \A n \in 1..Len(b) : ancestor_at(b, n) \in bs
    /\ Guaranteed(bs)

(* The databases over the blocks bs.                                       *)
Databases(bs) ==
    [root : bs, pending_savanna_lib_id : bs \cup {nullid}, index : SUBSET bs, valid : SUBSET bs]

(* The index is a tree on the root.                                        *)
TreeOK(f) ==
    /\ f.root \in Ids
    /\ f.index \subseteq Ids
    /\ \A b \in f.index : /\ Len(f.root) < Len(b)
                          /\ ancestor_at(b, Len(f.root)) = f.root
                          /\ Above(b, Len(f.root)) \subseteq f.index

(* The ancestors of executed blocks are executed.                          *)
ValidOK(f) ==
    /\ f.valid \subseteq f.index
    /\ \A b \in f.valid : Above(b, Len(f.root)) \subseteq f.valid

(* The pending LIB is final, and not below what the QCs on the blocks of   *)
(* the index make final.                                                   *)
PendingOK(f, bs) ==
    /\ f.pending_savanna_lib_id \in Finalized(bs) \cup {nullid}
    /\ \A b \in f.index :
          qc_claim(b).is_strong_qc /\ latest_qc_block(b) \in f.index
              => Len(latest_qc_block(latest_qc_block(b))) <= Len(f.pending_savanna_lib_id)

(* A fork database in order.                                               *)
ForkDbOK(f, bs) == f \in Databases(bs) /\ TreeOK(f) /\ ValidOK(f) /\ PendingOK(f, bs)

(* The head is in the database, on executed blocks.                        *)
HeadOK(f, id) == has_block(f, id) /\ Above(id, Len(f.root)) \subseteq f.valid

(* The root is final.                                                      *)
RootFinal(f, bs) == f.root = genesis \/ \E l \in Finalized(bs) : IsPrefix(f.root, l)

(* A switch from the branch of old, which it leaves at height n: the head  *)
(* has come to its place on the new branch.                                *)
Switching(f, id, ob, ap, old, n) ==
    /\ n \in 0..Len(old) /\ n <= Len(id)
    /\ ancestor_at(old, n) = ancestor_at(id, n)
    /\ ob = Above(old, n)
    /\ ap = Above(id, n)
    /\ Len(f.root) <= n => has_block(f, old)

(* What is left to apply is the branch of new above the head, and it is    *)
(* not that of old.                                                        *)
Applying(f, id, nb, old, n, new) ==
    /\ new \in f.index
    /\ IsPrefix(id, new)
    /\ nb = Above(new, Len(id))
    /\ n < Len(old) /\ n < Len(new) => ancestor_at(old, n + 1) # ancestor_at(new, n + 1)

(* maybe_apply_blocks is between two blocks of a switch.                   *)
ApplyStage(f, id, bs, nb, ap, ob) ==
    \E old \in bs : \E n \in 0..Len(old) :
        /\ Switching(f, id, ob, ap, old, n)
        /\ nb = {} \/ \E new \in bs : Applying(f, id, nb, old, n, new)

(* What is left to apply again is the branch of old above the head.        *)
RestoreStage(f, id, nb, ap, ob) ==
    /\ nb = {} /\ ap = {} /\ ob # {}
    /\ \E old \in f.index : IsPrefix(id, old) /\ ob = Above(old, Len(id))

(* The branches that maybe_apply_blocks goes by are those of its stage.    *)
StageOK ==
    \/ stage \in {"idle", "building"} /\ new_branch = {} /\ applied = {} /\ old_branch = {}
    \/ stage = "apply" /\ ApplyStage(fork_db, chain_head, blocks, new_branch, applied, old_branch)
    \/ stage = "restore" /\ RestoreStage(fork_db, chain_head, new_branch, applied, old_branch)

(* The database, the head and the block log are in order.                  *)
DataOK(f, id, log, bs) ==
    /\ BlocksOK(bs)
    /\ ForkDbOK(f, bs)
    /\ HeadOK(f, id)
    /\ log = f.root
    /\ RootFinal(f, bs)

(* The inductive invariant.                                                *)
IInv == DataOK(fork_db, chain_head, blog_head, blocks) /\ StageOK

-----------------------------------------------------------------------------
(* Ids and their ancestors *)

(* ancestor_at cuts an id to a height.                                     *)
LEMMA Ancestors ==
    ASSUME NEW x \in Ids, NEW n \in 0..Len(x)
    PROVE  /\ ancestor_at(x, n) \in Ids
           /\ Len(ancestor_at(x, n)) = n
           /\ \A i \in 1..n : ancestor_at(x, n)[i] = x[i]
BY DEF ancestor_at, Ids

(* Every height of an id is a number.                                      *)
LEMMA Heights == \A x \in Ids : Len(x) \in Nat /\ Len(x) \in 0..Len(x)
BY DEF Ids

(* Ids of one length are equal when their headers are.                     *)
LEMMA SameId ==
    ASSUME NEW x \in Ids, NEW y \in Ids, Len(x) = Len(y), \A i \in 1..Len(x) : x[i] = y[i]
    PROVE  x = y
BY DEF Ids

(* The ancestor of an ancestor; the block itself at its own height; the    *)
(* parent.                                                                 *)
LEMMA AncestorOfAncestor ==
    ASSUME NEW x \in Ids, NEW n \in 0..Len(x), NEW m \in 0..n
    PROVE  ancestor_at(ancestor_at(x, n), m) = ancestor_at(x, m)
<1>1. m \in 0..Len(x) /\ \A i \in 1..m : i \in 1..n
    BY Heights
<1>2. /\ ancestor_at(x, n) \in Ids /\ Len(ancestor_at(x, n)) = n
      /\ \A i \in 1..n : ancestor_at(x, n)[i] = x[i]
      /\ ancestor_at(x, m) \in Ids /\ Len(ancestor_at(x, m)) = m
      /\ \A i \in 1..m : ancestor_at(x, m)[i] = x[i]
    BY <1>1, Ancestors, Zenon
<1> DEFINE y == ancestor_at(x, n)
<1>3. /\ ancestor_at(y, m) \in Ids /\ Len(ancestor_at(y, m)) = m
      /\ \A i \in 1..m : ancestor_at(y, m)[i] = y[i]
    BY <1>2, Ancestors, Zenon
<1>4. \A i \in 1..m : ancestor_at(y, m)[i] = ancestor_at(x, m)[i]
    BY <1>1, <1>2, <1>3, Zenon
<1>5. QED
    BY <1>2, <1>3, <1>4, SameId, Zenon

(* A block is its own ancestor at its height.                              *)
LEMMA OwnAncestor ==
    ASSUME NEW x \in Ids
    PROVE  ancestor_at(x, Len(x)) = x
BY Heights, Ancestors, SameId, Zenon

(* previous is the ancestor one below.                                     *)
LEMMA Parents ==
    ASSUME NEW x \in Ids
    PROVE  previous(x) = ancestor_at(x, Len(x) - 1)
BY Zenon DEF previous, ancestor_at

(* IsPrefix is being the ancestor at one's own height.                     *)
LEMMA PrefixIs ==
    ASSUME NEW x \in Ids, NEW y \in Ids
    PROVE  IsPrefix(x, y) <=> Len(x) <= Len(y) /\ ancestor_at(y, Len(x)) = x
BY Zenon DEF IsPrefix

(* Ids that agree at a height agree below it.                              *)
LEMMA AgreeBelow ==
    ASSUME NEW x \in Ids, NEW y \in Ids, NEW n \in 0..Len(x), n <= Len(y), NEW m \in 0..n,
           ancestor_at(x, n) = ancestor_at(y, n)
    PROVE  ancestor_at(x, m) = ancestor_at(y, m)
<1>1. n \in 0..Len(y)
    BY Heights
<1>2. QED
    BY <1>1, AncestorOfAncestor, Zenon

(* A block built on parent.                                                *)
LEMMA Appended ==
    ASSUME NEW parent \in Ids, NEW h \in Headers
    PROVE  LET x == Append(parent, h)
           IN  /\ x \in Ids
               /\ Len(x) = Len(parent) + 1
               /\ previous(x) = parent
               /\ x[Len(x)] = h
               /\ \A i \in 1..Len(parent) : x[i] = parent[i]
               /\ \A n \in 0..Len(parent) : ancestor_at(x, n) = ancestor_at(parent, n)
<1> DEFINE x == Append(parent, h)
<1>1. /\ x \in Ids
      /\ Len(x) = Len(parent) + 1
      /\ x[Len(x)] = h
      /\ \A i \in 1..Len(parent) : x[i] = parent[i]
    BY DEF Ids
<1>2. Len(parent) \in 0..Len(x) /\ Len(x) - 1 = Len(parent) /\ Len(parent) \in Nat
    BY <1>1, Heights
<1> HIDE DEF x
<1>3. ancestor_at(x, Len(parent)) = parent
    <2>1. /\ ancestor_at(x, Len(parent)) \in Ids
          /\ Len(ancestor_at(x, Len(parent))) = Len(parent)
          /\ \A i \in 1..Len(parent) : ancestor_at(x, Len(parent))[i] = x[i]
        BY <1>1, <1>2, Ancestors, Zenon
    <2>2. QED
        BY <1>1, <2>1, SameId, Zenon
<1>4. previous(x) = parent
    BY <1>1, <1>2, <1>3, Parents, Zenon
<1>5. \A n \in 0..Len(parent) : ancestor_at(x, n) = ancestor_at(parent, n)
    BY <1>1, <1>2, <1>3, AncestorOfAncestor, Zenon
<1>6. QED
    BY <1>1, <1>4, <1>5, Zenon DEF x

(* A set of numbers has a least one; so an induction over numbers is a     *)
(* step from a least counterexample.                                       *)
LEMMA LeastNat ==
    ASSUME NEW T, T \subseteq Nat, T # {}
    PROVE  \E x \in T : \A y \in T : ~(y < x)
<1>1. PICK x \in T : \A y \in T : ~(<< y, x >> \in OpToRel(<, Nat))
    BY NatLessThanWellFounded, WFMin, Zenon
<1>2. \A y \in T : ~(y < x)
    BY <1>1, Zenon DEF OpToRel
<1>3. QED
    BY <1>2, Zenon

(* What is above a height on a branch.                                     *)
LEMMA AboveFacts ==
    ASSUME NEW x \in Ids, NEW n \in Nat
    PROVE  \A c : c \in Above(x, n) <=>
                      /\ c \in Ids /\ Len(c) > n /\ Len(c) <= Len(x)
                      /\ ancestor_at(x, Len(c)) = c
<1>1. ASSUME NEW c \in Above(x, n)
      PROVE  c \in Ids /\ Len(c) > n /\ Len(c) <= Len(x) /\ ancestor_at(x, Len(c)) = c
    <2>1. PICK m \in n + 1 .. Len(x) : c = ancestor_at(x, m)
        BY <1>1, Zenon DEF Above
    <2>2. m \in 0..Len(x) /\ m > n /\ m <= Len(x)
        BY Heights
    <2>3. QED
        BY <2>1, <2>2, Ancestors, Zenon
<1>2. ASSUME NEW c, c \in Ids, Len(c) > n, Len(c) <= Len(x), ancestor_at(x, Len(c)) = c
      PROVE  c \in Above(x, n)
    <2>1. Len(c) \in n + 1 .. Len(x)
        BY <1>2, Heights
    <2>2. QED
        BY <1>2, <2>1, Zenon DEF Above
<1>3. QED
    BY <1>1, <1>2, Zenon

(* A non-empty set of blocks that are not higher than a bound has a        *)
(* highest one.                                                            *)
LEMMA HighestIs ==
    ASSUME NEW S, S # {}, S \subseteq Ids, NEW N \in Nat, \A c \in S : Len(c) <= N
    PROVE  highest(S) \in S /\ \A c \in S : Len(c) <= Len(highest(S))
<1> DEFINE T == {N - Len(c) : c \in S}
<1>1. T \subseteq Nat /\ T # {}
    <2>1. \A c \in S : N - Len(c) \in Nat
        BY Heights
    <2>2. QED
        BY <2>1, Zenon
<1>2. PICK t \in T : \A u \in T : ~(u < t)
    BY <1>1, LeastNat, Zenon
<1>3. PICK b \in S : t = N - Len(b)
    BY <1>2, Zenon
<1>4. ASSUME NEW c \in S PROVE num_from_id(c) <= num_from_id(b)
    <2>1. ~(N - Len(c) < N - Len(b))
        BY <1>2, <1>3, Zenon
    <2>2. Len(c) \in Nat /\ Len(b) \in Nat
        BY Heights, Zenon
    <2>3. QED
        BY <2>1, <2>2 DEF num_from_id
<1>5. \E x \in S : \A c \in S : num_from_id(c) <= num_from_id(x)
    BY <1>4, Zenon
<1>6. QED
    BY <1>5, Zenon DEF highest, num_from_id

(* The next block of a branch, and what is left after it.                  *)
LEMMA NextAbove ==
    ASSUME NEW x \in Ids, NEW n \in Nat, n < Len(x)
    PROVE  LET b == ancestor_at(x, n + 1)
           IN  /\ lowest(Above(x, n)) = b
               /\ b \in Above(x, n)
               /\ b \in Ids /\ Len(b) = n + 1 /\ previous(b) = ancestor_at(x, n)
               /\ Above(x, n) \ {b} = Above(x, n + 1)
               /\ \A m \in 0..n : Above(b, m) = Above(ancestor_at(x, n), m) \cup {b}
<1> DEFINE b == ancestor_at(x, n + 1)
<1>1. n + 1 \in 0..Len(x) /\ n \in 0..n + 1 /\ (n + 1) - 1 = n /\ n \in 0..Len(x) /\ n + 1 \in Nat
    BY Heights
<1>2. b \in Ids /\ Len(b) = n + 1
    BY <1>1, Ancestors, Zenon
<1>3. previous(b) = ancestor_at(x, n)
    BY <1>1, <1>2, Parents, AncestorOfAncestor, Zenon
<1>4. Len(b) > n /\ Len(b) <= Len(x)
    BY <1>1, <1>2
<1>5. b \in Above(x, n)
    BY <1>2, <1>4, AboveFacts, Zenon
<1>6. ASSUME NEW c \in Above(x, n), Len(c) <= n + 1 PROVE c = b
    <2>1. c \in Ids /\ Len(c) > n /\ ancestor_at(x, Len(c)) = c
        BY AboveFacts, Zenon
    <2>2. Len(c) = n + 1
        BY <1>6, <2>1, Heights
    <2>3. QED
        BY <2>1, <2>2, Zenon
<1>7. lowest(Above(x, n)) = b
    <2>1. \A c \in Above(x, n) : Len(b) <= Len(c)
        <3>1. \A c \in Above(x, n) : Len(c) > n /\ Len(c) \in Nat
            BY AboveFacts, Heights, Zenon
        <3>2. QED
            BY <1>2, <3>1
    <2>2. /\ lowest(Above(x, n)) \in Above(x, n)
          /\ \A c \in Above(x, n) : Len(lowest(Above(x, n))) <= Len(c)
        BY <1>5, <2>1, Zenon DEF lowest, num_from_id
    <2>3. Len(lowest(Above(x, n))) <= n + 1
        BY <1>2, <1>5, <2>2, Zenon
    <2>4. QED
        BY <1>6, <2>2, <2>3, Zenon
<1>8. Above(x, n) \ {b} = Above(x, n + 1)
    <2>1. ASSUME NEW c PROVE c \in Above(x, n) \ {b} <=> c \in Above(x, n + 1)
        <3>1. c \in Above(x, n + 1) <=> c \in Ids /\ Len(c) > n + 1 /\ Len(c) <= Len(x) /\ ancestor_at(x, Len(c)) = c
            BY <1>1, AboveFacts, Zenon
        <3>2. c \in Above(x, n) <=> c \in Ids /\ Len(c) > n /\ Len(c) <= Len(x) /\ ancestor_at(x, Len(c)) = c
            BY AboveFacts, Zenon
        <3>3. c \in Ids => (Len(c) > n /\ ~(Len(c) <= n + 1) <=> Len(c) > n + 1)
            BY Heights
        <3>4. c \in Above(x, n) => (Len(c) <= n + 1 <=> c = b)
            <4>1. Len(b) <= n + 1
                BY <1>2
            <4>2. QED
                BY <1>6, <4>1, Zenon
        <3>5. QED
            BY <3>1, <3>2, <3>3, <3>4, Zenon
    <2>2. QED
        BY <2>1, Zenon
<1>9. ASSUME NEW m \in 0..n PROVE Above(b, m) = Above(ancestor_at(x, n), m) \cup {b}
    <2> DEFINE a == ancestor_at(x, n)
    <2>1. a \in Ids /\ Len(a) = n /\ m \in Nat /\ n + 1 > m
        BY <1>1, Ancestors
    <2>2. ASSUME NEW c \in Ids, Len(c) <= n PROVE ancestor_at(b, Len(c)) = ancestor_at(a, Len(c))
        <3>1. Len(c) \in 0..n /\ Len(c) \in 0..n + 1
            BY <2>2, Heights
        <3>2. QED
            BY <1>1, <3>1, AncestorOfAncestor, Zenon
    <2>3. ASSUME NEW c \in Ids, Len(c) <= n + 1 PROVE Len(c) <= n \/ Len(c) = n + 1
        BY <2>3, Heights
    <2>4. ASSUME NEW c \in Ids, Len(c) <= n PROVE Len(c) <= n + 1
        BY <2>4, Heights
    <2>5. ancestor_at(b, n + 1) = b
        BY <1>2, OwnAncestor, Zenon
    <2>6. ASSUME NEW c PROVE c \in Above(b, m) <=> c \in Above(a, m) \cup {b}
        <3>1. c \in Above(b, m) <=> c \in Ids /\ Len(c) > m /\ Len(c) <= n + 1 /\ ancestor_at(b, Len(c)) = c
            BY <1>2, <2>1, AboveFacts, ZenonT(30)
        <3>2. c \in Above(a, m) <=> c \in Ids /\ Len(c) > m /\ Len(c) <= n /\ ancestor_at(a, Len(c)) = c
            BY <2>1, AboveFacts, ZenonT(30)
        <3>3. b \in Above(b, m)
            <4>1. n + 1 <= n + 1
                BY <1>1
            <4>2. QED
                BY <1>2, <2>1, <2>5, <4>1, AboveFacts, Zenon
        <3> HIDE DEF a, b
        <3>4. QED
            BY <2>2, <2>3, <2>4, <2>5, <3>1, <3>2, <3>3, Zenon
    <2>7. QED
        BY <2>6, Zenon
<1>10. QED
    BY <1>2, <1>3, <1>5, <1>7, <1>8, <1>9, Zenon

(* There is one block for each height.                                     *)
LEMMA AboveCard ==
    ASSUME NEW x \in Ids, NEW n \in 0..Len(x)
    PROVE  /\ IsFiniteSet(Above(x, n))
           /\ Cardinality(Above(x, n)) = Len(x) - n
           /\ Above(x, n) = {} <=> n = Len(x)
<1> DEFINE I == n + 1 .. Len(x)
           g == [m \in I |-> ancestor_at(x, m)]
<1>1. /\ n \in Nat /\ Len(x) \in Nat /\ n + 1 \in Int /\ Len(x) \in Int
      /\ \A m \in I : m \in 0..Len(x)
    BY Heights
<1>2. /\ IsFiniteSet(I)
      /\ Cardinality(I) = Len(x) - n
    <2>1. IsFiniteSet(I) /\ Cardinality(I) = IF n + 1 > Len(x) THEN 0 ELSE (Len(x) - (n + 1)) + 1
        BY <1>1, FS_Interval, Zenon
    <2>2. QED
        BY <1>1, <2>1
<1>3. \A m \in I : Len(ancestor_at(x, m)) = m
    BY <1>1, Ancestors, Zenon
<1>4. g \in Bijection(I, Above(x, n))
    BY <1>3, Zenon DEF Bijection, Injection, Surjection, IsInjective, Above
<1>5. IsFiniteSet(Above(x, n)) /\ Cardinality(Above(x, n)) = Cardinality(I)
    BY <1>2, <1>4, FS_Bijection, ZenonT(30) DEF ExistsBijection
<1>6. Above(x, n) = {} <=> n = Len(x)
    <2>1. Above(x, n) = {} <=> Cardinality(Above(x, n)) = 0
        BY <1>5, FS_EmptySet, Zenon
    <2>2. QED
        BY <1>1, <1>2, <1>5, <2>1
<1>7. QED
    BY <1>2, <1>5, <1>6, Zenon

-----------------------------------------------------------------------------
(* The tree of the fork database *)

(* A block that get_block finds, the root included, is built on the root,  *)
(* and so is every block of its branch.                                    *)
LEMMA OnRoot ==
    ASSUME NEW f, TreeOK(f), NEW h, has_block(f, h)
    PROVE  /\ h \in Ids
           /\ f.root \in Ids
           /\ Len(f.root) \in 0..Len(h)
           /\ Len(f.root) \in Nat
           /\ Len(h) \in Nat
           /\ ancestor_at(h, Len(f.root)) = f.root
           /\ Above(h, Len(f.root)) \subseteq f.index
           /\ f.root \notin f.index
           /\ h \in f.index <=> Len(f.root) < Len(h)
<1>1. f.root \in Ids /\ Len(f.root) \in Nat
    BY Heights, Zenon DEF TreeOK
<1>2. ~(Len(f.root) < Len(f.root)) /\ f.root \notin f.index /\ Len(f.root) \in 0..Len(f.root)
    <2>1. ~(Len(f.root) < Len(f.root)) /\ Len(f.root) \in 0..Len(f.root)
        BY <1>1
    <2>2. QED
        BY <2>1, Zenon DEF TreeOK
<1>3. CASE h = f.root
    <2>1. Above(f.root, Len(f.root)) = {}
        BY <1>1, <1>2, AboveCard, Zenon
    <2>2. QED
        BY <1>1, <1>2, <1>3, <2>1, OwnAncestor, Zenon
<1>4. CASE h \in f.index
    <2>1. h \in Ids /\ Len(f.root) < Len(h) /\ ancestor_at(h, Len(f.root)) = f.root /\ Above(h, Len(f.root)) \subseteq f.index
        BY <1>4, Zenon DEF TreeOK
    <2>2. Len(h) \in Nat /\ Len(f.root) \in 0..Len(h)
        BY <1>1, <2>1, Heights
    <2>3. QED
        BY <1>1, <1>2, <1>4, <2>1, <2>2, Zenon
<1>5. QED
    BY <1>3, <1>4, Zenon DEF has_block

(* Every block from the root up to a block of the database is in it.       *)
LEMMA BranchHas ==
    ASSUME NEW f, TreeOK(f), NEW h, has_block(f, h), NEW n \in 0..Len(h)
    PROVE  has_block(f, ancestor_at(h, n)) <=> Len(f.root) <= n
<1>1. /\ h \in Ids /\ Len(f.root) \in 0..Len(h) /\ Len(f.root) \in Nat /\ Len(h) \in Nat
      /\ ancestor_at(h, Len(f.root)) = f.root
      /\ Above(h, Len(f.root)) \subseteq f.index
    BY OnRoot, Zenon
<1> DEFINE a == ancestor_at(h, n)
<1>2. a \in Ids /\ Len(a) = n
    BY <1>1, Ancestors, Zenon
<1>3. ASSUME Len(f.root) <= n PROVE has_block(f, a)
    <2>1. CASE n = Len(f.root)
        BY <1>1, <2>1, Zenon DEF has_block
    <2>2. CASE n # Len(f.root)
        <3>1. n > Len(f.root) /\ n <= Len(h)
            BY <1>1, <1>3, <2>2
        <3>2. a \in Above(h, Len(f.root))
            BY <1>1, <1>2, <3>1, AboveFacts, Zenon
        <3>3. QED
            BY <1>1, <3>2, Zenon DEF has_block
    <2>3. QED
        BY <2>1, <2>2, Zenon
<1>4. ASSUME has_block(f, a) PROVE Len(f.root) <= n
    <2>1. Len(f.root) \in 0..Len(a)
        BY <1>4, OnRoot, Zenon
    <2>2. QED
        BY <1>2, <2>1
<1>5. QED
    BY <1>3, <1>4, Zenon

(* fetch_branch walks from a block of the database down to the root.       *)
LEMMA BranchIs ==
    ASSUME NEW f, TreeOK(f), NEW h, has_block(f, h)
    PROVE  branch(f, h) = Above(h, Len(f.root))
<1> DEFINE R == Len(f.root)
           M == {m \in 1..Len(h) : \A k \in m..Len(h) : ancestor_at(h, k) \in f.index}
<1>1. /\ h \in Ids /\ R \in 0..Len(h) /\ R \in Nat /\ Len(h) \in Nat
      /\ ancestor_at(h, R) = f.root
      /\ f.root \notin f.index
    BY OnRoot, Zenon
<1>2. ASSUME NEW k \in R + 1 .. Len(h) PROVE ancestor_at(h, k) \in f.index
    <2>1. k \in 0..Len(h) /\ R <= k /\ k # R
        BY <1>1
    <2>2. has_block(f, ancestor_at(h, k)) /\ Len(ancestor_at(h, k)) = k
        BY <1>1, <2>1, BranchHas, Ancestors, Zenon
    <2>3. QED
        BY <2>1, <2>2, Zenon DEF has_block
<1>3. M = R + 1 .. Len(h)
    <2>1. ASSUME NEW m \in M PROVE m \in R + 1 .. Len(h)
        <3>1. m \in 1..Len(h) /\ ~(R \in m..Len(h))
            BY <1>1, Zenon
        <3>2. QED
            BY <1>1, <3>1
    <2>2. ASSUME NEW m \in R + 1 .. Len(h) PROVE m \in M
        <3>1. m \in 1..Len(h) /\ \A k \in m..Len(h) : k \in R + 1 .. Len(h)
            BY <1>1
        <3>2. QED
            BY <1>2, <3>1, Zenon
    <2>3. QED
        BY <2>1, <2>2, Zenon
<1>4. branch(f, h) = {ancestor_at(h, n) : n \in M}
    BY Zenon DEF branch
<1>5. QED
    BY <1>3, <1>4, Zenon DEF Above

(* A block that is not in the index has no branch.                         *)
LEMMA NoBranch ==
    ASSUME NEW f, NEW h \in Ids, h \notin f.index
    PROVE  branch(f, h) = {}
<1>1. \A m \in 1..Len(h) : Len(h) \in m..Len(h)
    BY Heights
<1>2. QED
    BY <1>1, OwnAncestor, Zenon DEF branch

(* The head below which all blocks are executed may be put further down.   *)
LEMMA HeadBelow ==
    ASSUME NEW f, TreeOK(f), NEW id, HeadOK(f, id), NEW m \in Len(f.root)..Len(id)
    PROVE  HeadOK(f, ancestor_at(id, m))
<1>1. has_block(f, id) /\ Above(id, Len(f.root)) \subseteq f.valid
    BY DEF HeadOK
<1>2. id \in Ids /\ Len(f.root) \in Nat /\ Len(id) \in Nat
    BY <1>1, OnRoot, Zenon
<1>3. m \in 0..Len(id) /\ Len(f.root) <= m
    BY <1>2
<1>4. has_block(f, ancestor_at(id, m))
    BY <1>1, <1>3, BranchHas, Zenon
<1>5. ancestor_at(id, m) \in Ids /\ Len(ancestor_at(id, m)) = m
    BY <1>2, <1>3, Ancestors, Zenon
<1>6. ASSUME NEW c \in Above(ancestor_at(id, m), Len(f.root)) PROVE c \in Above(id, Len(f.root))
    <2>1. c \in Ids /\ Len(c) > Len(f.root) /\ Len(c) <= m /\ ancestor_at(ancestor_at(id, m), Len(c)) = c
        BY <1>2, <1>5, AboveFacts, Zenon
    <2>2. Len(c) \in 0..m /\ Len(c) <= Len(id)
        BY <1>3, <2>1, Heights
    <2>3. ancestor_at(id, Len(c)) = c
        BY <1>2, <1>3, <2>1, <2>2, AncestorOfAncestor, Zenon
    <2>4. QED
        BY <1>2, <2>1, <2>2, <2>3, AboveFacts, Zenon
<1>7. QED
    BY <1>1, <1>4, <1>6, Zenon DEF HeadOK

-----------------------------------------------------------------------------
(* Updates of the fork database *)

(* The fields that each update leaves and sets.                            *)
LEMMA Fields ==
    ASSUME NEW bs, NEW f \in Databases(bs)
    PROVE  /\ f.root \in bs /\ f.pending_savanna_lib_id \in bs \cup {nullid}
           /\ f.index \subseteq bs /\ f.valid \subseteq bs
BY DEF Databases

(* A database is its four fields.                                          *)
LEMMA FieldsOf ==
    ASSUME NEW bs, NEW f \in Databases(bs)
    PROVE  f = [root |-> f.root, pending_savanna_lib_id |-> f.pending_savanna_lib_id,
            index |-> f.index, valid |-> f.valid]
BY DEF Databases

(* set_valid sets one field.                                               *)
LEMMA ValidSet ==
    ASSUME NEW bs, NEW f \in Databases(bs), NEW x
    PROVE  set_valid(f, x) =
           [root |-> f.root, pending_savanna_lib_id |-> f.pending_savanna_lib_id,
            index |-> f.index, valid |-> f.valid \cup {x}]
BY DEF Databases, set_valid

(* keep sets the index and takes the other blocks from the valid ones.     *)
LEMMA Kept ==
    ASSUME NEW bs, NEW f \in Databases(bs), NEW S
    PROVE  keep(f, S) =
           [root |-> f.root, pending_savanna_lib_id |-> f.pending_savanna_lib_id,
            index |-> S, valid |-> f.valid \cap S]
<1>1. /\ keep(f, S).root = f.root /\ keep(f, S).pending_savanna_lib_id = f.pending_savanna_lib_id
      /\ keep(f, S).index = S /\ keep(f, S).valid = f.valid \cap S
    BY DEF Databases, keep
<1>2. keep(f, S) \in [root : {f.root}, pending_savanna_lib_id : {f.pending_savanna_lib_id},
                      index : {S}, valid : {f.valid \cap S}]
    BY <1>1, ZenonT(30) DEF Databases, keep
<1>3. QED
    BY <1>1, <1>2

(* advance_root sets the root as well.                                     *)
LEMMA RootMoved ==
    ASSUME NEW bs, NEW f \in Databases(bs), NEW S, NEW x
    PROVE  [keep(f, S) EXCEPT !.root = x] =
           [root |-> x, pending_savanna_lib_id |-> f.pending_savanna_lib_id,
            index |-> S, valid |-> f.valid \cap S]
<1> DEFINE k == keep(f, S)
<1>1. k = [root |-> f.root, pending_savanna_lib_id |-> f.pending_savanna_lib_id,
           index |-> S, valid |-> f.valid \cap S]
    BY Kept, Zenon
<1> HIDE DEF k
<1>2. [k EXCEPT !.root = x] = [root |-> x, pending_savanna_lib_id |-> f.pending_savanna_lib_id,
                               index |-> S, valid |-> f.valid \cap S]
    BY <1>1
<1>3. QED
    BY <1>2, Zenon DEF k

(* set_pending_savanna_lib_id sets one field.                              *)
LEMMA PendingSet ==
    ASSUME NEW bs, NEW f \in Databases(bs), NEW x
    PROVE  [f EXCEPT !.pending_savanna_lib_id = x] =
           [root |-> f.root, pending_savanna_lib_id |-> x,
            index |-> f.index, valid |-> f.valid]
BY DEF Databases

(* add puts a block in the index.                                          *)
LEMMA IndexAdded ==
    ASSUME NEW bs, NEW f \in Databases(bs), NEW x
    PROVE  [f EXCEPT !.index = @ \cup {x}] =
           [root |-> f.root, pending_savanna_lib_id |-> f.pending_savanna_lib_id,
            index |-> f.index \cup {x}, valid |-> f.valid]
BY DEF Databases

(* The blocks of a database are blocks of the network.                     *)
LEMMA BlocksAreIds ==
    ASSUME NEW bs, BlocksOK(bs)
    PROVE  \A b \in bs : b \in Ids /\ Len(b) \in Nat /\ Len(b) >= 1 /\ BlockId(b)
BY Heights, Zenon DEF BlocksOK, BlockId

(* Taking blocks out of the index keeps the database in order, as long as  *)
(* the tree and the root are.                                              *)
LEMMA Smaller ==
    ASSUME NEW bs, NEW f, ForkDbOK(f, bs), NEW g,
           g.root \in bs, g.pending_savanna_lib_id = f.pending_savanna_lib_id,
           g.index \subseteq f.index, g.valid = f.valid \cap g.index,
           g = [root |-> g.root, pending_savanna_lib_id |-> g.pending_savanna_lib_id,
                index |-> g.index, valid |-> g.valid],
           TreeOK(g),
           \A b \in g.index : Above(b, Len(g.root)) \subseteq Above(b, Len(f.root))
    PROVE  ForkDbOK(g, bs)
<1>1. f \in Databases(bs) /\ ValidOK(f) /\ PendingOK(f, bs)
    BY Zenon DEF ForkDbOK
<1>2. g \in Databases(bs)
    <2>1. f.index \subseteq bs /\ f.valid \subseteq bs /\ f.pending_savanna_lib_id \in bs \cup {nullid}
        BY <1>1, Fields, Zenon
    <2>2. g.index \in SUBSET bs /\ g.valid \in SUBSET bs
        BY <2>1, Zenon
    <2>3. QED
        BY <2>1, <2>2 DEF Databases
<1>3. ValidOK(g)
    <2>1. ASSUME NEW b \in g.valid, NEW c \in Above(b, Len(g.root)) PROVE c \in g.valid
        <3>1. c \in g.index
            BY <2>1, Zenon DEF TreeOK
        <3>2. c \in f.valid
            BY <1>1, <2>1, Zenon DEF ValidOK
        <3>3. QED
            BY <3>1, <3>2, Zenon
    <2>2. QED
        BY <2>1, Zenon DEF ValidOK
<1>4. PendingOK(g, bs)
    BY <1>1, Zenon DEF PendingOK
<1>5. QED
    BY <1>2, <1>3, <1>4, Zenon DEF ForkDbOK

(* What is above a height is above a lower one.                            *)
LEMMA AboveMore ==
    ASSUME NEW x \in Ids, NEW n \in Nat, NEW m \in Nat, n <= m
    PROVE  Above(x, m) \subseteq Above(x, n)
<1>1. \A c \in Ids : Len(c) > m => Len(c) > n
    BY Heights
<1>2. QED
    BY <1>1, AboveFacts, Zenon

(* advance_root keeps the blocks built on the new root.                    *)
LEMMA Advanced ==
    ASSUME NEW bs, BlocksOK(bs), NEW f, ForkDbOK(f, bs), NEW r \in f.index, NEW g, g = advance_root(f, r)
    PROVE  /\ ForkDbOK(g, bs)
           /\ g.root = r
           /\ g.pending_savanna_lib_id = f.pending_savanna_lib_id
           /\ g.index \subseteq f.index
           /\ g.valid = f.valid \cap g.index
           /\ \A x : has_block(f, x) /\ IsPrefix(r, x) => has_block(g, x)
           /\ Len(f.root) < Len(r)
<1>1. f \in Databases(bs) /\ TreeOK(f)
    BY Zenon DEF ForkDbOK
<1> DEFINE S == {b \in f.index : IsStrictPrefix(r, b)}
<1>2. g = [root |-> r, pending_savanna_lib_id |-> f.pending_savanna_lib_id,
           index |-> S, valid |-> f.valid \cap S]
    <2>1. [keep(f, S) EXCEPT !.root = r] = [root |-> r, pending_savanna_lib_id |-> f.pending_savanna_lib_id,
           index |-> S, valid |-> f.valid \cap S]
        BY <1>1, RootMoved, Zenon
    <2>2. QED
        BY <2>1, Zenon DEF advance_root
<1>3. /\ g.root = r /\ g.pending_savanna_lib_id = f.pending_savanna_lib_id
      /\ g.index = S /\ g.valid = f.valid \cap S
      /\ g = [root |-> g.root, pending_savanna_lib_id |-> g.pending_savanna_lib_id,
              index |-> g.index, valid |-> g.valid]
    <2> HIDE DEF S
    <2>1. QED
        BY <1>2
<1>4. /\ r \in Ids /\ Len(r) \in Nat /\ Len(f.root) < Len(r) /\ Len(f.root) \in Nat /\ Len(f.root) <= Len(r)
      /\ r \in bs /\ has_block(f, r)
    <2>1. has_block(f, r) /\ r \in bs
        BY <1>1, Fields, Zenon DEF has_block
    <2>2. r \in Ids /\ Len(r) \in Nat /\ Len(f.root) < Len(r) /\ Len(f.root) \in Nat
        BY <1>1, <2>1, OnRoot, Zenon
    <2>3. QED
        BY <2>1, <2>2
<1>5. ASSUME NEW b \in f.index
      PROVE  /\ b \in Ids /\ Len(b) \in Nat
             /\ b \in S <=> Len(r) < Len(b) /\ ancestor_at(b, Len(r)) = r
    <2>1. b \in Ids /\ Len(b) \in Nat
        BY <1>1, OnRoot, Zenon DEF has_block
    <2>2. IsPrefix(r, b) <=> Len(r) <= Len(b) /\ ancestor_at(b, Len(r)) = r
        BY <1>4, <2>1, PrefixIs, Zenon
    <2>3. ancestor_at(b, Len(r)) = r /\ Len(r) <= Len(b) => (b # r <=> Len(r) < Len(b))
        <3>1. Len(r) <= Len(b) => (Len(b) # Len(r) <=> Len(r) < Len(b))
            BY <1>4, <2>1
        <3>2. Len(b) = Len(r) /\ ancestor_at(b, Len(r)) = r => b = r
            BY <2>1, OwnAncestor, Zenon
        <3>3. QED
            BY <3>1, <3>2, Zenon
    <2>4. Len(r) < Len(b) => Len(r) <= Len(b)
        BY <1>4, <2>1
    <2>5. QED
        BY <2>1, <2>2, <2>3, <2>4, Zenon DEF IsStrictPrefix
<1>6. \A b \in f.index : Above(b, Len(r)) \subseteq Above(b, Len(f.root))
    BY <1>4, <1>5, AboveMore, Zenon
<1>7. ASSUME NEW b \in S PROVE Above(b, Len(r)) \subseteq S
    <2>1. b \in Ids /\ Len(b) \in Nat /\ Len(r) < Len(b) /\ ancestor_at(b, Len(r)) = r
        BY <1>5, Zenon
    <2>2. ASSUME NEW c \in Above(b, Len(r)) PROVE c \in S
        <3>1. c \in Ids /\ Len(c) > Len(r) /\ Len(c) <= Len(b) /\ ancestor_at(b, Len(c)) = c
            BY <1>4, <2>1, AboveFacts, Zenon
        <3>2. Len(r) < Len(c) /\ Len(c) \in 0..Len(b) /\ Len(r) \in 0..Len(c)
            BY <1>4, <2>1, <3>1, Heights
        <3>3. ancestor_at(c, Len(r)) = r
            BY <2>1, <3>1, <3>2, AncestorOfAncestor, Zenon
        <3>4. c \in f.index
            BY <1>1, <1>6, Zenon DEF TreeOK
        <3>5. QED
            BY <1>5, <3>2, <3>3, <3>4, Zenon
    <2>3. QED
        BY <2>2, Zenon
<1>8. TreeOK(g)
    <2>1. \A b \in S : b \in Ids /\ Len(r) < Len(b) /\ ancestor_at(b, Len(r)) = r
        BY <1>5, Zenon
    <2> HIDE DEF S
    <2>2. QED
        BY <1>3, <1>4, <1>7, <2>1, Zenon DEF TreeOK
<1>9. S \subseteq f.index
    BY Zenon
<1> HIDE DEF S
<1>10. ForkDbOK(g, bs)
    <2>1. \A b \in g.index : Above(b, Len(g.root)) \subseteq Above(b, Len(f.root))
        BY <1>3, <1>6, <1>9, Zenon
    <2>2. QED
        BY <1>3, <1>4, <1>8, <1>9, <2>1, Smaller, Zenon
<1>11. ASSUME NEW x, has_block(f, x), IsPrefix(r, x) PROVE has_block(g, x)
    <2>1. x \in Ids /\ Len(x) \in Nat
        BY <1>1, <1>11, OnRoot, Zenon
    <2>2. Len(r) <= Len(x) /\ ancestor_at(x, Len(r)) = r
        BY <1>4, <1>11, <2>1, PrefixIs, Zenon
    <2>3. CASE Len(x) = Len(r)
        BY <1>3, <2>1, <2>2, <2>3, OwnAncestor, Zenon DEF has_block
    <2>4. CASE Len(x) # Len(r)
        <3>1. Len(r) < Len(x) /\ Len(f.root) < Len(x)
            BY <1>4, <2>1, <2>2, <2>4
        <3>2. x \in f.index
            BY <1>1, <1>11, <3>1, OnRoot, Zenon
        <3>3. QED
            BY <1>3, <1>5, <2>2, <3>1, <3>2, Zenon DEF has_block
    <2>5. QED
        BY <2>3, <2>4, Zenon
<1>12. QED
    BY <1>3, <1>4, <1>9, <1>10, <1>11, Zenon

(* remove takes out a block and the blocks built on it.                    *)
LEMMA Removed ==
    ASSUME NEW bs, BlocksOK(bs), NEW f, ForkDbOK(f, bs), NEW b \in f.index, NEW g, g = remove(f, b)
    PROVE  /\ ForkDbOK(g, bs)
           /\ g.root = f.root
           /\ g.pending_savanna_lib_id = f.pending_savanna_lib_id
           /\ g.index \subseteq f.index
           /\ g.valid = f.valid \cap g.index
           /\ \A x : has_block(f, x) /\ ~IsPrefix(b, x) => has_block(g, x)
<1>1. f \in Databases(bs) /\ TreeOK(f)
    BY Zenon DEF ForkDbOK
<1> DEFINE S == {c \in f.index \ {b} : ~(IsPrefix(b, c) /\ \A n \in Len(b) + 1 .. Len(c) : ancestor_at(c, n) \in f.index)}
<1>2. g = [root |-> f.root, pending_savanna_lib_id |-> f.pending_savanna_lib_id,
           index |-> S, valid |-> f.valid \cap S]
    <2>1. keep(f, S) = [root |-> f.root, pending_savanna_lib_id |-> f.pending_savanna_lib_id,
           index |-> S, valid |-> f.valid \cap S]
        BY <1>1, Kept, Zenon
    <2>2. QED
        BY <2>1, Zenon DEF remove
<1>3. /\ g.root = f.root /\ g.pending_savanna_lib_id = f.pending_savanna_lib_id
      /\ g.index = S /\ g.valid = f.valid \cap S
      /\ g = [root |-> g.root, pending_savanna_lib_id |-> g.pending_savanna_lib_id,
              index |-> g.index, valid |-> g.valid]
    <2> HIDE DEF S
    <2>1. QED
        BY <1>2
<1>4. b \in Ids /\ Len(b) \in Nat /\ Len(f.root) < Len(b) /\ Len(f.root) \in Nat /\ f.root \in bs /\ f.root \in Ids
    <2>1. has_block(f, b) /\ f.root \in bs
        BY <1>1, Fields, Zenon DEF has_block
    <2>2. QED
        BY <1>1, <2>1, OnRoot, Zenon
<1>5. ASSUME NEW c \in f.index
      PROVE  /\ c \in Ids /\ Len(c) \in Nat
             /\ c \in S <=> ~(Len(b) <= Len(c) /\ ancestor_at(c, Len(b)) = b)
             /\ IsPrefix(b, c) <=> Len(b) <= Len(c) /\ ancestor_at(c, Len(b)) = b
    <2>1. c \in Ids /\ Len(c) \in Nat /\ Above(c, Len(f.root)) \subseteq f.index
        BY <1>1, OnRoot, Zenon DEF has_block
    <2>2. IsPrefix(b, c) <=> Len(b) <= Len(c) /\ ancestor_at(c, Len(b)) = b
        BY <1>4, <2>1, PrefixIs, Zenon
    <2>3. ASSUME NEW n \in Len(b) + 1 .. Len(c) PROVE ancestor_at(c, n) \in f.index
        <3>1. n \in Len(f.root) + 1 .. Len(c)
            BY <1>4, <2>1
        <3>2. QED
            BY <2>1, <3>1, Zenon DEF Above
    <2>4. Len(b) <= Len(b) /\ ancestor_at(b, Len(b)) = b
        <3>1. Len(b) <= Len(b)
            BY <1>4
        <3>2. QED
            BY <1>4, <3>1, OwnAncestor, Zenon
    <2>5. QED
        BY <2>1, <2>2, <2>3, <2>4, Zenon
<1>6. S \subseteq f.index
    BY Zenon
<1> HIDE DEF S
<1>7. ASSUME NEW c \in S PROVE Above(c, Len(f.root)) \subseteq S
    <2>1. c \in Ids /\ Len(c) \in Nat /\ ~(Len(b) <= Len(c) /\ ancestor_at(c, Len(b)) = b)
        BY <1>5, <1>6, Zenon
    <2>2. ASSUME NEW a \in Above(c, Len(f.root)), a \notin S PROVE FALSE
        <3>1. a \in Ids /\ Len(a) <= Len(c) /\ ancestor_at(c, Len(a)) = a
            BY <1>4, <2>1, AboveFacts, Zenon
        <3>2. a \in f.index
            BY <1>1, <1>6, Zenon DEF TreeOK
        <3>3. Len(b) <= Len(a) /\ ancestor_at(a, Len(b)) = b
            BY <1>5, <2>2, <3>2, Zenon
        <3>4. Len(a) \in 0..Len(c) /\ Len(b) \in 0..Len(a) /\ Len(b) <= Len(c)
            BY <1>4, <2>1, <3>1, <3>3, Heights
        <3>5. ancestor_at(c, Len(b)) = b
            BY <2>1, <3>1, <3>3, <3>4, AncestorOfAncestor, Zenon
        <3>6. QED
            BY <2>1, <3>4, <3>5, Zenon
    <2>3. QED
        BY <2>2, Zenon
<1>8. TreeOK(g)
    BY <1>1, <1>3, <1>4, <1>6, <1>7, Zenon DEF TreeOK
<1>9. ForkDbOK(g, bs)
    BY <1>3, <1>4, <1>6, <1>8, Smaller, Zenon
<1>10. ASSUME NEW x, has_block(f, x), ~IsPrefix(b, x) PROVE has_block(g, x)
    BY <1>3, <1>5, <1>10, Zenon DEF has_block
<1>11. QED
    BY <1>3, <1>6, <1>9, <1>10, Zenon

(* A block on executed blocks is marked valid.                             *)
LEMMA Validated ==
    ASSUME NEW bs, BlocksOK(bs), NEW f, ForkDbOK(f, bs), NEW b \in f.index, HeadOK(f, previous(b)),
           NEW g, g = set_valid(f, b)
    PROVE  /\ ForkDbOK(g, bs)
           /\ g.root = f.root
           /\ g.pending_savanna_lib_id = f.pending_savanna_lib_id
           /\ g.index = f.index
           /\ HeadOK(g, b)
           /\ HeadOK(g, previous(b))
<1>1. f \in Databases(bs) /\ TreeOK(f) /\ ValidOK(f) /\ PendingOK(f, bs)
    BY Zenon DEF ForkDbOK
<1>2. g = [root |-> f.root, pending_savanna_lib_id |-> f.pending_savanna_lib_id,
           index |-> f.index, valid |-> f.valid \cup {b}]
    BY <1>1, ValidSet, Zenon
<1>3. /\ g.root = f.root /\ g.pending_savanna_lib_id = f.pending_savanna_lib_id
      /\ g.index = f.index /\ g.valid = f.valid \cup {b}
    BY <1>2
<1>4. /\ b \in Ids /\ Len(b) \in Nat /\ Len(f.root) < Len(b) /\ Len(f.root) \in Nat /\ b \in bs /\ has_block(f, b)
    <2>1. has_block(f, b) /\ b \in bs
        BY <1>1, Fields, Zenon DEF has_block
    <2>2. QED
        BY <1>1, <2>1, OnRoot, Zenon
<1>5. Above(b, Len(f.root)) = Above(previous(b), Len(f.root)) \cup {b}
    <2> DEFINE n == Len(b) - 1
    <2>1. n \in Nat /\ n < Len(b) /\ n + 1 = Len(b) /\ Len(f.root) \in 0..n
        BY <1>4
    <2>2. ancestor_at(b, Len(b)) = b /\ previous(b) = ancestor_at(b, n)
        BY <1>4, OwnAncestor, Parents, Zenon
    <2> HIDE DEF n
    <2>3. \A m \in 0..n : Above(ancestor_at(b, n + 1), m) = Above(ancestor_at(b, n), m) \cup {ancestor_at(b, n + 1)}
        BY <1>4, <2>1, NextAbove
    <2>4. QED
        BY <2>1, <2>2, <2>3, Zenon
<1>6. has_block(f, previous(b)) /\ Above(previous(b), Len(f.root)) \subseteq f.valid
    BY Zenon DEF HeadOK
<1>7. Above(b, Len(f.root)) \subseteq g.valid
    BY <1>3, <1>5, <1>6, Zenon
<1>8. g \in Databases(bs)
    <2>1. f.root \in bs /\ f.pending_savanna_lib_id \in bs \cup {nullid} /\ f.index \subseteq bs /\ f.valid \subseteq bs
        BY <1>1, Fields, Zenon
    <2>2. f.valid \cup {b} \in SUBSET bs /\ f.index \in SUBSET bs
        BY <1>4, <2>1, Zenon
    <2>3. QED
        BY <1>2, <2>1, <2>2 DEF Databases
<1>9. TreeOK(g)
    BY <1>1, <1>3, Zenon DEF TreeOK
<1>10. ValidOK(g)
    <2>1. f.valid \subseteq f.index /\ \A c \in f.valid : Above(c, Len(f.root)) \subseteq f.valid
        BY <1>1, Zenon DEF ValidOK
    <2>2. g.valid \subseteq g.index
        BY <1>3, <2>1, Zenon
    <2>3. ASSUME NEW c \in g.valid PROVE Above(c, Len(g.root)) \subseteq g.valid
        <3>1. CASE c = b
            BY <1>3, <1>7, <3>1, Zenon
        <3>2. CASE c \in f.valid
            <4>1. Above(c, Len(g.root)) \subseteq f.valid
                BY <1>3, <2>1, <3>2, Zenon
            <4>2. QED
                BY <1>3, <4>1, Zenon
        <3>3. QED
            BY <1>3, <3>1, <3>2, Zenon
    <2>4. QED
        BY <2>2, <2>3, Zenon DEF ValidOK
<1>11. PendingOK(g, bs)
    BY <1>1, <1>3, Zenon DEF PendingOK
<1>12. HeadOK(g, b)
    <2>1. has_block(g, b)
        BY <1>3, <1>4, Zenon DEF has_block
    <2>2. QED
        BY <1>3, <1>7, <2>1, Zenon DEF HeadOK
<1>13. HeadOK(g, previous(b))
    <2>1. has_block(g, previous(b))
        BY <1>3, <1>6, Zenon DEF has_block
    <2>2. Above(previous(b), Len(g.root)) \subseteq g.valid
        BY <1>3, <1>6, Zenon
    <2>3. QED
        BY <2>1, <2>2, Zenon DEF HeadOK
<1>14. QED
    BY <1>3, <1>8, <1>9, <1>10, <1>11, <1>12, <1>13, Zenon DEF ForkDbOK

-----------------------------------------------------------------------------
(* Irreversible blocks *)

(* What logging irreversible blocks on the branch of id makes of the       *)
(* database: nothing, or a root further up that branch and up that of the  *)
(* pending LIB.                                                            *)
LogStep(f, id, g) ==
    \/ g = f
    \/ \E r \in Above(id, Len(f.root)) :
          r \in f.index /\ IsPrefix(r, f.pending_savanna_lib_id) /\ g = advance_root(f, r)

(* Blocks of one branch, one not above the other.                          *)
LEMMA OnOneBranch ==
    ASSUME NEW x \in Ids, NEW n \in Nat, NEW a \in Above(x, n), NEW b \in Above(x, n), Len(a) <= Len(b)
    PROVE  a \in Above(b, n) /\ IsPrefix(a, b)
<1>1. /\ a \in Ids /\ Len(a) > n /\ ancestor_at(x, Len(a)) = a
      /\ b \in Ids /\ Len(b) <= Len(x) /\ ancestor_at(x, Len(b)) = b
    BY AboveFacts, Zenon
<1>2. Len(b) \in 0..Len(x) /\ Len(a) \in 0..Len(b)
    BY <1>1, Heights
<1>3. ancestor_at(b, Len(a)) = a
    BY <1>1, <1>2, AncestorOfAncestor, Zenon
<1>4. QED
    BY <1>1, <1>3, AboveFacts, PrefixIs, Zenon

(* mark_branch_irreversible marks executed blocks of the branches of both  *)
(* the head and the pending LIB.                                           *)
LEMMA Marks ==
    ASSUME NEW bs, BlocksOK(bs), NEW f, ForkDbOK(f, bs), NEW id, has_block(f, id), NEW b \in marked(f, id)
    PROVE  b \in Above(id, Len(f.root)) /\ b \in f.valid /\ IsPrefix(b, f.pending_savanna_lib_id)
<1> DEFINE lib == f.pending_savanna_lib_id
           R == Len(f.root)
           both == IF num_from_id(lib) <= num_from_id(id)
                   THEN fetch_branch(f, id, lib) ELSE fetch_branch(f, lib, id)
<1>1. f \in Databases(bs) /\ TreeOK(f)
    BY Zenon DEF ForkDbOK
<1>2. id \in Ids /\ R \in Nat /\ Len(id) \in Nat /\ branch(f, id) = Above(id, R)
    BY <1>1, OnRoot, BranchIs, Zenon
<1>3. lib \in Ids /\ Len(lib) \in Nat
    <2>1. nullid \in Ids
        BY DEF nullid, Ids
    <2>2. QED
        BY <1>1, <2>1, Fields, BlocksAreIds, Heights, Zenon
<1>4. b \in irreversible_branch(f, id)
    BY Zenon DEF marked
<1>5. b \in both /\ \A c \in both : num_from_id(c) <= num_from_id(b) => c \in f.valid
    BY <1>4, Zenon DEF irreversible_branch
<1>6. b \in f.valid
    <2>1. b \in Ids
        <3>1. b \in branch(f, id) \/ b \in branch(f, lib)
            BY <1>5, Zenon DEF fetch_branch
        <3>2. CASE b \in branch(f, id)
            BY <1>2, <3>2, AboveFacts, Zenon
        <3>3. CASE b \in branch(f, lib)
            <4>1. lib \in f.index
                BY <1>3, <3>3, NoBranch, Zenon
            <4>2. branch(f, lib) = Above(lib, R)
                BY <1>1, <4>1, BranchIs, Zenon DEF has_block
            <4>3. QED
                BY <1>2, <1>3, <3>3, <4>2, AboveFacts, ZenonT(30)
        <3>4. QED
            BY <3>1, <3>2, <3>3, Zenon
    <2>2. num_from_id(b) <= num_from_id(b)
        BY <2>1, Heights DEF num_from_id
    <2>3. QED
        BY <1>5, <2>2, Zenon
<1>7. CASE num_from_id(lib) <= num_from_id(id)
    <2>1. b \in branch(f, id) /\ lib \in branch(f, id) /\ num_from_id(b) <= num_from_id(lib)
        BY <1>5, <1>7, Zenon DEF fetch_branch
    <2>2. b \in Above(id, R) /\ lib \in Above(id, R) /\ Len(b) <= Len(lib)
        BY <1>2, <2>1, Zenon DEF num_from_id
    <2>3. QED
        BY <1>2, <1>6, <2>2, OnOneBranch, Zenon
<1>8. CASE ~(num_from_id(lib) <= num_from_id(id))
    <2>1. b \in branch(f, lib) /\ id \in branch(f, lib) /\ num_from_id(b) <= num_from_id(id)
        BY <1>5, <1>8, Zenon DEF fetch_branch
    <2>2. lib \in f.index
        BY <1>3, <2>1, NoBranch, Zenon
    <2>3. branch(f, lib) = Above(lib, R)
        BY <1>1, <2>2, BranchIs, Zenon DEF has_block
    <2>4. b \in Above(lib, R) /\ id \in Above(lib, R) /\ Len(b) <= Len(id)
        BY <2>1, <2>3, Zenon DEF num_from_id
    <2>5. b \in Above(id, R)
        BY <1>2, <1>3, <2>4, OnOneBranch, Zenon
    <2>6. IsPrefix(b, lib)
        <3>1. b \in Ids /\ Len(b) <= Len(lib) /\ ancestor_at(lib, Len(b)) = b
            BY <1>2, <1>3, <2>4, AboveFacts, Zenon
        <3>2. QED
            BY <1>3, <3>1, PrefixIs, Zenon
    <2>7. QED
        BY <1>6, <2>5, <2>6, Zenon
<1>9. QED
    BY <1>7, <1>8, Zenon

(* The last block written becomes the root: it is in the index and         *)
(* executed, so advance_root does not throw, and the block log and the     *)
(* database agree.                                                         *)
LEMMA Logged ==
    ASSUME NEW bs, BlocksOK(bs), NEW f, ForkDbOK(f, bs), NEW b, has_block(f, b),
           NEW W, W \subseteq marked(f, b),
           NEW id, \A c \in W : c \in Above(id, Len(f.root)),
           NEW g, g = rooted(f, W), blog_head = f.root, Written(W)
    PROVE  LogStep(f, id, g) /\ blog_head' = g.root
<1>1. CASE W = {}
    BY <1>1, Zenon DEF rooted, Written, LogStep
<1>2. CASE W # {}
    <2> DEFINE r == highest(W)
    <2>1. f \in Databases(bs) /\ TreeOK(f) /\ ValidOK(f)
        BY Zenon DEF ForkDbOK
    <2>2. b \in Ids /\ Len(b) \in Nat /\ Len(f.root) \in Nat
        BY <2>1, OnRoot, Zenon
    <2>3. W \subseteq Ids /\ \A c \in W : Len(c) <= Len(b)
        BY <2>2, Marks, AboveFacts, Zenon
    <2>4. r \in W
        BY <1>2, <2>2, <2>3, HighestIs, Zenon
    <2>5. r \in f.valid /\ r \in f.index /\ IsPrefix(r, f.pending_savanna_lib_id) /\ r \in Above(id, Len(f.root))
        BY <2>1, <2>4, Marks, Zenon DEF ValidOK
    <2>6. g = advance_root(f, r)
        BY <1>2, <2>5, Zenon DEF rooted, advance_root_throws
    <2>7. blog_head' = r
        BY <1>2, Zenon DEF Written
    <2>8. g.root = r
        BY <2>5, <2>6, Advanced
    <2>9. QED
        BY <2>5, <2>6, <2>7, <2>8, Zenon DEF LogStep
<1>3. QED
    BY <1>1, <1>2, Zenon

(* All marked blocks are written, or those below one of them.              *)
LEMMA LoggedAll ==
    ASSUME NEW bs, BlocksOK(bs), NEW f, ForkDbOK(f, bs), NEW id, has_block(f, id), blog_head = f.root,
           NEW g, g = rooted(f, marked(f, id)), Written(marked(f, id))
    PROVE  LogStep(f, id, g) /\ blog_head' = g.root
BY Marks, Logged, Zenon

(* When a write fails the blocks below it have been written, and these are *)
(* below the head's block too.                                             *)
LEMMA LoggedSome ==
    ASSUME NEW bs, BlocksOK(bs), NEW f, ForkDbOK(f, bs), NEW id, has_block(f, id), blog_head = f.root,
           NEW W \in written_before_failure(marked(f, id)),
           NEW g, g = rooted(f, W), Written(W)
    PROVE  /\ LogStep(f, id, g) /\ blog_head' = g.root
           /\ id \in f.index => LogStep(f, previous(id), g)
<1>1. PICK b \in marked(f, id) : W = {c \in marked(f, id) : num_from_id(c) < num_from_id(b)}
    BY Zenon DEF written_before_failure
<1>2. TreeOK(f)
    BY Zenon DEF ForkDbOK
<1>3. id \in Ids /\ Len(id) \in Nat /\ Len(f.root) \in Nat
    BY <1>2, OnRoot, Zenon
<1>4. W \subseteq marked(f, id) /\ \A c \in W : c \in Above(id, Len(f.root)) /\ Len(c) < Len(b)
    BY <1>1, Marks, Zenon DEF num_from_id
<1>5. b \in Ids /\ Len(b) <= Len(id)
    BY <1>3, Marks, AboveFacts, Zenon
<1>6. ASSUME id \in f.index, NEW c \in W PROVE c \in Above(previous(id), Len(f.root))
    <2>1. c \in Ids /\ Len(c) > Len(f.root) /\ Len(c) <= Len(id) /\ ancestor_at(id, Len(c)) = c /\ Len(c) < Len(b)
        BY <1>3, <1>4, AboveFacts, Zenon
    <2>2. Len(c) \in 0 .. Len(id) - 1 /\ Len(id) - 1 \in 0..Len(id) /\ Len(c) <= Len(id) - 1
        BY <1>3, <1>5, <2>1, Heights
    <2>3. previous(id) = ancestor_at(id, Len(id) - 1)
        BY <1>3, Parents, Zenon
    <2>4. previous(id) \in Ids /\ Len(previous(id)) = Len(id) - 1
        BY <1>3, <2>2, <2>3, Ancestors, Zenon
    <2>5. ancestor_at(previous(id), Len(c)) = c
        BY <1>3, <2>1, <2>2, <2>3, AncestorOfAncestor, Zenon
    <2>6. QED
        BY <1>3, <2>1, <2>2, <2>4, <2>5, AboveFacts, Zenon
<1>7. LogStep(f, id, g) /\ blog_head' = g.root
    BY <1>4, Logged, Zenon
<1>8. id \in f.index => LogStep(f, previous(id), g)
    BY <1>4, <1>6, Logged, Zenon
<1>9. QED
    BY <1>7, <1>8, Zenon

(* Logging irreversible blocks of the head's branch keeps the head, and    *)
(* the blocks that are built on the new root.                              *)
LEMMA LogKeeps ==
    ASSUME NEW bs, BlocksOK(bs), NEW f, ForkDbOK(f, bs), RootFinal(f, bs),
           NEW id, HeadOK(f, id), NEW g, LogStep(f, id, g)
    PROVE  /\ ForkDbOK(g, bs) /\ RootFinal(g, bs) /\ HeadOK(g, id)
           /\ g.root \in Ids /\ Len(f.root) <= Len(g.root) /\ IsPrefix(g.root, id)
           /\ \A x : has_block(f, x) /\ IsPrefix(g.root, x) => has_block(g, x)
<1>1. f \in Databases(bs) /\ TreeOK(f) /\ has_block(f, id) /\ PendingOK(f, bs)
    BY Zenon DEF ForkDbOK, HeadOK
<1>2. /\ id \in Ids /\ f.root \in Ids /\ Len(f.root) \in Nat /\ Len(id) \in Nat /\ Len(f.root) \in 0..Len(id)
      /\ ancestor_at(id, Len(f.root)) = f.root
    BY <1>1, OnRoot, Zenon
<1>3. CASE g = f
    <2>1. Len(f.root) <= Len(f.root) /\ Len(f.root) <= Len(id)
        BY <1>2
    <2>2. IsPrefix(f.root, id)
        BY <1>2, <2>1, PrefixIs, Zenon
    <2>3. QED
        BY <1>2, <1>3, <2>1, <2>2, Zenon
<1>4. ASSUME NEW r \in Above(id, Len(f.root)), r \in f.index, IsPrefix(r, f.pending_savanna_lib_id), g = advance_root(f, r)
      PROVE  /\ ForkDbOK(g, bs) /\ RootFinal(g, bs) /\ HeadOK(g, id)
             /\ g.root \in Ids /\ Len(f.root) <= Len(g.root) /\ IsPrefix(g.root, id)
             /\ \A x : has_block(f, x) /\ IsPrefix(g.root, x) => has_block(g, x)
    <2>1. /\ ForkDbOK(g, bs) /\ g.root = r
          /\ g.valid = f.valid \cap g.index
          /\ \A x : has_block(f, x) /\ IsPrefix(r, x) => has_block(g, x)
          /\ Len(f.root) < Len(r)
        BY <1>4, Advanced
    <2>2. r \in Ids /\ Len(r) \in Nat /\ Len(r) <= Len(id) /\ ancestor_at(id, Len(r)) = r
        BY <1>2, AboveFacts, Heights, Zenon
    <2>3. IsPrefix(r, id) /\ Len(f.root) <= Len(r) /\ Len(r) >= 1
        <3>1. Len(f.root) <= Len(r) /\ Len(r) >= 1
            BY <1>2, <2>1, <2>2
        <3>2. QED
            BY <1>2, <2>2, <3>1, PrefixIs, Zenon
    <2>4. has_block(g, id)
        BY <1>1, <2>1, <2>3, Zenon
    <2>5. Above(id, Len(r)) \subseteq g.valid
        <3>1. Above(id, Len(r)) \subseteq f.valid
            BY <1>2, <2>2, <2>3, AboveMore, Zenon DEF HeadOK
        <3>2. TreeOK(g)
            BY <2>1, Zenon DEF ForkDbOK
        <3>3. Above(id, Len(r)) \subseteq g.index
            BY <2>1, <2>4, <3>2, OnRoot, Zenon
        <3>4. QED
            BY <2>1, <3>1, <3>3, Zenon
    <2>6. HeadOK(g, id)
        BY <2>1, <2>4, <2>5, Zenon DEF HeadOK
    <2>7. RootFinal(g, bs)
        <3>1. f.pending_savanna_lib_id # nullid
            <4>1. nullid \in Ids /\ ~(Len(r) <= Len(nullid))
                BY <2>2, <2>3 DEF nullid, Ids
            <4>2. QED
                BY <1>4, <2>2, <4>1, PrefixIs, Zenon
        <3>2. f.pending_savanna_lib_id \in Finalized(bs)
            BY <1>1, <3>1, Zenon DEF PendingOK
        <3>3. QED
            BY <1>4, <2>1, <3>2, Zenon DEF RootFinal
    <2>8. QED
        BY <2>1, <2>2, <2>3, <2>6, <2>7, Zenon
<1>5. QED
    BY <1>3, <1>4, Zenon DEF LogStep

-----------------------------------------------------------------------------
(* Switching branches *)

(* pop_block undoes blocks as far as told, or as far as the root.          *)
LEMMA Popped ==
    ASSUME NEW f, TreeOK(f), NEW id, has_block(f, id), NEW q \in 0..Len(id)
    PROVE  \E m \in Len(f.root)..Len(id) :
              /\ popped(f, id, Len(id) - q) = ancestor_at(id, m)
              /\ m = q \/ (q < m /\ m = Len(f.root))
<1> DEFINE R == Len(f.root)
           L == Len(id)
           n == L - q
           steps == {k \in 0..n : \A j \in 1..k : has_block(f, ancestor_at(id, L - j))}
           top == IF q < R THEN L - R ELSE n
<1>1. id \in Ids /\ R \in Nat /\ L \in Nat /\ R \in 0..L
    BY OnRoot, Zenon
<1>2. top \in 0..n /\ n \in Nat
    BY <1>1
<1>2a. L - top \in R..L /\ (L - top = q \/ (q < L - top /\ L - top = R))
    <2>1. CASE q < R
        BY <1>1, <2>1
    <2>2. CASE ~(q < R)
        BY <1>1, <2>2
    <2>3. QED
        BY <2>1, <2>2, Zenon
<1>3. ASSUME NEW j \in 1..n PROVE has_block(f, ancestor_at(id, L - j)) <=> R <= L - j
    <2>1. L - j \in 0..L
        BY <1>1
    <2>2. QED
        BY <2>1, BranchHas, Zenon
<1>4. \A k \in 0..n : k \in steps <=> k <= top
    <2>1. ASSUME NEW k \in 0..n, k <= top PROVE k \in steps
        <3>1. \A j \in 1..k : j \in 1..n /\ R <= L - j
            BY <1>1, <1>2, <2>1
        <3>2. QED
            BY <1>3, <3>1, Zenon
    <2>2. ASSUME NEW k \in steps, ~(k <= top) PROVE FALSE
        <3>1. k \in 0..n /\ \A j \in 1..k : has_block(f, ancestor_at(id, L - j))
            BY Zenon
        <3>2. k \in 1..k /\ k \in 1..n /\ ~(R <= L - k)
            BY <1>1, <1>2, <2>2, <3>1
        <3>3. QED
            BY <1>3, <3>1, <3>2, Zenon
    <2>3. QED
        BY <2>1, <2>2, Zenon
<1>5. steps \subseteq 0..n
    BY Zenon
<1> HIDE DEF steps
<1>6. top \in steps /\ \A j \in steps : j <= top
    <2>1. top <= top
        BY <1>2
    <2>2. QED
        BY <1>2, <1>4, <1>5, <2>1, Zenon
<1> DEFINE k == CHOOSE k \in steps : \A j \in steps : j <= k
<1>7. k \in steps /\ \A j \in steps : j <= k
    BY <1>6, Zenon
<1>8. k = top
    <2>1. k <= top /\ top <= k /\ k \in 0..n
        BY <1>5, <1>6, <1>7, Zenon
    <2>2. QED
        BY <1>2, <2>1
<1>9. popped(f, id, n) = ancestor_at(id, L - k)
    BY Zenon DEF popped, steps
<1>10. L - k \in R..L /\ (L - k = q \/ (q < L - k /\ L - k = R))
    BY <1>8, <1>2a, Zenon
<1>11. QED
    BY <1>9, <1>10, Zenon

(* A bounded set of numbers has a greatest one.                            *)
LEMMA GreatestNat ==
    ASSUME NEW T, T \subseteq Nat, T # {}, NEW N \in Nat, \A t \in T : t <= N
    PROVE  \E x \in T : \A y \in T : y <= x
<1> DEFINE U == {N - t : t \in T}
<1>1. U \subseteq Nat /\ U # {}
    <2>1. \A t \in T : N - t \in Nat
        OBVIOUS
    <2>2. QED
        BY <2>1, Zenon
<1>2. PICK u \in U : \A v \in U : ~(v < u)
    BY <1>1, LeastNat, Zenon
<1>3. PICK x \in T : u = N - x
    BY <1>2, Zenon
<1>4. ASSUME NEW y \in T PROVE y <= x
    <2>1. ~(N - y < N - x)
        BY <1>2, <1>3, Zenon
    <2>2. y \in Nat /\ x \in Nat
        BY Zenon
    <2>3. QED
        BY <2>1, <2>2
<1>5. QED
    BY <1>4, Zenon

(* The loops of fetch_branch_from find where the branches part.            *)
LEMMA Parting ==
    ASSUME NEW f, NEW x \in Ids, NEW y \in Ids
    PROVE  \E p \in Nat :
              /\ p <= Len(x) /\ p <= Len(y)
              /\ ancestor_at(x, p) = ancestor_at(y, p)
              /\ p < Len(x) /\ p < Len(y) => ancestor_at(x, p + 1) # ancestor_at(y, p + 1)
              /\ fetch_branch_from(f, x, y).first = Above(x, p)
              /\ fetch_branch_from(f, x, y).second = Above(y, p)
<1> DEFINE low == IF Len(x) < Len(y) THEN Len(x) ELSE Len(y)
           same == ancestor_at(x, low) = ancestor_at(y, low)
           joined == {n \in 1..low : ancestor_at(x, n - 1) = ancestor_at(y, n - 1)}
           bottom == IF same THEN low + 1 ELSE CHOOSE n \in joined : \A m \in joined : m <= n
           p == bottom - 1
           down_to(id) == {ancestor_at(id, n) : n \in bottom..Len(id)}
<1>1. low \in Nat /\ low <= Len(x) /\ low <= Len(y) /\ (low = Len(x) \/ low = Len(y)) /\ Len(x) \in Nat /\ Len(y) \in Nat
    BY Heights
<1>2. ancestor_at(x, 0) = ancestor_at(y, 0)
    <2>1. 0 \in 0..Len(x) /\ 0 \in 0..Len(y) /\ \A i \in 1..0 : FALSE
        BY <1>1
    <2>2. /\ ancestor_at(x, 0) \in Ids /\ Len(ancestor_at(x, 0)) = 0
          /\ ancestor_at(y, 0) \in Ids /\ Len(ancestor_at(y, 0)) = 0
        BY <2>1, Ancestors, Zenon
    <2>3. QED
        BY <2>1, <2>2, SameId, Zenon
<1>3. fetch_branch_from(f, x, y) = [first |-> down_to(x), second |-> down_to(y)]
    BY Zenon DEF fetch_branch_from
<1> HIDE DEF low
<1>4. /\ bottom \in Nat /\ p \in Nat /\ p <= low
      /\ ancestor_at(x, p) = ancestor_at(y, p)
      /\ p < low => ancestor_at(x, p + 1) # ancestor_at(y, p + 1)
    <2>1. CASE same
        <3>1. bottom = low + 1
            BY <2>1, Zenon
        <3>2. bottom \in Nat /\ p = low /\ low <= low /\ ~(low < low)
            BY <1>1, <3>1
        <3>3. QED
            BY <1>1, <2>1, <3>2, Zenon
    <2>2. CASE ~same
        <3>1. low # 0
            BY <1>2, <2>2, Zenon
        <3>2. 1 \in 1..low /\ 1 - 1 = 0
            BY <1>1, <3>1
        <3>3. 1 \in joined
            BY <1>2, <3>2, Zenon
        <3>4. joined \subseteq Nat /\ \A n \in joined : n <= low
            <4>1. \A n \in 1..low : n \in Nat /\ n <= low
                BY <1>1
            <4>2. QED
                BY <4>1, Zenon
        <3>5. \E n \in joined : \A m \in joined : m <= n
            BY <1>1, <3>3, <3>4, GreatestNat, Zenon
        <3>6. bottom \in joined /\ \A m \in joined : m <= bottom
            <4>1. bottom = CHOOSE n \in joined : \A m \in joined : m <= n
                BY <2>2, Zenon
            <4>2. QED
                BY <3>5, <4>1, Zenon
        <3>7. bottom \in 1..low /\ ancestor_at(x, p) = ancestor_at(y, p)
            BY <3>6, Zenon
        <3> HIDE DEF bottom
        <3>8. p \in Nat /\ p + 1 = bottom /\ p <= low /\ bottom \in Nat
            BY <1>1, <3>7
        <3>9. ASSUME ancestor_at(x, bottom) = ancestor_at(y, bottom) PROVE FALSE
            <4>1. bottom # low
                BY <2>2, <3>9, Zenon
            <4>2. bottom + 1 \in 1..low /\ (bottom + 1) - 1 = bottom /\ ~(bottom + 1 <= bottom)
                BY <1>1, <3>7, <4>1
            <4>3. bottom + 1 \in joined
                BY <3>9, <4>2, Zenon
            <4>4. QED
                BY <3>6, <4>2, <4>3, Zenon
        <3>10. QED
            BY <3>7, <3>8, <3>9, Zenon
    <2>3. QED
        BY <2>1, <2>2, Zenon
<1> HIDE DEF bottom
<1>5. bottom = p + 1 /\ p <= Len(x) /\ p <= Len(y) /\ (p < Len(x) /\ p < Len(y) => p < low)
    BY <1>1, <1>4
<1>6. down_to(x) = Above(x, p) /\ down_to(y) = Above(y, p)
    BY <1>5, Zenon DEF Above
<1>7. fetch_branch_from(f, x, y).first = Above(x, p) /\ fetch_branch_from(f, x, y).second = Above(y, p)
    <2> HIDE DEF down_to
    <2>1. QED
        BY <1>3, <1>6
<1>8. QED
    BY <1>4, <1>5, <1>7, Zenon

-----------------------------------------------------------------------------
(* New blocks *)

(* What a block says of itself is in its last header.                      *)
LEMMA LastHeader ==
    ASSUME NEW x \in Ids, Len(x) >= 1
    PROVE  /\ Len(x) \in 1..Len(x) /\ x[Len(x)] \in Headers
           /\ timestamp(x) = x[Len(x)].timestamp /\ qc_claim(x) = x[Len(x)].claim
           /\ timestamp(x) \in Nat /\ qc_claim(x).block_num \in Nat /\ qc_claim(x).is_strong_qc \in BOOLEAN
<1>1. Len(x) \in 1..Len(x)
    BY Heights
<1>2. x[Len(x)] \in Headers
    BY <1>1 DEF Ids
<1>3. timestamp(x) = x[Len(x)].timestamp /\ qc_claim(x) = x[Len(x)].claim
    BY Zenon DEF timestamp, qc_claim
<1>4. x[Len(x)].timestamp \in Nat /\ x[Len(x)].claim.block_num \in Nat /\ x[Len(x)].claim.is_strong_qc \in BOOLEAN
    BY <1>2 DEF Headers
<1>5. QED
    BY <1>1, <1>2, <1>3, <1>4, Zenon

(* The block that a block claims is one of its branch.                     *)
LEMMA ClaimedBlock ==
    ASSUME NEW x, BlockId(x)
    PROVE  /\ qc_claim(x).block_num \in 1..Len(x)
           /\ qc_claim(x).block_num \in 0..Len(x)
           /\ Len(x) > 1 => qc_claim(x).block_num < Len(x)
           /\ latest_qc_block(x) \in Ids
           /\ Len(latest_qc_block(x)) = qc_claim(x).block_num
<1>1. x \in Ids /\ Len(x) >= 1 /\ Len(x) \in Nat
    BY Heights, Zenon DEF BlockId
<1>2. Len(x) \in 1..Len(x) /\ qc_claim(x) = x[Len(x)].claim
    BY <1>1, LastHeader, Zenon
<1>3. qc_claim(x).block_num \in 1..Len(x) /\ (Len(x) > 1 => qc_claim(x).block_num < Len(x))
    BY <1>2, Zenon DEF BlockId
<1>4. qc_claim(x).block_num \in 0..Len(x)
    BY <1>1, <1>3
<1>5. latest_qc_block(x) \in Ids /\ Len(latest_qc_block(x)) = qc_claim(x).block_num
    BY <1>1, <1>4, Ancestors, Zenon DEF latest_qc_block
<1>6. QED
    BY <1>3, <1>4, <1>5, Zenon

(* A child of a block is a block.                                          *)
LEMMA ChildIs ==
    ASSUME NEW parent, BlockId(parent), NEW n \in Children(parent)
    PROVE  /\ BlockId(n)
           /\ previous(n) = parent
           /\ Len(n) = Len(parent) + 1
           /\ \A k \in 0..Len(parent) : ancestor_at(n, k) = ancestor_at(parent, k)
<1>1. parent \in Ids /\ Len(parent) >= 1 /\ Len(parent) \in Nat
    BY Heights, Zenon DEF BlockId
<1> DEFINE L == Len(parent)
<1>2. /\ L \in 1..L /\ timestamp(parent) = parent[L].timestamp /\ timestamp(parent) \in Nat
      /\ qc_claim(parent) = parent[L].claim /\ qc_claim(parent).block_num \in Nat
    BY <1>1, LastHeader, Zenon
<1>3. PICK h \in [timestamp : timestamp(parent) + 1 .. MaxTime, claim : Claims(parent), executable : BOOLEAN] :
          n = Append(parent, h)
    BY Zenon DEF Children
<1> DEFINE t == h.timestamp
           c == h.claim
<1>3a. t \in timestamp(parent) + 1 .. MaxTime /\ c \in Claims(parent)
    OBVIOUS
<1>4. c \in [block_num : qc_claim(parent).block_num .. num_from_id(parent), is_strong_qc : BOOLEAN]
    BY <1>3a, Zenon DEF Claims
<1>5. c.block_num \in qc_claim(parent).block_num .. L /\ c \in [block_num : Nat, is_strong_qc : BOOLEAN]
    BY <1>1, <1>2, <1>4 DEF num_from_id
<1>6. t \in Nat /\ parent[L].timestamp < t /\ h \in Headers
    <2>1. t \in Nat /\ parent[L].timestamp < t
        BY <1>2, <1>3a, BoundsAssumption
    <2>2. QED
        BY <1>5, <2>1 DEF Headers
<1>7. parent[L].claim.block_num \in 1..L
    BY <1>2, Zenon DEF BlockId
<1>8. c.block_num \in 1..L /\ parent[L].claim.block_num <= c.block_num
    BY <1>1, <1>2, <1>5, <1>7
<1>9. /\ n \in Ids /\ Len(n) = L + 1 /\ previous(n) = parent /\ n[Len(n)] = h
      /\ \A i \in 1..L : n[i] = parent[i]
      /\ \A k \in 0..L : ancestor_at(n, k) = ancestor_at(parent, k)
    BY <1>1, <1>3, <1>6, Appended, Zenon
<1>10. ASSUME NEW i \in 1..L
       PROVE  /\ parent[i].claim.block_num \in 1..i /\ (i > 1 => parent[i].claim.block_num < i)
              /\ parent[i].timestamp \in Nat
              /\ parent[i].timestamp <= parent[L].timestamp
              /\ parent[i].claim.block_num <= parent[L].claim.block_num
    <2>1. parent[i].claim.block_num \in 1..i /\ (i > 1 => parent[i].claim.block_num < i)
        BY Zenon DEF BlockId
    <2>2. parent[i] \in Headers
        BY <1>1 DEF Ids
    <2>3. parent[i].timestamp \in Nat
        BY <2>2 DEF Headers
    <2>4. CASE i = L
        <3>1. parent[L].timestamp <= parent[L].timestamp /\ parent[L].claim.block_num <= parent[L].claim.block_num
            BY <1>2, <1>7
        <3>2. QED
            BY <2>1, <2>3, <2>4, <3>1, Zenon
    <2>5. CASE i # L
        <3>1. i < L
            BY <1>1, <2>5
        <3>2. parent[i].timestamp < parent[L].timestamp /\ parent[i].claim.block_num <= parent[L].claim.block_num
            BY <1>2, <3>1, Zenon DEF BlockId
        <3>3. parent[i].timestamp <= parent[L].timestamp
            BY <1>2, <2>3, <3>2
        <3>4. QED
            BY <2>1, <2>3, <3>2, <3>3, Zenon
    <2>6. QED
        BY <2>4, <2>5, Zenon
<1>11. ASSUME NEW i \in 1..Len(n)
       PROVE  n[i].claim.block_num \in 1..i /\ (i > 1 => n[i].claim.block_num < i)
    <2>1. CASE i \in 1..L
        BY <1>9, <1>10, <2>1, Zenon
    <2>2. CASE i = L + 1
        <3>1. n[i].claim.block_num \in 1..L
            BY <1>6, <1>8, <1>9, <2>2, Zenon
        <3>2. QED
            BY <1>1, <2>2, <3>1
    <2>3. i \in 1..L \/ i = L + 1
        BY <1>1, <1>9
    <2>4. QED
        BY <2>1, <2>2, <2>3, Zenon
<1>12. ASSUME NEW i \in 1..Len(n), NEW j \in 1..Len(n), i < j
       PROVE  n[i].timestamp < n[j].timestamp /\ n[i].claim.block_num <= n[j].claim.block_num
    <2>1. i \in 1..L /\ (j \in 1..L \/ j = L + 1)
        BY <1>1, <1>9, <1>12
    <2>2. CASE j \in 1..L
        BY <1>9, <1>12, <2>1, <2>2, Zenon DEF BlockId
    <2>3. CASE j = L + 1
        <3>1. n[j].timestamp = t /\ n[j].claim = c /\ n[i] = parent[i]
            BY <1>6, <1>9, <2>1, <2>3, Zenon
        <3>2. /\ parent[i].timestamp \in Nat /\ parent[i].timestamp <= parent[L].timestamp
              /\ parent[i].claim.block_num \in 1..i
              /\ parent[i].claim.block_num <= parent[L].claim.block_num
            BY <1>10, <2>1, Zenon
        <3>3. parent[i].timestamp < t /\ parent[i].claim.block_num <= c.block_num
            BY <1>1, <1>2, <1>6, <1>7, <1>8, <3>2, SMTT(20)
        <3>4. QED
            BY <3>1, <3>3, Zenon
    <2>4. QED
        BY <2>1, <2>2, <2>3, Zenon
<1>13. Len(n) >= 1
    BY <1>1, <1>9
<1>14. BlockId(n)
    BY <1>9, <1>11, <1>12, <1>13, Zenon DEF BlockId
<1>15. QED
    BY <1>9, <1>14, Zenon

(* Blocks that QCs make final stay final.                                  *)
LEMMA MoreFinal ==
    ASSUME NEW bs, NEW cs, bs \subseteq cs
    PROVE  /\ Finalized(bs) \subseteq Finalized(cs)
           /\ \A f : ForkDbOK(f, bs) => ForkDbOK(f, cs)
           /\ \A f : RootFinal(f, bs) => RootFinal(f, cs)
<1>1. Finalized(bs) \subseteq Finalized(cs)
    BY Zenon DEF Finalized
<1>2. ASSUME NEW f, ForkDbOK(f, bs) PROVE ForkDbOK(f, cs)
    <2>1. f \in Databases(bs) /\ PendingOK(f, bs) /\ TreeOK(f) /\ ValidOK(f)
        BY <1>2, Zenon DEF ForkDbOK
    <2>2. f \in Databases(cs)
        BY <2>1 DEF Databases
    <2>3. PendingOK(f, cs)
        BY <1>1, <2>1, Zenon DEF PendingOK
    <2>4. QED
        BY <2>1, <2>2, <2>3, Zenon DEF ForkDbOK
<1>3. \A f : RootFinal(f, bs) => RootFinal(f, cs)
    BY <1>1, Zenon DEF RootFinal
<1>4. QED
    BY <1>1, <1>2, <1>3, Zenon

(* The network makes a block on one of its blocks.                         *)
LEMMA NewBlock ==
    ASSUME BlocksOK(blocks), NEW parent \in blocks, NEW n \in Children(parent), Made(n)
    PROVE  /\ BlocksOK(blocks') /\ n \in blocks' /\ blocks \subseteq blocks'
           /\ previous(n) = parent
           /\ Len(n) = Len(parent) + 1
<1>1. BlockId(parent) /\ parent \in Ids /\ Len(parent) \in Nat
    BY BlocksAreIds, Zenon
<1>2. /\ BlockId(n) /\ previous(n) = parent /\ Len(n) = Len(parent) + 1
      /\ \A k \in 0..Len(parent) : ancestor_at(n, k) = ancestor_at(parent, k)
    BY <1>1, ChildIs, Zenon
<1>3. CASE n \in blocks /\ UNCHANGED blocks
    BY <1>2, <1>3, Zenon
<1>4. CASE blocks' = blocks \cup {n} /\ Guaranteed(blocks \cup {n})
    <2>1. ASSUME NEW k \in 1..Len(n) PROVE ancestor_at(n, k) \in blocks'
        <3>1. CASE k = Len(n)
            BY <1>2, <1>4, <3>1, OwnAncestor, Zenon DEF BlockId
        <3>2. CASE k # Len(n)
            <4>1. k \in 0..Len(parent) /\ k \in 1..Len(parent)
                BY <1>1, <1>2, <3>2
            <4>2. ancestor_at(n, k) \in blocks
                BY <1>2, <4>1, Zenon DEF BlocksOK
            <4>3. QED
                BY <1>4, <4>2, Zenon
        <3>3. QED
            BY <3>1, <3>2, Zenon
    <2>2. \A b \in blocks : BlockId(b) /\ \A k \in 1..Len(b) : ancestor_at(b, k) \in blocks'
        BY <1>4, Zenon DEF BlocksOK
    <2>3. IsFiniteSet(blocks')
        BY <1>4, FS_AddElement, Zenon DEF BlocksOK
    <2>4. BlocksOK(blocks')
        BY <1>2, <1>4, <2>1, <2>2, <2>3, Zenon DEF BlocksOK
    <2>5. QED
        BY <1>2, <1>4, <2>4, Zenon
<1>5. QED
    BY <1>3, <1>4, Zenon DEF Made

(* What add makes of the pending LIB with the claim of n.                  *)
CarriedOK(f, n, g) ==
    /\ g = [root |-> f.root, pending_savanna_lib_id |-> g.pending_savanna_lib_id,
            index |-> f.index, valid |-> f.valid]
    /\ \/ g.pending_savanna_lib_id = f.pending_savanna_lib_id
       \/ /\ qc_claim(n).is_strong_qc
          /\ g.pending_savanna_lib_id = latest_qc_block(latest_qc_block(n))
    /\ Len(f.pending_savanna_lib_id) <= Len(g.pending_savanna_lib_id)
    /\ qc_claim(n).is_strong_qc /\ latest_qc_block(n) \in f.index =>
          Len(latest_qc_block(latest_qc_block(n))) <= Len(g.pending_savanna_lib_id)
    /\ (qc_claim(n).is_strong_qc /\ latest_qc_block(n) \in f.index =>
          Len(latest_qc_block(latest_qc_block(n))) <= Len(f.pending_savanna_lib_id)) => g = f

(* The claimed block is looked for on the branch of the parent: it is      *)
(* there when it is in the index.  The pending LIB is the block claimed by *)
(* the claimed block, unless it is there already.                          *)
LEMMA CarriedQC ==
    ASSUME NEW bs, BlocksOK(bs), NEW f \in Databases(bs), TreeOK(f), NEW n \in bs, has_block(f, previous(n)),
           NEW g, g = with_carried_qc(f, n)
    PROVE  CarriedOK(f, n, g)
<1> USE DEF CarriedOK
<1> DEFINE p == previous(n)
           q == qc_claim(n).block_num
           strong == qc_claim(n).is_strong_qc
           lib == f.pending_savanna_lib_id
           c == latest_qc_block(n)
           l == latest_qc_block(latest_qc_block(n))
           found == search_on_branch(f, p, q)
           R == Len(f.root)
<1>1. BlockId(n) /\ n \in Ids /\ Len(n) \in Nat /\ Len(n) >= 1
    BY BlocksAreIds, Zenon
<1>2. /\ p \in Ids /\ R \in Nat /\ Len(p) \in Nat /\ R <= Len(p)
      /\ branch(f, p) = Above(p, R) /\ Above(p, R) \subseteq f.index
    <2>1. R \in 0..Len(p) /\ p \in Ids /\ R \in Nat /\ Len(p) \in Nat /\ branch(f, p) = Above(p, R) /\ Above(p, R) \subseteq f.index
        BY OnRoot, BranchIs, Zenon
    <2>2. R <= Len(p)
        BY <2>1
    <2>3. QED
        BY <2>1, <2>2, Zenon
<1>3. f.root \in bs /\ R >= 1 /\ lib \in bs \cup {nullid} /\ Len(lib) \in Nat
    <2>1. f.root \in bs /\ lib \in bs \cup {nullid}
        BY Fields, Zenon
    <2>2. nullid \in Ids
        BY DEF nullid, Ids
    <2>3. QED
        BY <2>1, <2>2, BlocksAreIds, Heights, Zenon
<1>4. p = ancestor_at(n, Len(n) - 1) /\ Len(p) = Len(n) - 1 /\ Len(n) > 1
    <2>1. p = ancestor_at(n, Len(n) - 1) /\ Len(n) - 1 \in 0..Len(n)
        BY <1>1, Parents
    <2>2. Len(p) = Len(n) - 1
        BY <1>1, <2>1, Ancestors, Zenon
    <2>3. QED
        BY <1>1, <1>2, <1>3, <2>1, <2>2
<1>5. /\ q \in 0..Len(n) /\ q < Len(n) /\ c \in Ids /\ Len(c) = q /\ c \in bs
    <2>1. q \in 1..Len(n) /\ q \in 0..Len(n) /\ q < Len(n) /\ c \in Ids /\ Len(c) = q
        BY <1>1, <1>4, ClaimedBlock, Zenon
    <2>2. c \in bs
        BY <2>1, Zenon DEF BlocksOK, latest_qc_block
    <2>3. QED
        BY <2>1, <2>2, Zenon
<1>6. l \in Ids /\ Len(l) \in Nat /\ Len(l) <= q
    <2>1. Len(l) \in 1..Len(c) /\ l \in Ids
        BY <1>5, BlocksAreIds, ClaimedBlock, Zenon
    <2>2. QED
        BY <1>5, <2>1
<1>7. ancestor_at(p, q) = c /\ q <= Len(p)
    <2>1. q \in 0 .. Len(n) - 1 /\ Len(n) - 1 \in 0..Len(n)
        BY <1>1, <1>5
    <2>2. QED
        BY <1>1, <1>4, <2>1, AncestorOfAncestor DEF latest_qc_block
<1>8. found = {b \in Above(p, R) : Len(b) = q}
    BY <1>2, Zenon DEF search_on_branch, num_from_id
<1>9. \A b \in found : b = c /\ b \in f.index
    BY <1>2, <1>7, <1>8, AboveFacts, Zenon
<1>10. c \in f.index => c \in found
    <2>1. ASSUME c \in f.index PROVE Len(c) > R
        <3>1. R < Len(c)
            BY <2>1, Zenon DEF TreeOK
        <3>2. QED
            BY <1>2, <1>5, <3>1
    <2>2. QED
        BY <1>2, <1>5, <1>7, <1>8, <2>1, AboveFacts, Zenon
<1> DEFINE moved == [f EXCEPT !.pending_savanna_lib_id = l]
<1>11. CASE strong /\ q > Len(lib) /\ found # {} /\ Len(l) > Len(lib)
    <2>1. (CHOOSE b \in found : TRUE) = c
        BY <1>9, <1>11, Zenon
    <2>2. g = set_pending_savanna_lib_id(f, l)
        BY <1>11, <2>1, Zenon DEF with_carried_qc, num_from_id
    <2>3. g = moved
        BY <1>11, <2>2, Zenon DEF set_pending_savanna_lib_id, num_from_id
    <2>4. moved = [root |-> f.root, pending_savanna_lib_id |-> l, index |-> f.index, valid |-> f.valid]
        BY PendingSet, Zenon
    <2> HIDE DEF moved, l, lib
    <2>5. g.pending_savanna_lib_id = l
        BY <2>3, <2>4
    <2>6. Len(lib) <= Len(l) /\ Len(l) <= Len(l) /\ ~(Len(l) <= Len(lib))
        BY <1>3, <1>6, <1>11
    <2>7. c \in f.index
        BY <1>9, <1>11, Zenon
    <2>8. QED
        BY <1>11, <2>3, <2>4, <2>5, <2>6, <2>7, Zenon DEF l, lib
<1>12. CASE ~(strong /\ q > Len(lib) /\ found # {} /\ Len(l) > Len(lib))
    <2>1. g = f
        <3>1. CASE strong /\ q > Len(lib) /\ found # {}
            <4>1. (CHOOSE b \in found : TRUE) = c
                BY <1>9, <3>1, Zenon
            <4>2. g = set_pending_savanna_lib_id(f, l)
                BY <3>1, <4>1, Zenon DEF with_carried_qc, num_from_id
            <4>3. QED
                BY <1>12, <3>1, <4>2, Zenon DEF set_pending_savanna_lib_id, num_from_id
        <3>2. CASE ~(strong /\ q > Len(lib) /\ found # {})
            BY <3>2, Zenon DEF with_carried_qc, num_from_id
        <3>3. QED
            BY <3>1, <3>2, Zenon
    <2>2. Len(lib) <= Len(lib)
        BY <1>3
    <2>3. ASSUME strong, c \in f.index PROVE Len(l) <= Len(lib)
        <3>1. ~(q > Len(lib)) \/ ~(Len(l) > Len(lib))
            BY <1>10, <1>12, <2>3, Zenon
        <3>2. QED
            BY <1>3, <1>5, <1>6, <3>1
    <2>4. QED
        BY <2>1, <2>2, <2>3, FieldsOf, Zenon
<1>13. QED
    BY <1>11, <1>12, Zenon

(* A block whose parent is there joins the tree.                           *)
LEMMA Added ==
    ASSUME NEW bs, BlocksOK(bs), NEW f, ForkDbOK(f, bs), NEW n \in bs, has_block(f, previous(n)),
           NEW g, g = add(f, n)
    PROVE  /\ ForkDbOK(g, bs)
           /\ g.root = f.root
           /\ g.index = f.index \cup {n}
           /\ g.valid = f.valid
<1>1. f \in Databases(bs) /\ TreeOK(f) /\ ValidOK(f) /\ PendingOK(f, bs)
    BY Zenon DEF ForkDbOK
<1> DEFINE w == with_carried_qc(f, n)
           lib == w.pending_savanna_lib_id
<1>1a. w = with_carried_qc(f, n)
    OBVIOUS
<1> HIDE DEF w
<1>2. /\ w = [root |-> f.root, pending_savanna_lib_id |-> lib, index |-> f.index, valid |-> f.valid]
      /\ lib = f.pending_savanna_lib_id \/ (qc_claim(n).is_strong_qc /\ lib = latest_qc_block(latest_qc_block(n)))
      /\ Len(f.pending_savanna_lib_id) <= Len(lib)
      /\ qc_claim(n).is_strong_qc /\ latest_qc_block(n) \in f.index =>
            Len(latest_qc_block(latest_qc_block(n))) <= Len(lib)
    <2>1. CarriedOK(f, n, w)
        BY <1>1, <1>1a, CarriedQC, Zenon
    <2>2. QED
        BY <2>1, Zenon DEF CarriedOK
<1>3. lib \in Finalized(bs) \cup {nullid}
    <2>1. qc_claim(n).is_strong_qc => latest_qc_block(latest_qc_block(n)) \in Finalized(bs)
        BY Zenon DEF Finalized
    <2>2. QED
        BY <1>1, <1>2, <2>1, Zenon DEF PendingOK
<1>4. \A x \in bs : latest_qc_block(x) \in bs
    BY BlocksAreIds, ClaimedBlock, Zenon DEF BlocksOK, latest_qc_block
<1>5. Finalized(bs) \subseteq bs
    BY <1>4, Zenon DEF Finalized
<1>6. w \in Databases(bs)
    <2>1. f.root \in bs /\ f.index \in SUBSET bs /\ f.valid \in SUBSET bs /\ lib \in bs \cup {nullid}
        BY <1>1, <1>3, <1>5, Fields, Zenon
    <2> HIDE DEF lib
    <2>2. QED
        BY <1>2, <2>1 DEF Databases
<1>7. g = [w EXCEPT !.index = @ \cup {n}]
    BY Zenon DEF add, w
<1>8. [w EXCEPT !.index = @ \cup {n}] = [root |-> w.root, pending_savanna_lib_id |-> w.pending_savanna_lib_id,
           index |-> w.index \cup {n}, valid |-> w.valid]
    BY <1>6, IndexAdded, Zenon
<1>9. /\ g.root = f.root /\ g.pending_savanna_lib_id = lib
      /\ g.index = f.index \cup {n} /\ g.valid = f.valid
      /\ g = [root |-> f.root, pending_savanna_lib_id |-> lib, index |-> f.index \cup {n}, valid |-> f.valid]
    <2>1. w.root = f.root /\ w.index = f.index /\ w.valid = f.valid
        BY <1>2
    <2>2. g = [root |-> f.root, pending_savanna_lib_id |-> lib, index |-> f.index \cup {n}, valid |-> f.valid]
        BY <1>7, <1>8, <2>1, Zenon
    <2> HIDE DEF lib
    <2>3. QED
        BY <2>2
<1>10. g \in Databases(bs)
    <2>1. f.root \in bs /\ f.index \cup {n} \in SUBSET bs /\ f.valid \in SUBSET bs /\ lib \in bs \cup {nullid}
        BY <1>1, <1>3, <1>5, Fields, Zenon
    <2> HIDE DEF lib
    <2>2. QED
        BY <1>9, <2>1 DEF Databases
<1>11. /\ n \in Ids /\ Len(n) \in Nat /\ Len(f.root) \in Nat /\ f.root \in Ids /\ BlockId(n)
       /\ Len(f.root) < Len(n) /\ ancestor_at(n, Len(f.root)) = f.root
       /\ Above(n, Len(f.root)) = Above(previous(n), Len(f.root)) \cup {n}
       /\ Above(previous(n), Len(f.root)) \subseteq f.index
       /\ Len(n) > 1
    <2> DEFINE k == Len(n) - 1
    <2>1. n \in Ids /\ Len(n) \in Nat /\ BlockId(n) /\ Len(n) >= 1
        BY BlocksAreIds, Zenon
    <2>2. /\ previous(n) = ancestor_at(n, k) /\ k \in 0..Len(n) /\ k + 1 = Len(n) /\ k \in Nat /\ k < Len(n)
        BY <2>1, Parents
    <2>3. Len(previous(n)) = k /\ ancestor_at(n, Len(n)) = n
        BY <2>1, <2>2, Ancestors, OwnAncestor, Zenon
    <2>4. /\ f.root \in Ids /\ Len(f.root) \in 0..k /\ Len(f.root) \in Nat /\ ancestor_at(previous(n), Len(f.root)) = f.root
          /\ Above(previous(n), Len(f.root)) \subseteq f.index
        BY <1>1, <2>3, OnRoot, Zenon
    <2> HIDE DEF k
    <2>5. \A m \in 0..k : Above(ancestor_at(n, k + 1), m) = Above(ancestor_at(n, k), m) \cup {ancestor_at(n, k + 1)}
        BY <2>1, <2>2, NextAbove
    <2>6. Above(n, Len(f.root)) = Above(previous(n), Len(f.root)) \cup {n}
        BY <2>2, <2>3, <2>4, <2>5, Zenon
    <2>7. ancestor_at(n, Len(f.root)) = f.root
        BY <2>1, <2>2, <2>4, AncestorOfAncestor, Zenon
    <2>8. Len(f.root) < Len(n) /\ Len(n) > 1
        <3>1. Len(f.root) >= 1
            BY <1>1, Fields, BlocksAreIds, Zenon
        <3>2. QED
            BY <2>2, <2>4, <3>1
    <2>9. QED
        BY <2>1, <2>4, <2>6, <2>7, <2>8, Zenon
<1>12. TreeOK(g)
    <2>1. ASSUME NEW b \in g.index
          PROVE  b \in Ids /\ Len(f.root) < Len(b) /\ ancestor_at(b, Len(f.root)) = f.root /\ Above(b, Len(f.root)) \subseteq g.index
        <3>1. CASE b \in f.index
            <4>1. b \in Ids /\ Len(f.root) < Len(b) /\ ancestor_at(b, Len(f.root)) = f.root /\ Above(b, Len(f.root)) \subseteq f.index
                BY <1>1, <3>1, Zenon DEF TreeOK
            <4>2. QED
                BY <1>9, <4>1, Zenon
        <3>2. CASE b = n
            BY <1>9, <1>11, <3>2, Zenon
        <3>3. QED
            BY <1>9, <3>1, <3>2, Zenon
    <2>2. QED
        BY <1>9, <1>11, <2>1, Zenon DEF TreeOK
<1>13. ValidOK(g)
    BY <1>1, <1>9, Zenon DEF ValidOK
<1>14. PendingOK(g, bs)
    <2>1. ASSUME NEW b \in g.index, qc_claim(b).is_strong_qc, latest_qc_block(b) \in g.index
          PROVE  Len(latest_qc_block(latest_qc_block(b))) <= Len(lib)
        <3>1. CASE b = n
            <4>1. latest_qc_block(n) # n
                <5>1. Len(latest_qc_block(n)) < Len(n)
                    BY <1>11, ClaimedBlock, Zenon
                <5>2. ~(Len(n) < Len(n))
                    BY <1>11
                <5>3. QED
                    BY <5>1, <5>2, Zenon
            <4>2. latest_qc_block(n) \in f.index
                BY <1>9, <2>1, <3>1, <4>1, Zenon
            <4>3. QED
                BY <1>2, <2>1, <3>1, <4>2, Zenon
        <3>2. CASE b # n
            <4>1. b \in f.index /\ b \in bs
                BY <1>1, <1>9, <3>2, Fields, Zenon
            <4>2. BlockId(b) /\ b \in Ids /\ Len(b) \in Nat
                BY <4>1, BlocksAreIds, Zenon
            <4> DEFINE c == latest_qc_block(b)
            <4>3. c \in Ids /\ Len(c) \in 1..Len(b) /\ ancestor_at(b, Len(c)) = c
                BY <4>2, ClaimedBlock, Zenon DEF latest_qc_block
            <4>4. Len(f.root) < Len(c)
                BY <1>9, <1>12, <2>1, Zenon DEF TreeOK
            <4>5. c \in Above(b, Len(f.root))
                <5>1. Len(c) > Len(f.root) /\ Len(c) <= Len(b)
                    BY <1>11, <4>2, <4>3, <4>4
                <5>2. QED
                    BY <1>11, <4>2, <4>3, <5>1, AboveFacts, Zenon
            <4>6. c \in f.index
                BY <1>1, <4>1, <4>5, Zenon DEF TreeOK
            <4>7. Len(latest_qc_block(c)) <= Len(f.pending_savanna_lib_id)
                BY <1>1, <2>1, <4>1, <4>6, Zenon DEF PendingOK
            <4>8. Len(latest_qc_block(c)) \in Nat /\ Len(f.pending_savanna_lib_id) \in Nat /\ Len(lib) \in Nat
                <5>1. nullid \in Ids
                    BY DEF nullid, Ids
                <5>2. c \in bs /\ f.pending_savanna_lib_id \in bs \cup {nullid} /\ lib \in bs \cup {nullid}
                    BY <1>1, <1>3, <1>4, <1>5, <4>1, Fields, Zenon
                <5>3. latest_qc_block(c) \in Ids
                    BY <5>2, BlocksAreIds, ClaimedBlock, Zenon
                <5>4. QED
                    BY <5>1, <5>2, <5>3, BlocksAreIds, Heights, Zenon
            <4>9. QED
                BY <1>2, <4>7, <4>8
        <3>3. QED
            BY <3>1, <3>2, Zenon
    <2>2. QED
        BY <1>3, <1>9, <2>1, Zenon DEF PendingOK
<1>15. QED
    BY <1>9, <1>10, <1>12, <1>13, <1>14, Zenon DEF ForkDbOK

-----------------------------------------------------------------------------
(* The best branch *)

(* The lexicographic order of the keys, spelled out.                       *)
LEMMA KeysCompared ==
    ASSUME NEW g, NEW h
    PROVE  header_greater(g, h) <=>
               LET a == header_key(g)
                   b == header_key(h)
               IN  \/ a[1] > b[1]
                   \/ a[1] = b[1] /\ a[2] > b[2]
                   \/ a[1] = b[1] /\ a[2] = b[2] /\ a[3] > b[3]
                   \/ a[1] = b[1] /\ a[2] = b[2] /\ a[3] = b[3] /\ a[4] > b[4]
<1> DEFINE a == header_key(g)
           b == header_key(h)
<1>1. header_greater(g, h) <=> \E i \in 1..4 : a[i] > b[i] /\ \A j \in 1..(i - 1) : a[j] = b[j]
    BY Zenon DEF header_greater
<1> HIDE DEF a, b
<1>2. /\ \A i \in 1..4 : i = 1 \/ i = 2 \/ i = 3 \/ i = 4
      /\ \A j : (j \in 1..(1 - 1) <=> FALSE) /\ (j \in 1..(2 - 1) <=> j = 1)
             /\ (j \in 1..(3 - 1) <=> j = 1 \/ j = 2) /\ (j \in 1..(4 - 1) <=> j = 1 \/ j = 2 \/ j = 3)
      /\ 1 \in 1..4 /\ 2 \in 1..4 /\ 3 \in 1..4 /\ 4 \in 1..4
    OBVIOUS
<1>3. (\E i \in 1..4 : a[i] > b[i] /\ \A j \in 1..(i - 1) : a[j] = b[j]) <=>
          \/ a[1] > b[1]
          \/ a[1] = b[1] /\ a[2] > b[2]
          \/ a[1] = b[1] /\ a[2] = b[2] /\ a[3] > b[3]
          \/ a[1] = b[1] /\ a[2] = b[2] /\ a[3] = b[3] /\ a[4] > b[4]
    BY <1>2, ZenonT(30)
<1>4. QED
    BY <1>1, <1>3, Zenon DEF a, b

(* The key of a header is four numbers, and all of the header.             *)
LEMMA Keys ==
    ASSUME NEW h \in Headers
    PROVE  \A i \in 1..4 : header_key(h)[i] \in Int
BY DEF header_key, Headers

(* Headers with one key are one header.                                    *)
LEMMA KeyIsHeader ==
    ASSUME NEW g \in Headers, NEW h \in Headers, \A i \in 1..4 : header_key(g)[i] = header_key(h)[i]
    PROVE  g = h
<1>1. g.timestamp = h.timestamp /\ g.claim.block_num = h.claim.block_num
    BY DEF header_key, Headers
<1>2. g.executable = h.executable
    <2>1. (IF g.executable THEN 0 ELSE 1) = (IF h.executable THEN 0 ELSE 1)
        BY DEF header_key, Headers
    <2>2. g.executable \in BOOLEAN /\ h.executable \in BOOLEAN
        BY DEF Headers
    <2>3. 0 # 1
        OBVIOUS
    <2>4. QED
        BY <2>1, <2>2, <2>3, Zenon
<1>3. g.claim.is_strong_qc = h.claim.is_strong_qc
    <2>1. (IF g.claim.is_strong_qc THEN 1 ELSE 0) = (IF h.claim.is_strong_qc THEN 1 ELSE 0)
        BY DEF header_key, Headers
    <2>2. g.claim.is_strong_qc \in BOOLEAN /\ h.claim.is_strong_qc \in BOOLEAN
        BY DEF Headers
    <2>3. 0 # 1
        OBVIOUS
    <2>4. QED
        BY <2>1, <2>2, <2>3, Zenon
<1>4. g.claim = h.claim
    <2>1. g.claim \in [block_num : Nat, is_strong_qc : BOOLEAN] /\ h.claim \in [block_num : Nat, is_strong_qc : BOOLEAN]
        BY DEF Headers
    <2>2. QED
        BY <1>1, <1>3, <2>1
<1>5. QED
    BY <1>1, <1>2, <1>4 DEF Headers

(* So it is a total order.                                                 *)
LEMMA HeadersOrdered ==
    ASSUME NEW g \in Headers, NEW h \in Headers
    PROVE  /\ g # h => header_greater(g, h) \/ header_greater(h, g)
           /\ \A k \in Headers : header_greater(g, h) /\ header_greater(h, k) => header_greater(g, k)
<1> DEFINE a == header_key(g)
           b == header_key(h)
<1>1. /\ a[1] \in Int /\ a[2] \in Int /\ a[3] \in Int /\ a[4] \in Int
      /\ b[1] \in Int /\ b[2] \in Int /\ b[3] \in Int /\ b[4] \in Int
    BY Keys
<1> HIDE DEF a, b
<1>2. ASSUME g # h PROVE header_greater(g, h) \/ header_greater(h, g)
    <2>1. ~(\A i \in 1..4 : a[i] = b[i])
        BY <1>2, KeyIsHeader, Zenon DEF a, b
    <2>2. ~(a[1] = b[1] /\ a[2] = b[2] /\ a[3] = b[3] /\ a[4] = b[4])
        BY <2>1
    <2>3. \/ \/ a[1] > b[1]
             \/ a[1] = b[1] /\ a[2] > b[2]
             \/ a[1] = b[1] /\ a[2] = b[2] /\ a[3] > b[3]
             \/ a[1] = b[1] /\ a[2] = b[2] /\ a[3] = b[3] /\ a[4] > b[4]
          \/ \/ b[1] > a[1]
             \/ b[1] = a[1] /\ b[2] > a[2]
             \/ b[1] = a[1] /\ b[2] = a[2] /\ b[3] > a[3]
             \/ b[1] = a[1] /\ b[2] = a[2] /\ b[3] = a[3] /\ b[4] > a[4]
        BY <1>1, <2>2
    <2>4. QED
        BY <2>3, KeysCompared DEF a, b
<1>3. ASSUME NEW k \in Headers, header_greater(g, h), header_greater(h, k) PROVE header_greater(g, k)
    <2> DEFINE c == header_key(k)
    <2>1. c[1] \in Int /\ c[2] \in Int /\ c[3] \in Int /\ c[4] \in Int
        BY Keys
    <2> HIDE DEF c
    <2>2. /\ \/ a[1] > b[1]
             \/ a[1] = b[1] /\ a[2] > b[2]
             \/ a[1] = b[1] /\ a[2] = b[2] /\ a[3] > b[3]
             \/ a[1] = b[1] /\ a[2] = b[2] /\ a[3] = b[3] /\ a[4] > b[4]
          /\ \/ b[1] > c[1]
             \/ b[1] = c[1] /\ b[2] > c[2]
             \/ b[1] = c[1] /\ b[2] = c[2] /\ b[3] > c[3]
             \/ b[1] = c[1] /\ b[2] = c[2] /\ b[3] = c[3] /\ b[4] > c[4]
        BY <1>3, KeysCompared DEF a, b, c
    <2>3. \/ a[1] > c[1]
          \/ a[1] = c[1] /\ a[2] > c[2]
          \/ a[1] = c[1] /\ a[2] = c[2] /\ a[3] > c[3]
          \/ a[1] = c[1] /\ a[2] = c[2] /\ a[3] = c[3] /\ a[4] > c[4]
        BY <1>1, <2>1, <2>2
    <2>4. QED
        BY <2>3, KeysCompared DEF a, c
<1>4. QED
    BY <1>2, <1>3, Zenon

(* Ids are compared where they first differ; the end of the shorter is a   *)
(* difference.                                                             *)
Differ(x, y, i) ==
    /\ i \in 1..Len(x)
    /\ \A m \in 1 .. i - 1 : m <= Len(y) /\ x[m] = y[m]
    /\ i = Len(y) + 1 \/ (i <= Len(y) /\ header_greater(x[i], y[i]))

(* Ancestors at a height are equal when the headers up to it are.          *)
LEMMA SameAncestors ==
    ASSUME NEW x \in Ids, NEW y \in Ids, NEW k \in 0..Len(x), k <= Len(y)
    PROVE  ancestor_at(x, k) = ancestor_at(y, k) <=> \A m \in 1..k : x[m] = y[m]
<1>1. k \in 0..Len(y)
    BY Heights
<1>2. /\ ancestor_at(x, k) \in Ids /\ Len(ancestor_at(x, k)) = k /\ \A i \in 1..k : ancestor_at(x, k)[i] = x[i]
      /\ ancestor_at(y, k) \in Ids /\ Len(ancestor_at(y, k)) = k /\ \A i \in 1..k : ancestor_at(y, k)[i] = y[i]
    BY <1>1, Ancestors, Zenon
<1>3. QED
    BY <1>2, SameId, Zenon

(* id_greater looks for the first difference.                              *)
LEMMA GreaterIs ==
    ASSUME NEW x \in Ids, NEW y \in Ids
    PROVE  id_greater(x, y) <=> \E i \in Nat : Differ(x, y, i)
<1>1. Len(x) \in Nat /\ Len(y) \in Nat
    BY Heights, Zenon
<1>2. ASSUME IsStrictPrefix(y, x) PROVE Differ(x, y, Len(y) + 1)
    <2>1. IsPrefix(y, x) /\ y # x
        BY <1>2, Zenon DEF IsStrictPrefix
    <2>2. Len(y) <= Len(x) /\ ancestor_at(x, Len(y)) = y /\ ancestor_at(y, Len(y)) = y
        BY <2>1, PrefixIs, OwnAncestor, Zenon
    <2>3. Len(y) # Len(x)
        BY <2>1, <2>2, OwnAncestor, Zenon
    <2>4. Len(y) + 1 \in 1..Len(x) /\ Len(y) \in 0..Len(x) /\ (Len(y) + 1) - 1 = Len(y) /\ Len(y) <= Len(y)
          /\ \A m \in 1..Len(y) : m <= Len(y)
        BY <1>1, <2>2, <2>3
    <2>4a. ancestor_at(x, Len(y)) = ancestor_at(y, Len(y))
        BY <2>2, Zenon
    <2>5. \A m \in 1..Len(y) : x[m] = y[m]
        BY <2>4, <2>4a, SameAncestors, Zenon
    <2>6. QED
        BY <2>4, <2>5, Zenon DEF Differ
<1>3. ASSUME NEW i \in 1..Len(x), i <= Len(y), ancestor_at(x, i - 1) = ancestor_at(y, i - 1), header_greater(x[i], y[i])
      PROVE  Differ(x, y, i)
    <2>1. i - 1 \in 0..Len(x) /\ i - 1 <= Len(y) /\ \A m \in 1 .. i - 1 : m <= Len(y)
        BY <1>1, <1>3
    <2>2. \A m \in 1 .. i - 1 : x[m] = y[m]
        BY <1>3, <2>1, SameAncestors, Zenon
    <2>3. QED
        BY <1>3, <2>1, <2>2, Zenon DEF Differ
<1>4. ASSUME NEW i \in Nat, Differ(x, y, i) PROVE id_greater(x, y)
    <2>1. /\ i \in 1..Len(x)
          /\ \A m \in 1 .. i - 1 : m <= Len(y) /\ x[m] = y[m]
          /\ i = Len(y) + 1 \/ (i <= Len(y) /\ header_greater(x[i], y[i]))
        BY <1>4, Zenon DEF Differ
    <2>2. CASE i = Len(y) + 1
        <3>1. i - 1 = Len(y) /\ Len(y) \in 0..Len(x) /\ Len(y) <= Len(y) /\ Len(y) <= Len(x) /\ Len(y) # Len(x)
            BY <1>1, <2>1, <2>2
        <3>2. ancestor_at(x, Len(y)) = ancestor_at(y, Len(y))
            BY <2>1, <3>1, SameAncestors, Zenon
        <3>3. IsPrefix(y, x) /\ y # x
            BY <3>1, <3>2, OwnAncestor, PrefixIs, Zenon
        <3>4. QED
            BY <3>3, Zenon DEF id_greater, IsStrictPrefix
    <2>3. CASE i <= Len(y) /\ header_greater(x[i], y[i])
        <3>1. i - 1 \in 0..Len(x) /\ i - 1 <= Len(y)
            BY <1>1, <2>1, <2>3
        <3>2. ancestor_at(x, i - 1) = ancestor_at(y, i - 1)
            BY <2>1, <3>1, SameAncestors, Zenon
        <3>3. QED
            BY <2>1, <2>3, <3>2, Zenon DEF id_greater
    <2>4. QED
        BY <2>1, <2>2, <2>3, Zenon
<1>5. ASSUME id_greater(x, y) PROVE \E i \in Nat : Differ(x, y, i)
    <2>1. Len(y) + 1 \in Nat /\ \A i \in 1..Len(x) : i \in Nat
        BY <1>1
    <2>2. QED
        BY <1>2, <1>3, <1>5, <2>1, Zenon DEF id_greater
<1>6. QED
    BY <1>4, <1>5, Zenon
(* The order of ids is total and transitive.                               *)
LEMMA IdsTransitive ==
    ASSUME NEW x \in Ids, NEW y \in Ids, NEW z \in Ids, id_greater(x, y), id_greater(y, z)
    PROVE  id_greater(x, z)
<1>1. Len(x) \in Nat /\ Len(y) \in Nat /\ Len(z) \in Nat
    BY Heights, Zenon
<1>2. PICK i \in Nat : Differ(x, y, i)
    BY GreaterIs, Zenon
<1>3. PICK j \in Nat : Differ(y, z, j)
    BY GreaterIs, Zenon
<1>4. /\ i \in 1..Len(x)
      /\ \A m \in 1 .. i - 1 : m <= Len(y) /\ x[m] = y[m]
      /\ i = Len(y) + 1 \/ (i <= Len(y) /\ header_greater(x[i], y[i]))
    BY <1>2, Zenon DEF Differ
<1>5. /\ j \in 1..Len(y)
      /\ \A m \in 1 .. j - 1 : m <= Len(z) /\ y[m] = z[m]
      /\ j = Len(z) + 1 \/ (j <= Len(z) /\ header_greater(y[j], z[j]))
    BY <1>3, Zenon DEF Differ
<1>6. /\ \A m \in 1..Len(x) : x[m] \in Headers
      /\ \A m \in 1..Len(y) : y[m] \in Headers
      /\ \A m \in 1..Len(z) : z[m] \in Headers
    BY DEF Ids
<1>7. CASE i < j
    <2>1. /\ i \in 1..Len(y) /\ i \in 1 .. j - 1 /\ i # Len(y) + 1
          /\ \A m \in 1 .. i - 1 : m \in 1 .. j - 1
        BY <1>1, <1>4, <1>5, <1>7
    <2>2. i <= Len(z) /\ header_greater(x[i], z[i])
        BY <1>4, <1>5, <2>1, Zenon
    <2>3. \A m \in 1 .. i - 1 : m <= Len(z) /\ x[m] = z[m]
        BY <1>4, <1>5, <2>1, Zenon
    <2>4. Differ(x, z, i)
        BY <1>4, <2>2, <2>3, Zenon DEF Differ
    <2>5. QED
        BY <2>4, GreaterIs, Zenon
<1>8. CASE j < i
    <2>1. /\ j \in 1..Len(x) /\ j \in 1 .. i - 1
          /\ \A m \in 1 .. j - 1 : m \in 1 .. i - 1
        BY <1>1, <1>4, <1>5, <1>8
    <2>2. x[j] = y[j]
        BY <1>4, <2>1, Zenon
    <2>3. \A m \in 1 .. j - 1 : m <= Len(z) /\ x[m] = z[m]
        BY <1>4, <1>5, <2>1, Zenon
    <2>4. Differ(x, z, j)
        BY <1>5, <2>1, <2>2, <2>3, Zenon DEF Differ
    <2>5. QED
        BY <2>4, GreaterIs, Zenon
<1>9. CASE i = j
    <2>1. i # Len(y) + 1
        BY <1>1, <1>5, <1>9
    <2>2. header_greater(x[i], y[i])
        BY <1>4, <2>1, Zenon
    <2>3. i = Len(z) + 1 \/ (i <= Len(z) /\ header_greater(x[i], z[i]))
        <3>1. CASE i <= Len(z) /\ header_greater(y[i], z[i])
            <4>1. i \in 1..Len(z) /\ i \in 1..Len(y)
                BY <1>1, <1>4, <1>5, <1>9, <3>1
            <4>2. header_greater(x[i], z[i])
                BY <1>4, <1>6, <2>2, <3>1, <4>1, HeadersOrdered, Zenon
            <4>3. QED
                BY <3>1, <4>2, Zenon
        <3>2. QED
            BY <1>5, <1>9, <3>1, Zenon
    <2>4. \A m \in 1 .. i - 1 : m <= Len(z) /\ x[m] = z[m]
        BY <1>4, <1>5, <1>9, Zenon
    <2>5. Differ(x, z, i)
        BY <1>4, <2>3, <2>4, Zenon DEF Differ
    <2>6. QED
        BY <2>5, GreaterIs, Zenon
<1>10. QED
    <2>1. i < j \/ j < i \/ i = j
        OBVIOUS
    <2>2. QED
        BY <1>7, <1>8, <1>9, <2>1, Zenon

(* Of two ids one is greater.                                              *)
LEMMA IdsTotal ==
    ASSUME NEW x \in Ids, NEW y \in Ids, x # y
    PROVE  id_greater(x, y) \/ id_greater(y, x)
<1> DEFINE T == {i \in Nat : i > 0 /\ (i > Len(x) \/ i > Len(y) \/ x[i] # y[i])}
<1>1. Len(x) \in Nat /\ Len(y) \in Nat
    BY Heights, Zenon
<1>2. Len(x) + 1 \in T
    BY <1>1
<1>3. PICK i \in T : \A j \in T : ~(j < i)
    BY <1>2, LeastNat, Zenon
<1>4. i \in Nat /\ i > 0 /\ (i > Len(x) \/ i > Len(y) \/ x[i] # y[i])
    BY <1>3, Zenon
<1>5. \A m \in 1 .. i - 1 : m <= Len(x) /\ m <= Len(y) /\ x[m] = y[m]
    <2>1. ASSUME NEW m \in 1 .. i - 1 PROVE m <= Len(x) /\ m <= Len(y) /\ x[m] = y[m]
        <3>1. m \in Nat /\ m > 0 /\ m < i
            BY <1>4
        <3>2. m \notin T
            BY <1>3, <3>1, Zenon
        <3>3. ~(m > Len(x)) /\ ~(m > Len(y)) /\ x[m] = y[m]
            BY <3>1, <3>2, Zenon
        <3>4. QED
            BY <1>1, <3>1, <3>3
    <2>2. QED
        BY <2>1, Zenon
<1> HIDE DEF T
<1>6. i = 1 \/ i - 1 \in 1 .. i - 1
    BY <1>4
<1>7. i - 1 <= Len(x) /\ i - 1 <= Len(y)
    BY <1>1, <1>5, <1>6
<1>8. CASE i > Len(x)
    <2>1. i = Len(x) + 1
        BY <1>1, <1>4, <1>7, <1>8
    <2>2. Len(x) # Len(y)
        <3>1. ASSUME Len(x) = Len(y) PROVE FALSE
            <4>1. 1 .. i - 1 = 1..Len(x)
                BY <1>1, <2>1
            <4>2. QED
                BY <1>5, <3>1, <4>1, SameId, Zenon
        <3>2. QED
            BY <3>1, Zenon
    <2>3. i \in 1..Len(y)
        BY <1>1, <1>4, <1>7, <2>1, <2>2
    <2>4. Differ(y, x, i)
        BY <1>5, <2>1, <2>3, Zenon DEF Differ
    <2>5. QED
        BY <1>4, <2>4, GreaterIs, Zenon
<1>9. CASE i > Len(y) /\ ~(i > Len(x))
    <2>1. i = Len(y) + 1 /\ i \in 1..Len(x)
        BY <1>1, <1>4, <1>7, <1>9
    <2>2. Differ(x, y, i)
        BY <1>5, <2>1, Zenon DEF Differ
    <2>3. QED
        BY <1>4, <2>2, GreaterIs, Zenon
<1>10. CASE ~(i > Len(y)) /\ ~(i > Len(x))
    <2>1. i \in 1..Len(x) /\ i \in 1..Len(y) /\ i <= Len(x) /\ i <= Len(y) /\ x[i] # y[i]
        BY <1>1, <1>4, <1>10
    <2>2. x[i] \in Headers /\ y[i] \in Headers
        BY <2>1 DEF Ids
    <2>3. header_greater(x[i], y[i]) \/ header_greater(y[i], x[i])
        BY <2>1, <2>2, HeadersOrdered, Zenon
    <2>4. Differ(x, y, i) \/ Differ(y, x, i)
        BY <1>5, <2>1, <2>3, Zenon DEF Differ
    <2>5. QED
        BY <1>4, <2>4, GreaterIs, Zenon
<1>11. QED
    BY <1>8, <1>9, <1>10, Zenon

(* What by_best_branch compares first are numbers.                         *)
LEMMA Times ==
    ASSUME NEW x, BlockId(x)
    PROVE  /\ timestamp(x) \in Nat /\ latest_qc_block_timestamp(x) \in Nat
           /\ timestamp(x) = x[Len(x)].timestamp
           /\ latest_qc_block_timestamp(x) = x[qc_claim(x).block_num].timestamp
<1>1. x \in Ids /\ Len(x) >= 1 /\ Len(x) \in Nat
    BY Heights, Zenon DEF BlockId
<1> DEFINE q == qc_claim(x).block_num
           c == latest_qc_block(x)
<1>2. q \in 1..Len(x) /\ q \in 0..Len(x) /\ c \in Ids /\ Len(c) = q /\ c = ancestor_at(x, q)
    BY ClaimedBlock, Zenon DEF latest_qc_block
<1>3. Len(c) >= 1 /\ q \in 1..q
    BY <1>2
<1>4. c[q] = x[q]
    <2>1. \A i \in 1..q : ancestor_at(x, q)[i] = x[i]
        BY <1>1, <1>2, Ancestors, Zenon
    <2>2. ancestor_at(x, q)[q] = x[q]
        BY <1>3, <2>1, Zenon
    <2>3. c = ancestor_at(x, q)
        BY Zenon DEF latest_qc_block
    <2>4. QED
        BY <2>2, <2>3, Zenon
<1>5. timestamp(c) \in Nat /\ timestamp(c) = c[q].timestamp
    BY <1>2, <1>3, LastHeader, Zenon
<1>6. timestamp(x) \in Nat /\ timestamp(x) = x[Len(x)].timestamp
    BY <1>1, LastHeader, Zenon
<1>7. QED
    BY <1>4, <1>5, <1>6, Zenon DEF latest_qc_block_timestamp

(* by_best_branch is a total order of blocks.                              *)
LEMMA BestOrdered ==
    ASSUME NEW x, NEW y, BlockId(x), BlockId(y)
    PROVE  /\ x # y => by_best_branch(x, y) \/ by_best_branch(y, x)
           /\ by_best_branch(x, y) => latest_qc_block_timestamp(x) >= latest_qc_block_timestamp(y)
           /\ first_preferred(x, y) => ~by_best_branch(y, x)
           /\ \A z : BlockId(z) /\ by_best_branch(x, y) /\ by_best_branch(y, z) => by_best_branch(x, z)
<1>1. \A b : BlockId(b) => b \in Ids /\ timestamp(b) \in Nat /\ latest_qc_block_timestamp(b) \in Nat
    BY Times, Zenon DEF BlockId
<1> DEFINE before(a, s, b, t) == a > b \/ (a = b /\ s > t)
           P(u, v) == before(latest_qc_block_timestamp(u), timestamp(u), latest_qc_block_timestamp(v), timestamp(v))
<1>2. \A u, v : first_preferred(u, v) <=> P(u, v)
    BY Zenon DEF first_preferred
<1>4. ASSUME NEW u, NEW v, NEW w, BlockId(u), BlockId(v), BlockId(w)
      PROVE  /\ P(u, v) => ~P(v, u) /\ latest_qc_block_timestamp(u) >= latest_qc_block_timestamp(v)
             /\ ~P(v, u) => latest_qc_block_timestamp(u) >= latest_qc_block_timestamp(v)
             /\ P(u, v) /\ ~P(w, v) => P(u, w)
             /\ ~P(v, u) /\ P(v, w) => P(u, w)
             /\ ~P(v, u) /\ ~P(w, v) => ~P(w, u)
    <2>1. /\ timestamp(u) \in Nat /\ latest_qc_block_timestamp(u) \in Nat
          /\ timestamp(v) \in Nat /\ latest_qc_block_timestamp(v) \in Nat
          /\ timestamp(w) \in Nat /\ latest_qc_block_timestamp(w) \in Nat
        BY <1>1, <1>4, Zenon
    <2>2. QED
        BY <2>1
<1>5. \A u, v : by_best_branch(u, v) <=> P(u, v) \/ (~P(v, u) /\ id_greater(u, v))
    BY <1>2, Zenon DEF by_best_branch
<1> HIDE DEF P
<1>6. x # y => by_best_branch(x, y) \/ by_best_branch(y, x)
    BY <1>1, <1>5, IdsTotal, Zenon
<1>7. by_best_branch(x, y) => latest_qc_block_timestamp(x) >= latest_qc_block_timestamp(y)
    BY <1>4, <1>5, Zenon
<1>8. first_preferred(x, y) => ~by_best_branch(y, x)
    BY <1>2, <1>4, <1>5, Zenon
<1>9. ASSUME NEW z, BlockId(z), by_best_branch(x, y), by_best_branch(y, z) PROVE by_best_branch(x, z)
    <2>1. id_greater(x, y) /\ id_greater(y, z) => id_greater(x, z)
        BY <1>1, <1>9, IdsTransitive, Zenon
    <2>2. QED
        BY <1>4, <1>5, <1>9, <2>1, Zenon
<1>10. QED
    BY <1>6, <1>7, <1>8, <1>9, Zenon

(* A set of blocks has a best one.                                         *)
LEMMA BestExists ==
    ASSUME NEW S, IsFiniteSet(S), S # {}, \A b \in S : BlockId(b)
    PROVE  \E b \in S : \A c \in S \ {b} : by_best_branch(b, c)
<1> DEFINE NoBest(U) == U # {} /\ U \subseteq S /\ ~\E b \in U : \A c \in U \ {b} : by_best_branch(b, c)
           T == {n \in Nat : \E U \in SUBSET S : NoBest(U) /\ Cardinality(U) = n}
<1>1. SUFFICES ASSUME NoBest(S) PROVE FALSE
    BY Zenon
<1>2. ASSUME NEW U \in SUBSET S PROVE IsFiniteSet(U) /\ Cardinality(U) \in Nat
    BY FS_Subset, FS_CardinalityType, Zenon
<1>3. Cardinality(S) \in T
    BY <1>1, <1>2, Zenon
<1>4. PICK n \in T : \A m \in T : ~(m < n)
    BY <1>3, LeastNat, Zenon
<1>5. PICK U \in SUBSET S : NoBest(U) /\ Cardinality(U) = n
    BY <1>4, Zenon
<1>6. PICK c \in U : TRUE
    BY <1>5, Zenon
<1> DEFINE V == U \ {c}
<1>7. V \in SUBSET S /\ Cardinality(V) = n - 1 /\ n \in Nat /\ n - 1 \in Nat /\ n - 1 < n
    <2>1. IsFiniteSet(V) /\ Cardinality(V) = Cardinality(U) - 1
        BY <1>2, <1>6, FS_RemoveElement, Zenon
    <2>2. Cardinality(V) \in Nat /\ n \in Nat
        BY <1>2, <1>5, Zenon
    <2>3. n - 1 \in Nat /\ n - 1 < n
        BY <1>5, <2>1, <2>2
    <2>4. QED
        BY <1>5, <2>1, <2>2, <2>3, Zenon
<1>8. ~NoBest(V)
    BY <1>4, <1>7, Zenon
<1>9. CASE V = {}
    <2>1. \A d \in U \ {c} : by_best_branch(c, d)
        BY <1>9, Zenon
    <2>2. QED
        BY <1>5, <1>6, <2>1, Zenon
<1>10. CASE V # {}
    <2>1. PICK b \in V : \A d \in V \ {b} : by_best_branch(b, d)
        BY <1>7, <1>8, <1>10, Zenon
    <2>2. BlockId(b) /\ BlockId(c) /\ b # c
        BY <1>6, <1>7, Zenon
    <2>3. CASE by_best_branch(b, c)
        <3>1. \A d \in U \ {b} : by_best_branch(b, d)
            BY <2>1, <2>3, Zenon
        <3>2. QED
            BY <1>5, <3>1, Zenon
    <2>4. CASE by_best_branch(c, b)
        <3>1. ASSUME NEW d \in U \ {c} PROVE by_best_branch(c, d)
            <4>1. BlockId(d)
                BY Zenon
            <4>2. CASE d = b
                BY <2>4, <4>2, Zenon
            <4>3. CASE d # b
                BY <2>1, <2>2, <2>4, <4>1, <4>3, BestOrdered, Zenon
            <4>4. QED
                BY <4>2, <4>3, Zenon
        <3>2. QED
            BY <1>5, <1>6, <3>1, Zenon
    <2>5. QED
        BY <2>2, <2>3, <2>4, BestOrdered, Zenon
<1>11. QED
    BY <1>9, <1>10, Zenon

(* head() is the best block of a database that is not empty.               *)
LEMMA BestHead ==
    ASSUME NEW bs, BlocksOK(bs), NEW f, ForkDbOK(f, bs), f.index # {}
    PROVE  head(f) \in f.index /\ \A c \in f.index \ {head(f)} : by_best_branch(head(f), c)
<1>1. f.index \subseteq bs
    BY Fields, Zenon DEF ForkDbOK
<1>2. IsFiniteSet(f.index)
    BY <1>1, FS_Subset, Zenon DEF BlocksOK
<1>3. \A b \in f.index : BlockId(b)
    BY <1>1, BlocksAreIds, Zenon
<1>4. \E b \in f.index : \A c \in f.index \ {b} : by_best_branch(b, c)
    BY <1>2, <1>3, BestExists, Zenon
<1>5. QED
    BY <1>4, Zenon DEF head

(* Blocks can be put in an order from the worst to the best.               *)
WorstFirst(S, s) ==
    /\ s \in orders(S)
    /\ \A i, j \in DOMAIN s : i < j => by_best_branch(s[j], s[i])

(* There is such an order of any set of blocks.                            *)
LEMMA OrderExists ==
    ASSUME NEW S, IsFiniteSet(S), \A b \in S : BlockId(b)
    PROVE  \E s : WorstFirst(S, s)
<1> DEFINE NoOrder(U) == U \subseteq S /\ ~\E s : WorstFirst(U, s)
           T == {n \in Nat : \E U \in SUBSET S : NoOrder(U) /\ Cardinality(U) = n}
<1>1. SUFFICES ASSUME NoOrder(S) PROVE FALSE
    BY Zenon
<1>2. ASSUME NEW U \in SUBSET S PROVE IsFiniteSet(U) /\ Cardinality(U) \in Nat
    BY FS_Subset, FS_CardinalityType, Zenon
<1>3. Cardinality(S) \in T
    BY <1>1, <1>2, Zenon
<1>4. PICK n \in T : \A m \in T : ~(m < n)
    BY <1>3, LeastNat, Zenon
<1>5. PICK U \in SUBSET S : NoOrder(U) /\ Cardinality(U) = n
    BY <1>4, Zenon
<1>6. CASE U = {}
    <2>1. Cardinality(U) = 0 /\ 1..0 = {}
        <3>1. Cardinality(U) = 0
            BY <1>6, FS_EmptySet, Zenon
        <3>2. QED
            BY <3>1
    <2>2. << >> \in [1..0 -> U] /\ DOMAIN << >> = {}
        BY <2>1
    <2>3. WorstFirst(U, << >>)
        BY <2>1, <2>2, Zenon DEF WorstFirst, orders
    <2>4. QED
        BY <1>5, <2>3, Zenon
<1>7. CASE U # {}
    <2>1. PICK b \in U : \A c \in U \ {b} : by_best_branch(b, c)
        BY <1>2, <1>7, BestExists, Zenon
    <2> DEFINE V == U \ {b}
    <2>2. V \in SUBSET S /\ Cardinality(V) = n - 1 /\ n \in Nat /\ n - 1 \in Nat /\ n - 1 < n
        <3>1. IsFiniteSet(V) /\ Cardinality(V) = Cardinality(U) - 1
            BY <1>2, FS_RemoveElement, Zenon
        <3>2. Cardinality(V) \in Nat /\ n \in Nat
            BY <1>2, <1>5, Zenon
        <3>3. n - 1 \in Nat /\ n - 1 < n
            BY <1>5, <3>1, <3>2
        <3>4. QED
            BY <1>5, <3>1, <3>2, <3>3, Zenon
    <2>3. PICK s : WorstFirst(V, s)
        <3>1. ~NoOrder(V)
            BY <1>4, <2>2, Zenon
        <3>2. QED
            BY <2>2, <3>1, Zenon
    <2>4. /\ s \in [1 .. n - 1 -> V] /\ DOMAIN s = 1 .. n - 1
          /\ \A i, j \in 1 .. n - 1 : i # j => s[i] # s[j]
          /\ \A i, j \in 1 .. n - 1 : i < j => by_best_branch(s[j], s[i])
        BY <2>2, <2>3, Zenon DEF WorstFirst, orders
    <2> DEFINE t == [i \in 1..n |-> IF i = n THEN b ELSE s[i]]
    <2>5. \A i \in 1..n : i = n \/ (i # n /\ i \in 1 .. n - 1 /\ ~(n < i))
        BY <2>2
    <2>6. \A i \in 1 .. n - 1 : s[i] \in V /\ s[i] \in U /\ s[i] # b
        BY <2>4, Zenon
    <2>7. t \in [1..n -> U] /\ DOMAIN t = 1..n
        BY <2>5, <2>6, Zenon
    <2>8. /\ \A i, j \in 1..n : i # j => t[i] # t[j]
          /\ \A i, j \in 1..n : i < j => by_best_branch(t[j], t[i])
        <3>1. ~(n < n)
            BY <2>2
        <3>2. \A i \in 1..n : t[i] = IF i = n THEN b ELSE s[i]
            BY Zenon
        <3> HIDE DEF t
        <3>3. \A i, j \in 1..n : i # j => t[i] # t[j]
            BY <2>4, <2>5, <2>6, <3>2, Zenon
        <3>4. \A i, j \in 1..n : i < j => by_best_branch(t[j], t[i])
            BY <2>1, <2>4, <2>5, <2>6, <3>1, <3>2, Zenon
        <3>5. QED
            BY <3>3, <3>4, Zenon
    <2> HIDE DEF t
    <2>9. WorstFirst(U, t)
        BY <1>5, <2>7, <2>8, Zenon DEF WorstFirst, orders
    <2>10. QED
        BY <1>5, <2>9, Zenon
<1>8. QED
    BY <1>6, <1>7, Zenon

(* What close writes: every block once, the worst first.                   *)
LEMMA SavedOrder ==
    ASSUME NEW bs, BlocksOK(bs), NEW f, ForkDbOK(f, bs)
    PROVE  LET s == saved_order(f)
           IN  /\ s \in Seq(f.index) /\ Len(s) \in Nat
               /\ f.index = {s[i] : i \in 1..Len(s)}
               /\ \A i, j \in 1..Len(s) : i < j => by_best_branch(s[j], s[i])
<1> DEFINE s == saved_order(f)
           n == Cardinality(f.index)
<1>1. f.index \subseteq bs
    BY Fields, Zenon DEF ForkDbOK
<1>2. IsFiniteSet(f.index) /\ n \in Nat
    BY <1>1, FS_Subset, FS_CardinalityType, Zenon DEF BlocksOK
<1>3. \A b \in f.index : BlockId(b)
    BY <1>1, BlocksAreIds, Zenon
<1>4. WorstFirst(f.index, s)
    <2>1. \E t : WorstFirst(f.index, t)
        BY <1>2, <1>3, OrderExists, Zenon
    <2>2. QED
        BY <2>1, Zenon DEF WorstFirst, saved_order
<1> HIDE DEF s
<1>5. /\ s \in [1..n -> f.index] /\ DOMAIN s = 1..n
      /\ \A i, j \in 1..n : i # j => s[i] # s[j]
      /\ \A i, j \in 1..n : i < j => by_best_branch(s[j], s[i])
    BY <1>4, Zenon DEF WorstFirst, orders
<1>6. s \in Seq(f.index) /\ Len(s) = n
    <2> HIDE DEF n
    <2>1. QED
        BY <1>2, <1>5
<1>7. IsFiniteSet(1..n) /\ Cardinality(1..n) = n
    <2>1. 1 \in Int /\ n \in Int
        BY <1>2
    <2>2. IsFiniteSet(1..n) /\ Cardinality(1..n) = IF 1 > n THEN 0 ELSE (n - 1) + 1
        BY <2>1, FS_Interval, Zenon
    <2> HIDE DEF n
    <2>3. QED
        BY <1>2, <2>2
<1>8. s \in Surjection(1..n, f.index)
    <2>1. s \in Injection(1..n, f.index)
        BY <1>5, Zenon DEF Injection, IsInjective
    <2>2. QED
        BY <1>2, <1>7, <2>1, FS_Injection, Zenon
<1>9. f.index = {s[i] : i \in 1..n}
    <2>1. \A c \in f.index : \E i \in 1..n : s[i] = c
        BY <1>8, Zenon DEF Surjection
    <2>2. \A i \in 1..n : s[i] \in f.index
        BY <1>5, Zenon
    <2> HIDE DEF n
    <2>3. QED
        BY <2>1, <2>2, Zenon
<1>10. QED
    BY <1>2, <1>5, <1>6, <1>9, Zenon DEF s

-----------------------------------------------------------------------------
(* Closing and opening the database *)

(* A block is preferred to its ancestors: its timestamp is later, and it   *)
(* claims no older a block.                                                *)
LEMMA DescendantPreferred ==
    ASSUME NEW b, BlockId(b), NEW m \in 1 .. Len(b) - 1, BlockId(ancestor_at(b, m))
    PROVE  first_preferred(b, ancestor_at(b, m))
<1> DEFINE a == ancestor_at(b, m)
           L == Len(b)
           p == qc_claim(a).block_num
           q == qc_claim(b).block_num
<1>1. b \in Ids /\ L \in Nat /\ L >= 1
    BY Heights, Zenon DEF BlockId
<1>2. m \in 0..L /\ m \in 1..L /\ m < L /\ L \in 1..L /\ m \in 1..m /\ m \in Nat /\ m >= 1
    BY <1>1
<1>3. a \in Ids /\ Len(a) = m /\ \A i \in 1..m : a[i] = b[i]
    BY <1>1, <1>2, Ancestors, Zenon
<1>4. p \in 1..m /\ q \in 1..L
    BY <1>3, ClaimedBlock, Zenon
<1>5. p \in 1..L
    BY <1>2, <1>4
<1>6. p = b[m].claim.block_num /\ q = b[L].claim.block_num
    <2>1. qc_claim(a) = a[m].claim /\ qc_claim(b) = b[L].claim
        BY <1>1, <1>2, <1>3, LastHeader, Zenon
    <2>2. QED
        BY <1>2, <1>3, <2>1, Zenon
<1>7. b[m].timestamp < b[L].timestamp /\ p <= q
    BY <1>2, <1>6, Zenon DEF BlockId
<1>8. timestamp(b) = b[L].timestamp /\ timestamp(a) = b[m].timestamp
    <2>1. timestamp(b) = b[L].timestamp /\ timestamp(a) = a[m].timestamp
        BY <1>3, Times, Zenon
    <2>2. QED
        BY <1>2, <1>3, <2>1, Zenon
<1>9. latest_qc_block_timestamp(b) = b[q].timestamp /\ latest_qc_block_timestamp(a) = b[p].timestamp
    <2>1. latest_qc_block_timestamp(b) = b[q].timestamp /\ latest_qc_block_timestamp(a) = a[p].timestamp
        BY Times, Zenon
    <2>2. QED
        BY <1>3, <1>4, <2>1, Zenon
<1>10. p = q \/ (p < q /\ b[p].timestamp < b[q].timestamp)
    <2>1. p = q \/ p < q
        BY <1>4, <1>7
    <2>2. p < q => b[p].timestamp < b[q].timestamp
        BY <1>4, <1>5, Zenon DEF BlockId
    <2>3. QED
        BY <2>1, <2>2, Zenon
<1>11. /\ timestamp(b) \in Nat /\ timestamp(a) \in Nat
       /\ latest_qc_block_timestamp(b) \in Nat /\ latest_qc_block_timestamp(a) \in Nat
    BY Times, Zenon
<1>12. timestamp(b) > timestamp(a)
    <2>1. timestamp(a) < timestamp(b)
        BY <1>7, <1>8, Zenon
    <2> HIDE DEF a
    <2>2. QED
        BY <1>11, <2>1
<1>13. CASE p = q
    <2>1. latest_qc_block_timestamp(b) = latest_qc_block_timestamp(a)
        BY <1>9, <1>13, Zenon
    <2>2. QED
        BY <1>12, <2>1, Zenon DEF first_preferred
<1>14. CASE b[p].timestamp < b[q].timestamp
    <2>1. latest_qc_block_timestamp(a) < latest_qc_block_timestamp(b)
        BY <1>9, <1>14, Zenon
    <2>2. latest_qc_block_timestamp(b) > latest_qc_block_timestamp(a)
        <3> HIDE DEF a
        <3>1. QED
            BY <1>11, <2>1
    <2>3. QED
        BY <2>2, Zenon DEF first_preferred
<1>15. QED
    BY <1>10, <1>13, <1>14, Zenon

(* The blocks that open has read when it has read i of them.               *)
Read(s, i) == {s[k] : k \in 1..i}

(* The database that has been opened with them.                            *)
Partial(f, S) ==
    [root |-> f.root, pending_savanna_lib_id |-> f.pending_savanna_lib_id, index |-> S, valid |-> f.valid \cap S]

(* Ancestors are read before their descendants.                            *)
LEMMA AncestorsFirst ==
    ASSUME NEW bs, BlocksOK(bs), NEW f, ForkDbOK(f, bs),
           NEW s, f.index = {s[i] : i \in 1..Len(s)}, Len(s) \in Nat,
           \A i, j \in 1..Len(s) : i < j => by_best_branch(s[j], s[i]),
           NEW i \in 1..Len(s)
    PROVE  Above(previous(s[i]), Len(f.root)) \subseteq Read(s, i - 1)
<1> DEFINE b == s[i]
           R == Len(f.root)
<1>1. f \in Databases(bs) /\ TreeOK(f)
    BY Zenon DEF ForkDbOK
<1>2. b \in f.index /\ b \in bs
    <2>1. b \in f.index
        OBVIOUS
    <2>2. QED
        BY <1>1, <2>1, Fields, Zenon
<1>3. /\ b \in Ids /\ Len(b) \in Nat /\ R \in Nat /\ R < Len(b) /\ Above(b, R) \subseteq f.index
    BY <1>1, <1>2, OnRoot, Zenon DEF has_block
<1>4. previous(b) = ancestor_at(b, Len(b) - 1) /\ Len(b) - 1 \in 0..Len(b)
    BY <1>3, Parents
<1>5. previous(b) \in Ids /\ Len(previous(b)) = Len(b) - 1
    BY <1>3, <1>4, Ancestors, Zenon
<1>6. ASSUME NEW a \in Above(previous(b), R) PROVE a \in Read(s, i - 1)
    <2>1. a \in Ids /\ Len(a) > R /\ Len(a) <= Len(b) - 1 /\ ancestor_at(previous(b), Len(a)) = a
        BY <1>3, <1>5, AboveFacts, Zenon
    <2>2. Len(a) \in 0 .. Len(b) - 1 /\ Len(a) \in 1 .. Len(b) - 1 /\ Len(a) <= Len(b)
        BY <1>3, <2>1, Heights
    <2>3. ancestor_at(b, Len(a)) = a
        BY <1>3, <1>4, <2>1, <2>2, AncestorOfAncestor, Zenon
    <2>4. a \in f.index
        BY <1>3, <2>1, <2>2, <2>3, AboveFacts, Zenon
    <2>5. PICK k \in 1..Len(s) : s[k] = a
        BY <2>4, Zenon
    <2>6. BlockId(a) /\ BlockId(b)
        BY <1>1, <1>2, <2>4, Fields, BlocksAreIds, Zenon
    <2>7. ~by_best_branch(a, b)
        BY <2>2, <2>3, <2>6, DescendantPreferred, BestOrdered, ZenonT(30)
    <2>8. k # i
        <3>1. Len(a) # Len(b)
            BY <1>3, <2>2
        <3>2. QED
            BY <2>5, <3>1, Zenon
    <2>9. ~(i < k)
        BY <2>5, <2>7, Zenon
    <2>10. k \in 1 .. i - 1
        BY <2>8, <2>9
    <2>11. QED
        BY <2>5, <2>10, Zenon DEF Read
<1>7. QED
    BY <1>6, Zenon

(* What has been read is a tree, on which the next block links.            *)
LEMMA ReadTree ==
    ASSUME NEW bs, BlocksOK(bs), NEW f, ForkDbOK(f, bs),
           NEW s, f.index = {s[i] : i \in 1..Len(s)}, Len(s) \in Nat,
           \A i, j \in 1..Len(s) : i < j => by_best_branch(s[j], s[i]),
           NEW i \in 1..Len(s), NEW g, g = Partial(f, Read(s, i - 1))
    PROVE  g \in Databases(bs) /\ TreeOK(g) /\ has_block(g, previous(s[i]))
<1>1. f \in Databases(bs) /\ TreeOK(f)
    BY Zenon DEF ForkDbOK
<1>2. Read(s, i - 1) \subseteq f.index
    <2>1. \A k \in 1 .. i - 1 : k \in 1..Len(s)
        OBVIOUS
    <2>2. QED
        BY <2>1, Zenon DEF Read
<1>3. /\ g.root = f.root /\ g.index = Read(s, i - 1)
      /\ g = [root |-> f.root, pending_savanna_lib_id |-> f.pending_savanna_lib_id,
              index |-> Read(s, i - 1), valid |-> f.valid \cap Read(s, i - 1)]
    BY DEF Partial
<1>4. g \in Databases(bs)
    <2>1. /\ f.root \in bs /\ f.pending_savanna_lib_id \in bs \cup {nullid}
          /\ Read(s, i - 1) \in SUBSET bs /\ f.valid \cap Read(s, i - 1) \in SUBSET bs
        BY <1>1, <1>2, Fields, Zenon
    <2>2. QED
        BY <1>3, <2>1 DEF Databases
<1>5. ASSUME NEW k \in 1..Len(s)
      PROVE  /\ s[k] \in Ids /\ Len(s[k]) \in Nat /\ Len(f.root) \in Nat /\ Len(f.root) < Len(s[k])
             /\ Above(s[k], Len(f.root)) = Above(previous(s[k]), Len(f.root)) \cup {s[k]}
             /\ Len(previous(s[k])) = Len(s[k]) - 1
             /\ has_block(f, previous(s[k]))
    <2> DEFINE b == s[k]
               n == Len(b) - 1
    <2>1. has_block(f, b) /\ b \in f.index
        BY Zenon DEF has_block
    <2>2. b \in Ids /\ Len(b) \in Nat /\ Len(f.root) \in Nat /\ Len(f.root) < Len(b)
        BY <1>1, <2>1, OnRoot, Zenon
    <2>3. /\ previous(b) = ancestor_at(b, n) /\ n \in 0..Len(b) /\ n + 1 = Len(b) /\ n \in Nat /\ n < Len(b)
          /\ Len(f.root) \in 0..n /\ Len(f.root) <= n
        BY <2>2, Parents
    <2>4. Len(previous(b)) = n /\ ancestor_at(b, Len(b)) = b
        <3> HIDE DEF n
        <3>1. QED
            BY <2>2, <2>3, Ancestors, OwnAncestor, ZenonT(30)
    <2>5. has_block(f, previous(b))
        <3> HIDE DEF n, b
        <3>1. has_block(f, ancestor_at(b, n)) <=> Len(f.root) <= n
            BY <1>1, <2>1, <2>3, BranchHas
        <3>2. QED
            BY <2>3, <3>1, Zenon
    <2>6. Above(b, Len(f.root)) = Above(previous(b), Len(f.root)) \cup {b}
        <3> HIDE DEF n
        <3>1. \A m \in 0..n : Above(ancestor_at(b, n + 1), m) = Above(ancestor_at(b, n), m) \cup {ancestor_at(b, n + 1)}
            BY <2>2, <2>3, NextAbove
        <3>2. QED
            BY <2>3, <2>4, <3>1, Zenon
    <2>7. QED
        BY <2>2, <2>4, <2>5, <2>6, Zenon
<1>6. ASSUME NEW k \in 1 .. i - 1 PROVE Above(s[k], Len(f.root)) \subseteq Read(s, i - 1)
    <2>1. k \in 1..Len(s) /\ \A j \in 1 .. k - 1 : j \in 1 .. i - 1
        OBVIOUS
    <2>2. Above(previous(s[k]), Len(f.root)) \subseteq Read(s, k - 1)
        BY <2>1, AncestorsFirst, Zenon
    <2>3. Read(s, k - 1) \subseteq Read(s, i - 1) /\ s[k] \in Read(s, i - 1)
        BY <2>1, Zenon DEF Read
    <2>4. QED
        BY <1>5, <2>1, <2>2, <2>3, Zenon
<1>7. TreeOK(g)
    <2>1. ASSUME NEW b \in Read(s, i - 1)
          PROVE  Above(b, Len(f.root)) \subseteq Read(s, i - 1)
        BY <1>6, Zenon DEF Read
    <2>2. QED
        BY <1>1, <1>2, <1>3, <2>1, Zenon DEF TreeOK
<1>8. has_block(g, previous(s[i]))
    <2> DEFINE p == previous(s[i])
    <2>1. CASE p = f.root
        BY <1>3, <2>1, Zenon DEF has_block
    <2>2. CASE p # f.root
        <3>1. p \in f.index
            BY <1>5, <2>2, Zenon DEF has_block
        <3>2. p \in Ids /\ Len(p) \in Nat /\ Len(f.root) < Len(p) /\ Len(f.root) \in Nat
            BY <1>1, <3>1, OnRoot, Zenon DEF has_block
        <3>3. Len(p) > Len(f.root) /\ Len(p) <= Len(p)
            BY <3>2
        <3>4. p \in Above(p, Len(f.root))
            BY <3>2, <3>3, OwnAncestor, AboveFacts, Zenon
        <3>5. p \in Read(s, i - 1)
            BY <3>4, AncestorsFirst, Zenon
        <3>6. QED
            BY <1>3, <3>5, Zenon DEF has_block
    <2>3. QED
        BY <2>1, <2>2, Zenon
<1>9. QED
    BY <1>4, <1>7, <1>8, Zenon

(* Reading one more block adds it, and nothing else.                       *)
LEMMA ReadOne ==
    ASSUME NEW bs, BlocksOK(bs), NEW f, ForkDbOK(f, bs), NEW S, S \subseteq f.index, NEW b \in f.index,
           NEW g, g = Partial(f, S), g \in Databases(bs), TreeOK(g), has_block(g, previous(b)),
           NEW h, h = add(g, b)
    PROVE  (IF b \in f.valid /\ b \in h.index THEN set_valid(h, b) ELSE h) = Partial(f, S \cup {b})
<1>1. f \in Databases(bs) /\ PendingOK(f, bs)
    BY Zenon DEF ForkDbOK
<1>2. b \in bs
    BY <1>1, Fields, Zenon
<1>3. /\ g.root = f.root /\ g.index = S /\ g.valid = f.valid \cap S
      /\ g.pending_savanna_lib_id = f.pending_savanna_lib_id
    BY ZenonT(30) DEF Partial
<1>4. CarriedOK(g, b, with_carried_qc(g, b))
    BY <1>2, CarriedQC
<1>5. qc_claim(b).is_strong_qc /\ latest_qc_block(b) \in g.index
          => Len(latest_qc_block(latest_qc_block(b))) <= Len(g.pending_savanna_lib_id)
    BY <1>1, <1>3, Zenon DEF PendingOK
<1>6. with_carried_qc(g, b) = g
    BY <1>4, <1>5, Zenon DEF CarriedOK
<1>7. h = [g EXCEPT !.index = @ \cup {b}]
    BY <1>6, Zenon DEF add
<1>8. h = [root |-> f.root, pending_savanna_lib_id |-> f.pending_savanna_lib_id,
           index |-> S \cup {b}, valid |-> f.valid \cap S]
    BY <1>7, ZenonT(30) DEF Partial
<1>9. h \in Databases(bs) /\ b \in h.index
    <2>1. /\ f.root \in bs /\ f.pending_savanna_lib_id \in bs \cup {nullid}
          /\ S \cup {b} \in SUBSET bs /\ f.valid \cap S \in SUBSET bs
        BY <1>1, <1>2, Fields, Zenon
    <2>2. QED
        BY <1>8, <2>1 DEF Databases
<1>10. CASE b \in f.valid
    <2>1. set_valid(h, b) = [root |-> h.root, pending_savanna_lib_id |-> h.pending_savanna_lib_id,
                             index |-> h.index, valid |-> h.valid \cup {b}]
        BY <1>9, ValidSet, Zenon
    <2>2. /\ h.root = f.root /\ h.pending_savanna_lib_id = f.pending_savanna_lib_id
          /\ h.index = S \cup {b} /\ h.valid = f.valid \cap S
        BY <1>8, SMTT(20)
    <2>3. h.valid \cup {b} = f.valid \cap (S \cup {b})
        BY <1>10, <2>2
    <2>4. QED
        BY <1>9, <1>10, <2>1, <2>2, <2>3, Zenon DEF Partial
<1>11. CASE b \notin f.valid
    <2>1. f.valid \cap S = f.valid \cap (S \cup {b})
        BY <1>11
    <2>2. QED
        BY <1>8, <1>11, <2>1, Zenon DEF Partial
<1>12. QED
    BY <1>10, <1>11, Zenon

(* The database is opened empty, with its pending LIB.                     *)
LEMMA OpenedEmpty ==
    ASSUME NEW bs, BlocksOK(bs), NEW f, ForkDbOK(f, bs)
    PROVE  opened(f) = Partial(f, {}) /\ Partial(f, f.index) = f
<1>1. f \in Databases(bs) /\ f.valid \subseteq f.index
    BY Zenon DEF ForkDbOK, ValidOK
<1> DEFINE e == reset_root(f.root)
           p == f.pending_savanna_lib_id
<1>2. /\ e.pending_savanna_lib_id = nullid /\ Len(nullid) = 0
      /\ e = [root |-> f.root, pending_savanna_lib_id |-> nullid, index |-> {}, valid |-> {}]
    BY DEF reset_root, nullid
<1>3. p = nullid \/ Len(p) > 0
    <2>1. p \in bs => Len(p) \in Nat /\ Len(p) >= 1
        BY BlocksAreIds, Zenon
    <2>2. p \in bs => Len(p) > 0
        BY <2>1
    <2>3. QED
        BY <1>1, <2>2, Fields, Zenon
<1>4. Partial(f, {}) = [root |-> f.root, pending_savanna_lib_id |-> p, index |-> {}, valid |-> {}]
    <2>1. f.valid \cap {} = {}
        BY Zenon
    <2>2. QED
        BY <2>1, Zenon DEF Partial
<1>5. opened(f) = Partial(f, {})
    <2>1. CASE Len(p) > 0
        <3>1. opened(f) = [e EXCEPT !.pending_savanna_lib_id = p]
            BY <1>2, <2>1, Zenon DEF opened, set_pending_savanna_lib_id, num_from_id
        <3>4. f.root \in bs
            BY <1>1, Fields, Zenon
        <3> HIDE DEF e, p
        <3>5. e \in Databases(bs) /\ e.root = f.root /\ e.index = {} /\ e.valid = {}
            BY <1>2, <3>4 DEF Databases
        <3>2. [e EXCEPT !.pending_savanna_lib_id = p]
                  = [root |-> f.root, pending_savanna_lib_id |-> p, index |-> {}, valid |-> {}]
            BY <3>5, PendingSet, Zenon
        <3>3. QED
            BY <1>4, <3>1, <3>2, Zenon
    <2>2. CASE p = nullid
        <3>1. ~(Len(p) > Len(e.pending_savanna_lib_id))
            BY <1>2, <2>2
        <3>2. opened(f) = e
            BY <3>1, Zenon DEF opened, set_pending_savanna_lib_id, num_from_id
        <3>3. QED
            BY <1>2, <1>4, <2>2, <3>2, Zenon
    <2>3. QED
        BY <1>3, <2>1, <2>2, Zenon
<1>6. Partial(f, f.index) = f
    <2>1. f.valid \cap f.index = f.valid
        BY <1>1
    <2>2. QED
        BY <1>1, <2>1, FieldsOf, Zenon DEF Partial
<1>7. QED
    BY <1>5, <1>6, Zenon

(* Closing and opening the database gives it back.                         *)
LEMMA Reopened ==
    ASSUME NEW bs, BlocksOK(bs), NEW f, ForkDbOK(f, bs)
    PROVE  reopened(f) = f
<1> DEFINE s == saved_order(f)
           N == Len(s)
           flagged(g, n) == IF n \in f.valid /\ n \in g.index THEN set_valid(g, n) ELSE g
           load(acc, n) ==
               IF acc.threw THEN acc
               ELSE [f |-> flagged(add(acc.f, n), n), threw |-> ~has_block(acc.f, previous(n))]
           Fits(F) == F = [i \in 0..N |-> IF i = 0 THEN [f |-> opened(f), threw |-> FALSE] ELSE load(F[i - 1], s[i])]
           loaded == CHOOSE F : Fits(F)
           so_far(i) == [f |-> Partial(f, Read(s, i)), threw |-> FALSE]
           e == [i \in 0..N |-> so_far(i)]
<1>1. /\ s \in Seq(f.index) /\ N \in Nat
      /\ f.index = {s[i] : i \in 1..N}
      /\ \A i, j \in 1..N : i < j => by_best_branch(s[j], s[i])
    BY SavedOrder
<1> HIDE DEF s
<1>2. ASSUME NEW i \in 1..N PROVE load(so_far(i - 1), s[i]) = so_far(i)
    <2> DEFINE S == Read(s, i - 1)
               g == Partial(f, S)
               h == add(g, s[i])
    <2>1. g \in Databases(bs) /\ TreeOK(g) /\ has_block(g, previous(s[i]))
        BY <1>1, ReadTree, ZenonT(30)
    <2>2. S \subseteq f.index /\ s[i] \in f.index
        <3>1. \A k \in 1 .. i - 1 : k \in 1..N
            BY <1>1
        <3>2. S \subseteq f.index
            BY <1>1, <3>1, Zenon DEF Read
        <3>3. QED
            BY <1>1, <3>2
    <2>3. S \cup {s[i]} = Read(s, i)
        <3>1. 1..i = (1 .. i - 1) \cup {i}
            BY <1>1, SMTT(20)
        <3>2. QED
            BY <3>1, Zenon DEF Read
    <2>4. flagged(h, s[i]) = Partial(f, S \cup {s[i]})
        <3> HIDE DEF g, h, S
        <3>1. g = Partial(f, S) /\ h = add(g, s[i])
            BY Zenon DEF g, h
        <3>2. QED
            BY <2>1, <2>2, <3>1, ReadOne, SMTT(20)
    <2>5. so_far(i - 1).f = g /\ so_far(i - 1).threw = FALSE
        OBVIOUS
    <2> HIDE DEF flagged, g, S
    <2>6. QED
        BY <2>1, <2>3, <2>4, <2>5, Zenon
<1>3. so_far(0) = [f |-> opened(f), threw |-> FALSE]
    <2>1. Read(s, 0) = {}
        <3>1. 1..0 = {}
            OBVIOUS
        <3>2. QED
            BY <3>1, Zenon DEF Read
    <2>2. QED
        BY <2>1, OpenedEmpty, Zenon
<1> HIDE DEF load, so_far
<1>4. Fits(e)
    <2>1. ASSUME NEW i \in 0..N
          PROVE  so_far(i) = IF i = 0 THEN [f |-> opened(f), threw |-> FALSE] ELSE load(e[i - 1], s[i])
        <3>1. CASE i = 0
            BY <1>3, <3>1, Zenon
        <3>2. CASE i # 0
            <4>1. i \in 1..N /\ i - 1 \in 0..N
                BY <1>1, <3>2
            <4>2. e[i - 1] = so_far(i - 1)
                BY <4>1, Zenon
            <4>3. QED
                BY <1>2, <3>2, <4>1, <4>2, Zenon
        <3>3. QED
            BY <3>1, <3>2, Zenon
    <2> DEFINE G(i) == IF i = 0 THEN [f |-> opened(f), threw |-> FALSE] ELSE load(e[i - 1], s[i])
    <2>2. \A i \in 0..N : so_far(i) = G(i)
        BY <2>1, Zenon
    <2> HIDE DEF G
    <2>3. [i \in 0..N |-> so_far(i)] = [i \in 0..N |-> G(i)]
        BY <2>2, Zenon
    <2>4. QED
        BY <2>3, Zenon DEF G
<1>5. Fits(loaded)
    <2> HIDE DEF Fits, e
    <2>1. \E F : Fits(F)
        BY <1>4, Zenon
    <2>2. QED
        BY <2>1, Zenon
<1> HIDE DEF loaded
<1>6. ASSUME NEW i \in 0..N
      PROVE  loaded[i] = IF i = 0 THEN [f |-> opened(f), threw |-> FALSE] ELSE load(loaded[i - 1], s[i])
    BY <1>5, Zenon
<1> HIDE DEF Fits, e
<1>7. loaded[N] = so_far(N)
    <2> DEFINE T == {i \in 0..N : loaded[i] # so_far(i)}
    <2>1. SUFFICES ASSUME T # {} PROVE FALSE
        <3>1. N \in 0..N
            BY <1>1
        <3>2. QED
            BY <3>1, Zenon
    <2>2. T \subseteq Nat
        BY <1>1
    <2>3. PICK i \in T : \A j \in T : ~(j < i)
        <3> HIDE DEF T
        <3>1. QED
            BY <2>1, <2>2, LeastNat, Zenon
    <2>4. i \in 0..N /\ loaded[i] # so_far(i)
        BY <2>3, Zenon
    <2>5. i # 0
        BY <1>3, <1>6, <2>4, Zenon
    <2>6. i \in 1..N /\ i - 1 \in 0..N /\ i - 1 < i
        BY <1>1, <2>4, <2>5
    <2>7. loaded[i - 1] = so_far(i - 1)
        BY <2>3, <2>6, Zenon
    <2>8. loaded[i] = load(loaded[i - 1], s[i])
        BY <1>6, <2>4, <2>5, Zenon
    <2>9. QED
        BY <1>2, <2>4, <2>6, <2>7, <2>8, Zenon
<1>8. reopened(f) = loaded[N].f
    BY Zenon DEF reopened, loaded, Fits, load, s
<1>9. so_far(N).f = Partial(f, Read(s, N))
    BY DEF so_far
<1>10. Read(s, N) = f.index
    BY <1>1, Zenon DEF Read
<1>11. QED
    BY <1>7, <1>8, <1>9, <1>10, OpenedEmpty, Zenon

-----------------------------------------------------------------------------
(* The actions *)

(* A database with nothing but its root.                                   *)
LEMMA ResetOK ==
    ASSUME NEW bs, BlocksOK(bs), NEW r \in bs
    PROVE  /\ ForkDbOK(reset_root(r), bs) /\ HeadOK(reset_root(r), r) /\ reset_root(r).root = r
<1> DEFINE f == reset_root(r)
<1>1. /\ f.root = r /\ f.pending_savanna_lib_id = nullid /\ f.index = {} /\ f.valid = {}
      /\ f = [root |-> r, pending_savanna_lib_id |-> nullid, index |-> {}, valid |-> {}]
    BY DEF reset_root
<1>2. r \in Ids /\ Len(r) \in Nat
    BY BlocksAreIds, Zenon
<1> HIDE DEF f
<1>3. f \in Databases(bs)
    BY <1>1 DEF Databases
<1>4. TreeOK(f) /\ ValidOK(f) /\ PendingOK(f, bs)
    BY <1>1, <1>2, Zenon DEF TreeOK, ValidOK, PendingOK
<1>5. Above(r, Len(r)) = {}
    <2>1. Len(r) \in 0..Len(r)
        BY <1>2
    <2>2. QED
        BY <1>2, <2>1, AboveCard, Zenon
<1>6. HeadOK(f, r)
    BY <1>1, <1>5, Zenon DEF HeadOK, has_block
<1>7. QED
    BY <1>1, <1>3, <1>4, <1>6, Zenon DEF ForkDbOK, f

(* The network begins with the genesis block.                              *)
LEMMA GenesisOK == BlocksOK({genesis})
<1> DEFINE g == genesis
           h == [timestamp |-> 0, claim |-> [block_num |-> 1, is_strong_qc |-> FALSE], executable |-> TRUE]
<1>1. g = << h >> /\ h \in Headers
    BY DEF genesis, Headers
<1> HIDE DEF h
<1>2. g \in Ids /\ Len(g) = 1 /\ g[1] = h
    <2> HIDE DEF g
    <2>1. QED
        BY <1>1 DEF Ids
<1>3. h.claim.block_num = 1 /\ h.claim.is_strong_qc = FALSE /\ h.executable = TRUE
    BY DEF h
<1> HIDE DEF g
<1>4. BlockId(g)
    BY <1>2, <1>3 DEF BlockId
<1>5. ancestor_at(g, 1) = g
    BY <1>2, OwnAncestor, ZenonT(30)
<1>6. qc_claim(g) = h.claim
    <2>1. Len(g) >= 1
        BY <1>2
    <2>2. QED
        BY <1>2, <2>1, LastHeader, Zenon
<1>7. latest_qc_block(g) = g
    BY <1>3, <1>5, <1>6, Zenon DEF latest_qc_block
<1>8. Finalized({g}) = {} /\ Certified({g}) = {g}
    BY <1>3, <1>6, <1>7, Zenon DEF Finalized, Certified
<1>9. executable(g)
    BY <1>2, <1>3 DEF executable
<1>10. Guaranteed({g})
    <2>1. qc_claim(g).block_num = 1
        BY <1>3, <1>6, Zenon
    <2>2. ASSUME NEW k \in 1..qc_claim(g).block_num PROVE executable(ancestor_at(g, k))
        <3>1. k = 1
            BY <2>1
        <3>2. QED
            BY <1>5, <1>9, <3>1, Zenon
    <2>3. QED
        BY <1>8, <2>2, Zenon DEF Guaranteed
<1>11. \A n \in 1..Len(g) : ancestor_at(g, n) \in {g}
    BY <1>2, <1>5
<1>12. IsFiniteSet({g})
    BY FS_Singleton, Zenon
<1>13. QED
    BY <1>4, <1>10, <1>11, <1>12, Zenon DEF BlocksOK, g

(* A block that is made on a block of the database joins it.               *)
LEMMA Joined ==
    ASSUME DataOK(fork_db, chain_head, blog_head, blocks), NEW parent, has_block(fork_db, parent),
           NEW n \in Children(parent), Made(n), NEW g, g = add(fork_db, n)
    PROVE  /\ DataOK(g, chain_head, blog_head, blocks')
           /\ n \in g.index /\ previous(n) = parent
           /\ g.root = fork_db.root /\ fork_db.index \subseteq g.index /\ blocks \subseteq blocks'
<1> DEFINE f == fork_db
<1>1. BlocksOK(blocks) /\ ForkDbOK(f, blocks) /\ HeadOK(f, chain_head) /\ blog_head = f.root /\ RootFinal(f, blocks)
    BY Zenon DEF DataOK
<1>2. f \in Databases(blocks)
    BY <1>1, Zenon DEF ForkDbOK
<1>3. parent \in blocks
    BY <1>2, Fields, Zenon DEF has_block
<1>4. BlocksOK(blocks') /\ n \in blocks' /\ blocks \subseteq blocks' /\ previous(n) = parent
    BY <1>1, <1>3, NewBlock, Zenon
<1>5. ForkDbOK(f, blocks') /\ RootFinal(f, blocks')
    BY <1>1, <1>4, MoreFinal, Zenon
<1>6. ForkDbOK(g, blocks') /\ g.root = f.root /\ g.index = f.index \cup {n} /\ g.valid = f.valid
    BY <1>4, <1>5, Added
<1>7. HeadOK(g, chain_head) /\ RootFinal(g, blocks')
    BY <1>1, <1>5, <1>6, Zenon DEF HeadOK, has_block, RootFinal
<1>8. QED
    BY <1>1, <1>4, <1>6, <1>7, Zenon DEF DataOK

(* What a step that logs irreversible blocks keeps.                        *)
KeptAbove(f, id, g) ==
    /\ g.root \in Ids /\ Len(f.root) <= Len(g.root) /\ IsPrefix(g.root, id)
    /\ \A x : has_block(f, x) /\ IsPrefix(g.root, x) => has_block(g, x)

(* commit_block of the next block.                                         *)
LEMMA Commits ==
    ASSUME NEW f, NEW id, NEW bs, DataOK(f, id, blog_head, bs),
           NEW b \in f.index, previous(b) = id, LogIrreversible(set_valid(f, b), b)
    PROVE  DataOK(fork_db', b, blog_head', bs) /\ KeptAbove(f, b, fork_db')
<1> DEFINE v == set_valid(f, b)
           g == fork_db'
<1>1. BlocksOK(bs) /\ ForkDbOK(f, bs) /\ HeadOK(f, id) /\ blog_head = f.root /\ RootFinal(f, bs)
    BY Zenon DEF DataOK
<1>2. g = rooted(v, marked(v, b)) /\ Written(marked(v, b))
    BY Zenon DEF LogIrreversible
<1> HIDE DEF g
<1>3. ForkDbOK(v, bs) /\ v.root = f.root /\ v.index = f.index /\ HeadOK(v, b)
    BY <1>1, Validated
<1> HIDE DEF v
<1>4. has_block(v, b) /\ blog_head = v.root /\ RootFinal(v, bs)
    BY <1>1, <1>3, Zenon DEF HeadOK, RootFinal
<1>5. LogStep(v, b, g) /\ blog_head' = g.root
    BY <1>1, <1>2, <1>3, <1>4, LoggedAll, ZenonT(30)
<1>6. /\ ForkDbOK(g, bs) /\ RootFinal(g, bs) /\ HeadOK(g, b)
      /\ g.root \in Ids /\ Len(v.root) <= Len(g.root) /\ IsPrefix(g.root, b)
      /\ \A x : has_block(v, x) /\ IsPrefix(g.root, x) => has_block(g, x)
    BY <1>1, <1>3, <1>4, <1>5, LogKeeps, Zenon
<1>7. \A x : has_block(f, x) => has_block(v, x)
    BY <1>3, Zenon DEF has_block
<1>8. DataOK(g, b, blog_head', bs)
    BY <1>1, <1>5, <1>6, Zenon DEF DataOK
<1>9. KeptAbove(f, b, g)
    BY <1>3, <1>6, <1>7, Zenon DEF KeptAbove
<1>10. QED
    BY <1>8, <1>9, Zenon DEF g

(* commit_block of the next block when a write fails: the head stays.      *)
LEMMA WriteFails ==
    ASSUME NEW f, NEW id, NEW bs, DataOK(f, id, blog_head, bs),
           NEW b \in f.index, previous(b) = id,
           NEW v, v = set_valid(f, b),
           NEW W \in written_before_failure(marked(v, b)), Written(W), NEW g, g = rooted(v, W)
    PROVE  DataOK(g, id, blog_head', bs) /\ KeptAbove(f, id, g)
<1>1. BlocksOK(bs) /\ ForkDbOK(f, bs) /\ HeadOK(f, id) /\ blog_head = f.root /\ RootFinal(f, bs)
    BY Zenon DEF DataOK
<1>2. ForkDbOK(v, bs) /\ v.root = f.root /\ v.index = f.index /\ HeadOK(v, b) /\ HeadOK(v, id)
    BY <1>1, Validated
<1>3. has_block(v, b) /\ blog_head = v.root /\ RootFinal(v, bs) /\ b \in v.index
    BY <1>1, <1>2, Zenon DEF HeadOK, RootFinal
<1>4. LogStep(v, id, g) /\ blog_head' = g.root
    BY <1>1, <1>2, <1>3, LoggedSome, ZenonT(30)
<1>5. /\ ForkDbOK(g, bs) /\ RootFinal(g, bs) /\ HeadOK(g, id)
      /\ g.root \in Ids /\ Len(v.root) <= Len(g.root) /\ IsPrefix(g.root, id)
      /\ \A x : has_block(v, x) /\ IsPrefix(g.root, x) => has_block(g, x)
    BY <1>1, <1>2, <1>3, <1>4, LogKeeps, Zenon
<1>6. \A x : has_block(f, x) => has_block(v, x)
    BY <1>2, Zenon DEF has_block
<1>7. QED
    BY <1>1, <1>2, <1>4, <1>5, <1>6, Zenon DEF DataOK, KeptAbove

(* The next block of a branch on the head.                                 *)
LEMMA NextToApply ==
    ASSUME NEW f, TreeOK(f), NEW id, has_block(f, id), NEW new \in f.index, IsPrefix(id, new),
           NEW todo, todo = Above(new, Len(id)), todo # {}, NEW b, b = lowest(todo)
    PROVE  /\ b \in f.index /\ b \in Ids /\ id \in Ids /\ new \in Ids
           /\ Len(id) \in Nat /\ Len(b) = Len(id) + 1 /\ Len(id) < Len(new)
           /\ previous(b) = id
           /\ b = ancestor_at(new, Len(b)) /\ IsPrefix(b, new)
           /\ todo \ {b} = Above(new, Len(b))
           /\ \A m \in 0..Len(id) : Above(b, m) = Above(id, m) \cup {b} /\ ancestor_at(b, m) = ancestor_at(id, m)
           /\ todo \subseteq f.index
<1> DEFINE L == Len(id)
           R == Len(f.root)
<1>1. id \in Ids /\ L \in Nat /\ R \in Nat /\ R \in 0..L
    BY OnRoot, Zenon
<1>2. new \in Ids /\ Len(new) \in Nat /\ Above(new, R) \subseteq f.index
    BY OnRoot, Zenon DEF has_block
<1>3. L <= Len(new) /\ ancestor_at(new, L) = id
    BY <1>1, <1>2, PrefixIs, Zenon
<1>4. L \in 0..Len(new) /\ R <= L
    BY <1>1, <1>2, <1>3, SMTT(20)
<1>5. L < Len(new)
    <2>1. L # Len(new)
        BY <1>2, <1>4, AboveCard, Zenon
    <2>2. QED
        BY <1>1, <1>2, <1>3, <2>1, SMTT(20)
<1>6. L + 1 \in 0..Len(new) /\ L \in 0..L + 1 /\ L + 1 <= Len(new)
    BY <1>1, <1>2, <1>5, SMTT(20)
<1> HIDE DEF L
<1> DEFINE c == ancestor_at(new, L + 1)
<1>7. /\ lowest(Above(new, L)) = c /\ c \in Above(new, L)
      /\ c \in Ids /\ Len(c) = L + 1 /\ previous(c) = ancestor_at(new, L)
      /\ Above(new, L) \ {c} = Above(new, L + 1)
      /\ \A m \in 0..L : Above(c, m) = Above(ancestor_at(new, L), m) \cup {c}
    BY <1>1, <1>2, <1>5, NextAbove, ZenonT(30)
<1> HIDE DEF c
<1>8. b = c /\ todo = Above(new, L)
    BY <1>7, Zenon DEF L
<1>9. todo \subseteq f.index
    BY <1>1, <1>2, <1>4, <1>8, AboveMore, Zenon
<1>10. c = ancestor_at(new, Len(c)) /\ IsPrefix(c, new)
    <2>1. c = ancestor_at(new, Len(c))
        BY <1>7, Zenon DEF c
    <2>2. Len(c) <= Len(new)
        BY <1>6, <1>7, Zenon
    <2>3. QED
        BY <1>2, <1>7, <2>1, <2>2, PrefixIs, Zenon
<1>11. ASSUME NEW m \in 0..L PROVE ancestor_at(c, m) = ancestor_at(id, m)
    <2>1. m \in 0..L + 1
        BY <1>1
    <2>2. ancestor_at(c, m) = ancestor_at(new, m)
        BY <1>2, <1>6, <2>1, AncestorOfAncestor, Zenon DEF c
    <2>3. ancestor_at(id, m) = ancestor_at(new, m)
        BY <1>2, <1>3, <1>4, AncestorOfAncestor, Zenon
    <2>4. QED
        BY <2>2, <2>3, Zenon
<1>12. b \in f.index /\ previous(b) = id /\ todo \ {b} = Above(new, Len(b))
    BY <1>3, <1>7, <1>8, <1>9, Zenon
<1>13. QED
    BY <1>1, <1>2, <1>3, <1>5, <1>7, <1>8, <1>9, <1>10, <1>11, <1>12, Zenon DEF L

(* A block on the new head that was in the database is still there after a *)
(* commit: the new root is on its branch.                                  *)
LEMMA StaysAbove ==
    ASSUME NEW f, NEW g, TreeOK(g), NEW b \in Ids, KeptAbove(f, b, g), NEW x \in Ids, has_block(f, x),
           NEW n \in 0..Len(b), n <= Len(x), ancestor_at(x, n) = ancestor_at(b, n), Len(g.root) <= n
    PROVE  has_block(g, x) /\ (n < Len(x) => x \in g.index)
<1> DEFINE r == g.root
<1>1. r \in Ids /\ IsPrefix(r, b) /\ Len(r) \in Nat /\ Len(b) \in Nat /\ Len(x) \in Nat
    BY Heights, Zenon DEF KeptAbove
<1>2. ancestor_at(b, Len(r)) = r
    BY <1>1, PrefixIs, Zenon
<1>3. Len(r) \in 0..n /\ Len(r) <= Len(x) /\ n \in 0..Len(x) /\ n <= Len(b)
    BY <1>1
<1>4. ancestor_at(x, Len(r)) = ancestor_at(b, Len(r))
    BY <1>3, AgreeBelow, Zenon
<1>5. IsPrefix(r, x)
    BY <1>1, <1>2, <1>3, <1>4, PrefixIs, Zenon
<1>6. has_block(g, x)
    BY <1>5, Zenon DEF KeptAbove
<1>7. n < Len(x) => Len(r) < Len(x)
    BY <1>1
<1>8. QED
    BY <1>6, <1>7, OnRoot, Zenon

(* The switch goes on with the next block.                                 *)
LEMMA ApplyGoesOn ==
    ASSUME NEW bs, BlocksOK(bs), NEW f, TreeOK(f), NEW id, has_block(f, id),
           NEW old \in bs, NEW n \in 0..Len(old), NEW ob, NEW ap, Switching(f, id, ob, ap, old, n),
           NEW new \in bs, NEW nb, nb # {}, Applying(f, id, nb, old, n, new),
           NEW b, b = lowest(nb), NEW g, TreeOK(g), KeptAbove(f, b, g)
    PROVE  ApplyStage(g, b, bs, nb \ {b}, ap \cup {b}, ob)
<1>1. /\ n <= Len(id) /\ ancestor_at(old, n) = ancestor_at(id, n) /\ ob = Above(old, n) /\ ap = Above(id, n)
      /\ Len(f.root) <= n => has_block(f, old)
    BY Zenon DEF Switching
<1>2. /\ new \in f.index /\ IsPrefix(id, new) /\ nb = Above(new, Len(id))
      /\ n < Len(old) /\ n < Len(new) => ancestor_at(old, n + 1) # ancestor_at(new, n + 1)
    BY Zenon DEF Applying
<1>3. /\ b \in f.index /\ b \in Ids /\ id \in Ids /\ new \in Ids
      /\ Len(id) \in Nat /\ Len(b) = Len(id) + 1 /\ Len(id) < Len(new)
      /\ b = ancestor_at(new, Len(b)) /\ IsPrefix(b, new)
      /\ nb \ {b} = Above(new, Len(b))
      /\ \A m \in 0..Len(id) : Above(b, m) = Above(id, m) \cup {b} /\ ancestor_at(b, m) = ancestor_at(id, m)
    BY <1>2, NextToApply
<1>4. old \in Ids /\ Len(old) \in Nat
    BY BlocksAreIds, Zenon
<1>5. n \in Nat /\ n \in 0..Len(id) /\ n <= Len(b) /\ n <= Len(old) /\ n \in 0..Len(b)
    BY <1>1, <1>3, <1>4, SMTT(20)
<1>6. g.root \in Ids /\ Len(f.root) <= Len(g.root) /\ IsPrefix(g.root, b) /\ Len(g.root) \in Nat
    BY Heights, Zenon DEF KeptAbove
<1>7. Len(f.root) \in Nat
    BY OnRoot, Zenon
<1>8. ancestor_at(old, n) = ancestor_at(b, n) /\ ap \cup {b} = Above(b, n)
    BY <1>1, <1>3, <1>5, Zenon
<1>9. Len(g.root) <= n => has_block(g, old)
    <2>1. SUFFICES ASSUME Len(g.root) <= n PROVE has_block(g, old)
        BY Zenon
    <2>2. Len(f.root) <= n
        BY <1>5, <1>6, <1>7, <2>1, SMTT(20)
    <2>3. has_block(f, old)
        BY <1>1, <2>2, Zenon
    <2>4. QED
        BY <1>3, <1>4, <1>5, <1>8, <2>1, <2>3, StaysAbove, Zenon
<1>10. Switching(g, b, ob, ap \cup {b}, old, n)
    BY <1>1, <1>5, <1>8, <1>9, Zenon DEF Switching
<1>11. ASSUME nb \ {b} # {} PROVE Applying(g, b, nb \ {b}, old, n, new)
    <2>1. Len(new) \in Nat /\ Len(b) \in Nat
        BY <1>3, Heights, Zenon
    <2>2. Len(b) <= Len(new) /\ Len(b) \in 0..Len(b) /\ Len(b) \in 0..Len(new)
        BY <1>3, <2>1, SMTT(20)
    <2>3. Len(b) # Len(new)
        BY <1>3, <1>11, <2>2, AboveCard, Zenon
    <2>4. Len(b) < Len(new)
        BY <2>1, <2>2, <2>3, SMTT(20)
    <2>5. ancestor_at(new, Len(b)) = ancestor_at(b, Len(b)) /\ Len(g.root) <= Len(b)
        BY <1>3, <1>6, OwnAncestor, PrefixIs, Zenon
    <2>6. has_block(f, new)
        BY <1>2, Zenon DEF has_block
    <2>7. new \in g.index
        BY <1>3, <2>2, <2>4, <2>5, <2>6, StaysAbove, Zenon
    <2>8. QED
        BY <1>2, <1>3, <2>7, Zenon DEF Applying
<1>12. QED
    BY <1>10, <1>11, Zenon DEF ApplyStage

(* ApplyBlock *)
LEMMA ApplyBlockKeeps ==
    ASSUME IInv, ApplyBlock
    PROVE  IInv'
<1> DEFINE b == lowest(new_branch)
           f == fork_db
           id == chain_head
<1>1. DataOK(f, id, blog_head, blocks) /\ StageOK
    BY Zenon DEF IInv
<1>2. BlocksOK(blocks) /\ TreeOK(f) /\ has_block(f, id)
    BY <1>1, Zenon DEF DataOK, ForkDbOK, HeadOK
<1>3. stage = "apply" /\ new_branch # {} /\ stage' = stage /\ old_branch' = old_branch /\ blocks' = blocks
    BY Zenon DEF ApplyBlock
<1>4. /\ chain_head' = b /\ LogIrreversible(set_valid(f, b), b)
      /\ new_branch' = new_branch \ {b} /\ applied' = applied \cup {b}
    BY Zenon DEF ApplyBlock, next_block, Committed
<1>5. ApplyStage(f, id, blocks, new_branch, applied, old_branch)
    BY <1>1, <1>3 DEF StageOK
<1>6. PICK old \in blocks : \E n \in 0..Len(old) :
          /\ Switching(f, id, old_branch, applied, old, n)
          /\ new_branch = {} \/ \E new \in blocks : Applying(f, id, new_branch, old, n, new)
    BY <1>5, Zenon DEF ApplyStage
<1>7. PICK n \in 0..Len(old) :
          /\ Switching(f, id, old_branch, applied, old, n)
          /\ new_branch = {} \/ \E new \in blocks : Applying(f, id, new_branch, old, n, new)
    BY <1>6, Zenon
<1>8. PICK new \in blocks : Applying(f, id, new_branch, old, n, new)
    BY <1>3, <1>7, Zenon
<1>9. new \in f.index /\ IsPrefix(id, new) /\ new_branch = Above(new, Len(id))
    BY <1>8, Zenon DEF Applying
<1>10. b \in f.index /\ previous(b) = id
    BY <1>2, <1>3, <1>9, NextToApply, SMTT(20)
<1>11. DataOK(fork_db', b, blog_head', blocks) /\ KeptAbove(f, b, fork_db')
    BY <1>1, <1>4, <1>10, Commits, ZenonT(30)
<1>12. TreeOK(fork_db')
    BY <1>11, Zenon DEF DataOK, ForkDbOK
<1>13. ApplyStage(fork_db', b, blocks, new_branch \ {b}, applied \cup {b}, old_branch)
    BY <1>2, <1>3, <1>7, <1>8, <1>11, <1>12, ApplyGoesOn, ZenonT(30)
<1> HIDE DEF b
<1>14. StageOK'
    BY <1>3, <1>4, <1>13, Zenon DEF StageOK
<1>15. QED
    BY <1>3, <1>4, <1>11, <1>14, Zenon DEF IInv

(* RestoreBlock *)
LEMMA RestoreBlockKeeps ==
    ASSUME IInv, RestoreBlock
    PROVE  IInv'
<1> DEFINE b == lowest(old_branch)
           f == fork_db
           id == chain_head
<1>1. DataOK(f, id, blog_head, blocks) /\ StageOK
    BY Zenon DEF IInv
<1>2. BlocksOK(blocks) /\ TreeOK(f) /\ has_block(f, id)
    BY <1>1, Zenon DEF DataOK, ForkDbOK, HeadOK
<1>3. stage = "restore" /\ new_branch' = new_branch /\ applied' = applied /\ blocks' = blocks
    BY Zenon DEF RestoreBlock
<1>4. /\ chain_head' = b /\ LogIrreversible(set_valid(f, b), b)
      /\ old_branch' = old_branch \ {b}
      /\ stage' = IF old_branch' = {} THEN "idle" ELSE "restore"
    BY Zenon DEF RestoreBlock, next_block, Committed
<1>5. RestoreStage(f, id, new_branch, applied, old_branch)
    BY <1>1, <1>3 DEF StageOK
<1>6. new_branch = {} /\ applied = {} /\ old_branch # {}
    BY <1>5, Zenon DEF RestoreStage
<1>7. PICK old \in f.index : IsPrefix(id, old) /\ old_branch = Above(old, Len(id))
    BY <1>5, Zenon DEF RestoreStage
<1>8. /\ b \in f.index /\ b \in Ids /\ previous(b) = id /\ old \in Ids
      /\ b = ancestor_at(old, Len(b)) /\ IsPrefix(b, old)
      /\ old_branch \ {b} = Above(old, Len(b))
    BY <1>2, <1>6, <1>7, NextToApply, SMTT(20)
<1>9. DataOK(fork_db', b, blog_head', blocks) /\ KeptAbove(f, b, fork_db')
    BY <1>1, <1>4, <1>8, Commits, ZenonT(30)
<1>10. TreeOK(fork_db')
    BY <1>9, Zenon DEF DataOK, ForkDbOK
<1> HIDE DEF b
<1>11. CASE old_branch \ {b} = {}
    <2>1. stage' = "idle" /\ new_branch' = {} /\ applied' = {} /\ old_branch' = {}
        BY <1>3, <1>4, <1>6, <1>11, Zenon
    <2>2. StageOK'
        BY <2>1, Zenon DEF StageOK
    <2>3. QED
        BY <1>3, <1>4, <1>9, <2>2, Zenon DEF IInv
<1>12. CASE old_branch \ {b} # {}
    <2>1. Len(old) \in Nat /\ Len(b) \in Nat /\ Len(b) <= Len(old)
        BY <1>8, Heights, PrefixIs, Zenon
    <2>2. Len(b) \in 0..Len(b) /\ Len(b) \in 0..Len(old)
        BY <2>1
    <2>3. Len(b) # Len(old)
        BY <1>8, <1>12, <2>2, AboveCard, Zenon
    <2>4. Len(b) < Len(old)
        BY <2>1, <2>3
    <2>5. fork_db'.root \in Ids /\ IsPrefix(fork_db'.root, b)
        BY <1>9, Zenon DEF KeptAbove
    <2>6. ancestor_at(old, Len(b)) = ancestor_at(b, Len(b)) /\ Len(fork_db'.root) <= Len(b)
        BY <1>8, <2>5, OwnAncestor, PrefixIs, Zenon
    <2>7. has_block(f, old)
        BY <1>7, Zenon DEF has_block
    <2>8. old \in fork_db'.index
        BY <1>8, <1>9, <1>10, <2>1, <2>2, <2>4, <2>6, <2>7, StaysAbove, Zenon
    <2>9. RestoreStage(fork_db', b, new_branch, applied, old_branch \ {b})
        BY <1>6, <1>8, <1>12, <2>8, Zenon DEF RestoreStage
    <2>10. StageOK'
        <3>1. stage' = "restore"
            BY <1>4, <1>12, Zenon
        <3>2. QED
            BY <1>3, <1>4, <2>9, <3>1, Zenon DEF StageOK
    <2>11. QED
        BY <1>3, <1>4, <1>9, <2>10, Zenon DEF IInv
<1>13. QED
    BY <1>11, <1>12, Zenon

(* A branch that fails at b is left: the head goes back to where the       *)
(* branches part, or to the root when that is above it.                    *)
LEMMA Reverts ==
    ASSUME NEW bs, BlocksOK(bs), NEW g, ForkDbOK(g, bs), HeadOK(g, chain_head),
           NEW b \in g.index, Len(b) = Len(chain_head) + 1,
           NEW old \in bs, NEW n \in 0..Len(old), Switching(g, chain_head, old_branch, applied, old, n),
           n < Len(old) => ~IsPrefix(b, old),
           fork_db' = remove(g, b), Revert(fork_db')
    PROVE  ForkDbOK(fork_db', bs) /\ HeadOK(fork_db', chain_head') /\ StageOK' /\ fork_db'.root = g.root
<1> DEFINE h == fork_db'
           id == chain_head
<1>1. /\ ForkDbOK(h, bs) /\ h.root = g.root /\ h.valid = g.valid \cap h.index
      /\ \A x : has_block(g, x) /\ ~IsPrefix(b, x) => has_block(h, x)
    BY Removed
<1>2. TreeOK(h) /\ TreeOK(g)
    BY <1>1, Zenon DEF ForkDbOK
<1>3. has_block(g, id) /\ Above(id, Len(g.root)) \subseteq g.valid
    BY Zenon DEF HeadOK
<1>4. id \in Ids /\ Len(id) \in Nat /\ b \in Ids /\ old \in Ids /\ Len(old) \in Nat
    BY <1>2, <1>3, OnRoot, BlocksAreIds, Zenon DEF has_block
<1>5. ~IsPrefix(b, id)
    <2>1. ~(Len(b) <= Len(id))
        BY <1>4
    <2>2. QED
        BY <1>4, <2>1, PrefixIs, Zenon
<1> HIDE DEF h
<1>6. has_block(h, id)
    BY <1>1, <1>3, <1>5, Zenon
<1>7. HeadOK(h, id)
    <2>1. Above(id, Len(h.root)) \subseteq h.index
        BY <1>2, <1>6, OnRoot, Zenon
    <2>2. QED
        BY <1>1, <1>3, <1>6, <2>1, Zenon DEF HeadOK
<1>8. /\ n <= Len(id) /\ ancestor_at(old, n) = ancestor_at(id, n)
      /\ old_branch = Above(old, n) /\ applied = Above(id, n)
      /\ Len(g.root) <= n => has_block(g, old)
    BY Zenon DEF Switching
<1>9. n \in Nat /\ n \in 0..Len(id) /\ n <= Len(old)
    BY <1>4, <1>8
<1>10. CASE old_branch = {}
    <2>1. chain_head' = id /\ Idle
        BY <1>10, Zenon DEF Revert
    <2>2. StageOK'
        BY <2>1, Zenon DEF Idle, StageOK
    <2>3. QED
        BY <1>1, <1>7, <2>1, <2>2, Zenon DEF h
<1>11. CASE old_branch # {}
    <2>1. n < Len(old)
        <3>1. n # Len(old)
            BY <1>4, <1>8, <1>11, AboveCard, Zenon
        <3>2. QED
            BY <1>4, <1>9, <3>1, SMTT(20)
    <2>2. Cardinality(applied) = Len(id) - n
        BY <1>4, <1>8, <1>9, AboveCard, Zenon
    <2>3. PICK m \in Len(h.root)..Len(id) :
              /\ popped(h, id, Len(id) - n) = ancestor_at(id, m)
              /\ m = n \/ (n < m /\ m = Len(h.root))
        BY <1>2, <1>6, <1>9, Popped, Zenon
    <2>4. chain_head' = ancestor_at(id, m)
        BY <1>11, <2>2, <2>3, Zenon DEF Revert, h
    <2>5. HeadOK(h, chain_head')
        BY <1>2, <1>7, <2>4, HeadBelow, Zenon
    <2>6. Len(h.root) \in Nat
        BY <1>2, <1>6, OnRoot, Zenon
    <2>7. m \in 0..Len(id) /\ Len(h.root) <= m
        BY <1>4, <2>6
    <2>8. CASE chain_head' = previous(lowest(old_branch))
        <3>1. previous(lowest(old_branch)) = ancestor_at(old, n)
            <4>1. lowest(Above(old, n)) = ancestor_at(old, n + 1) /\ previous(ancestor_at(old, n + 1)) = ancestor_at(old, n)
                BY <1>4, <1>9, <2>1, NextAbove, ZenonT(30)
            <4>2. QED
                BY <1>8, <4>1, Zenon
        <3>2. Len(chain_head') = m /\ Len(ancestor_at(old, n)) = n
            BY <1>4, <2>4, <2>7, Ancestors, Zenon
        <3>3. m = n
            BY <2>8, <3>1, <3>2, Zenon
        <3>4. has_block(g, old)
            BY <1>1, <1>8, <2>7, <3>3, Zenon
        <3>5. has_block(h, old)
            BY <1>1, <2>1, <3>4, Zenon
        <3>6. Len(h.root) < Len(old)
            BY <1>4, <1>9, <2>1, <2>6, <2>7, <3>3, SMTT(20)
        <3>7. old \in h.index
            BY <1>2, <3>5, <3>6, OnRoot, Zenon
        <3>8. IsPrefix(chain_head', old)
            <4>1. chain_head' \in Ids
                BY <1>4, <2>4, <2>7, Ancestors, Zenon
            <4>2. QED
                BY <1>4, <1>9, <2>8, <3>1, <3>2, <3>3, <4>1, PrefixIs, Zenon
        <3>9. stage' = "restore" /\ new_branch' = {} /\ applied' = {} /\ old_branch' = old_branch
            BY <1>11, <2>8, Zenon DEF Revert
        <3>10. RestoreStage(h, chain_head', new_branch', applied', old_branch')
            BY <1>8, <1>11, <3>2, <3>3, <3>7, <3>8, <3>9, Zenon DEF RestoreStage
        <3>11. StageOK'
            BY <3>9, <3>10, Zenon DEF StageOK, h
        <3>12. QED
            BY <1>1, <2>5, <3>11, Zenon DEF h
    <2>9. CASE chain_head' # previous(lowest(old_branch))
        <3>1. Idle
            BY <1>11, <2>9, Zenon DEF Revert
        <3>2. StageOK'
            BY <3>1, Zenon DEF Idle, StageOK
        <3>3. QED
            BY <1>1, <2>5, <3>2, Zenon DEF h
    <2>10. QED
        BY <2>8, <2>9, Zenon
<1>12. QED
    BY <1>10, <1>11, Zenon

(* What a switch is about to apply, and that it is not on the old branch.  *)
LEMMA NextOnSwitch ==
    ASSUME IInv, stage = "apply", new_branch # {}, NEW b, b = lowest(new_branch)
    PROVE  /\ b \in fork_db.index /\ previous(b) = chain_head /\ Len(b) = Len(chain_head) + 1
           /\ \E old \in blocks : \E n \in 0..Len(old) :
                 /\ Switching(fork_db, chain_head, old_branch, applied, old, n)
                 /\ n < Len(old) => ~IsPrefix(b, old)
<1> DEFINE f == fork_db
           id == chain_head
<1>1. DataOK(f, id, blog_head, blocks) /\ StageOK
    BY Zenon DEF IInv
<1>2. BlocksOK(blocks) /\ TreeOK(f) /\ has_block(f, id)
    BY <1>1, Zenon DEF DataOK, ForkDbOK, HeadOK
<1>3. ApplyStage(f, id, blocks, new_branch, applied, old_branch)
    BY <1>1 DEF StageOK
<1>4. PICK old \in blocks : \E n \in 0..Len(old) :
          /\ Switching(f, id, old_branch, applied, old, n)
          /\ new_branch = {} \/ \E new \in blocks : Applying(f, id, new_branch, old, n, new)
    BY <1>3, Zenon DEF ApplyStage
<1>5. PICK n \in 0..Len(old) :
          /\ Switching(f, id, old_branch, applied, old, n)
          /\ new_branch = {} \/ \E new \in blocks : Applying(f, id, new_branch, old, n, new)
    BY <1>4, Zenon
<1>6. PICK new \in blocks : Applying(f, id, new_branch, old, n, new)
    BY <1>5, Zenon
<1>7. /\ new \in f.index /\ IsPrefix(id, new) /\ new_branch = Above(new, Len(id))
      /\ n < Len(old) /\ n < Len(new) => ancestor_at(old, n + 1) # ancestor_at(new, n + 1)
    BY <1>6, Zenon DEF Applying
<1>8. /\ b \in f.index /\ b \in Ids /\ new \in Ids /\ previous(b) = id
      /\ Len(id) \in Nat /\ Len(b) = Len(id) + 1 /\ Len(id) < Len(new)
      /\ b = ancestor_at(new, Len(b)) /\ IsPrefix(b, new)
    BY <1>2, <1>7, NextToApply, SMTT(20)
<1>9. ASSUME n < Len(old), IsPrefix(b, old) PROVE FALSE
    <2>1. old \in Ids /\ Len(old) \in Nat /\ Len(new) \in Nat
        BY <1>2, <1>8, BlocksAreIds, Heights, Zenon
    <2>2. Len(b) <= Len(old) /\ ancestor_at(old, Len(b)) = b
        BY <1>8, <1>9, <2>1, PrefixIs, Zenon
    <2>3. n <= Len(id)
        BY <1>5, Zenon DEF Switching
    <2>4. n + 1 \in 0..Len(b) /\ Len(b) \in 0..Len(old) /\ Len(b) <= Len(new) /\ n < Len(new)
        BY <1>8, <2>1, <2>2, <2>3, SMTT(20)
    <2>5. ancestor_at(old, Len(b)) = ancestor_at(new, Len(b))
        BY <1>8, <2>2, Zenon
    <2>6. ancestor_at(old, n + 1) = ancestor_at(new, n + 1)
        BY <1>8, <2>1, <2>4, <2>5, AgreeBelow, Zenon
    <2>7. QED
        BY <1>7, <1>9, <2>4, <2>6, Zenon
<1>10. QED
    BY <1>5, <1>8, <1>9, Zenon

(* ApplyFails *)
LEMMA ApplyFailsKeeps ==
    ASSUME IInv, ApplyFails
    PROVE  IInv'
<1> DEFINE b == lowest(new_branch)
<1>1. DataOK(fork_db, chain_head, blog_head, blocks)
    BY Zenon DEF IInv
<1>2. /\ stage = "apply" /\ new_branch # {} /\ fork_db' = remove(fork_db, b) /\ Revert(fork_db')
      /\ blog_head' = blog_head /\ blocks' = blocks
    BY Zenon DEF ApplyFails, next_block
<1>3. /\ b \in fork_db.index /\ Len(b) = Len(chain_head) + 1
      /\ \E old \in blocks : \E n \in 0..Len(old) :
            /\ Switching(fork_db, chain_head, old_branch, applied, old, n)
            /\ n < Len(old) => ~IsPrefix(b, old)
    BY <1>2, NextOnSwitch
<1>4. /\ BlocksOK(blocks) /\ ForkDbOK(fork_db, blocks) /\ HeadOK(fork_db, chain_head)
      /\ blog_head = fork_db.root /\ RootFinal(fork_db, blocks)
    BY <1>1, Zenon DEF DataOK
<1> HIDE DEF b
<1>5. ForkDbOK(fork_db', blocks) /\ HeadOK(fork_db', chain_head') /\ StageOK' /\ fork_db'.root = fork_db.root
    BY <1>2, <1>3, <1>4, Reverts, ZenonT(30)
<1>6. RootFinal(fork_db', blocks)
    BY <1>4, <1>5, Zenon DEF RootFinal
<1>7. DataOK(fork_db', chain_head', blog_head', blocks')
    BY <1>2, <1>4, <1>5, <1>6, Zenon DEF DataOK
<1>8. QED
    BY <1>5, <1>7, Zenon DEF IInv

(* ApplyCannotLog *)
LEMMA ApplyCannotLogKeeps ==
    ASSUME IInv, ApplyCannotLog
    PROVE  IInv'
<1> DEFINE b == lowest(new_branch)
           v == set_valid(fork_db, b)
           id == chain_head
<1>1. DataOK(fork_db, id, blog_head, blocks)
    BY Zenon DEF IInv
<1>2. stage = "apply" /\ new_branch # {} /\ blocks' = blocks
    BY Zenon DEF ApplyCannotLog
<1>3. PICK W \in written_before_failure(marked(v, b)) :
          Written(W) /\ fork_db' = remove(rooted(v, W), b) /\ Revert(fork_db')
    BY Zenon DEF ApplyCannotLog, next_block
<1>4. b \in fork_db.index /\ previous(b) = id /\ Len(b) = Len(id) + 1
    BY <1>2, NextOnSwitch, ZenonT(30)
<1>5. PICK old \in blocks : \E n \in 0..Len(old) :
          /\ Switching(fork_db, id, old_branch, applied, old, n)
          /\ n < Len(old) => ~IsPrefix(b, old)
    BY <1>2, NextOnSwitch, ZenonT(30)
<1>6. PICK n \in 0..Len(old) :
          /\ Switching(fork_db, id, old_branch, applied, old, n)
          /\ n < Len(old) => ~IsPrefix(b, old)
    BY <1>5, Zenon
<1> DEFINE g == rooted(v, W)
<1>7. DataOK(g, id, blog_head', blocks) /\ KeptAbove(fork_db, id, g)
    <2> HIDE DEF v, g, b
    <2>1. v = set_valid(fork_db, b) /\ g = rooted(v, W)
        BY Zenon DEF v, g
    <2>2. QED
        BY <1>1, <1>3, <1>4, <2>1, WriteFails, ZenonT(30)
<1> HIDE DEF g, b, v
<1>8. /\ BlocksOK(blocks) /\ ForkDbOK(g, blocks) /\ HeadOK(g, id)
      /\ blog_head' = g.root /\ RootFinal(g, blocks)
    BY <1>7, Zenon DEF DataOK
<1>9. TreeOK(g) /\ TreeOK(fork_db) /\ has_block(fork_db, id)
    BY <1>1, <1>8, Zenon DEF DataOK, ForkDbOK, HeadOK
<1>10. /\ g.root \in Ids /\ Len(g.root) \in Nat /\ Len(fork_db.root) <= Len(g.root) /\ IsPrefix(g.root, id)
    BY <1>7, Heights, Zenon DEF KeptAbove
<1>11. id \in Ids /\ Len(id) \in Nat /\ Len(fork_db.root) \in Nat /\ b \in Ids /\ old \in Ids /\ Len(old) \in Nat
    BY <1>4, <1>8, <1>9, OnRoot, BlocksAreIds, Zenon DEF has_block
<1>12. Len(g.root) <= Len(id)
    BY <1>10, <1>11, PrefixIs, Zenon
<1>13. b \in g.index
    <2>1. has_block(fork_db, b)
        BY <1>4, Zenon DEF has_block
    <2>2. Len(id) \in 0..Len(id) /\ Len(id) <= Len(b) /\ Len(id) < Len(b) /\ Len(id) = Len(b) - 1
        BY <1>4, <1>11
    <2>3. ancestor_at(b, Len(id)) = ancestor_at(id, Len(id))
        BY <1>4, <1>11, <2>2, Parents, OwnAncestor, Zenon
    <2>4. QED
        BY <1>7, <1>9, <1>11, <1>12, <2>1, <2>2, <2>3, StaysAbove, Zenon
<1>14. /\ n <= Len(id) /\ ancestor_at(old, n) = ancestor_at(id, n)
       /\ old_branch = Above(old, n) /\ applied = Above(id, n)
       /\ Len(fork_db.root) <= n => has_block(fork_db, old)
    BY <1>6, Zenon DEF Switching
<1>15. Len(g.root) <= n => has_block(g, old)
    <2>1. SUFFICES ASSUME Len(g.root) <= n PROVE has_block(g, old)
        BY Zenon
    <2>2. Len(fork_db.root) <= n /\ n \in 0..Len(id) /\ n <= Len(old)
        BY <1>10, <1>11, <1>14, <2>1, SMTT(20)
    <2>3. QED
        BY <1>7, <1>9, <1>11, <1>14, <2>1, <2>2, StaysAbove, Zenon
<1>16. Switching(g, id, old_branch, applied, old, n)
    BY <1>14, <1>15, Zenon DEF Switching
<1>17. fork_db' = remove(g, b) /\ Revert(fork_db')
    BY <1>3, Zenon DEF g
<1>18. ForkDbOK(fork_db', blocks) /\ HeadOK(fork_db', chain_head') /\ StageOK' /\ fork_db'.root = g.root
    BY <1>4, <1>6, <1>8, <1>13, <1>16, <1>17, Reverts, ZenonT(30)
<1>19. RootFinal(fork_db', blocks)
    BY <1>8, <1>18, Zenon DEF RootFinal
<1>20. DataOK(fork_db', chain_head', blog_head', blocks')
    BY <1>2, <1>8, <1>18, <1>19, Zenon DEF DataOK
<1>21. QED
    BY <1>18, <1>20, Zenon DEF IInv

(* RestoreCannotLog *)
LEMMA RestoreCannotLogKeeps ==
    ASSUME IInv, RestoreCannotLog
    PROVE  IInv'
<1> DEFINE b == lowest(old_branch)
           f == fork_db
           id == chain_head
           v == set_valid(f, b)
<1>1. DataOK(f, id, blog_head, blocks) /\ StageOK
    BY Zenon DEF IInv
<1>2. TreeOK(f) /\ has_block(f, id)
    BY <1>1, Zenon DEF DataOK, ForkDbOK, HeadOK
<1>3. stage = "restore" /\ Idle /\ chain_head' = id /\ blocks' = blocks
    BY Zenon DEF RestoreCannotLog
<1>4. PICK W \in written_before_failure(marked(v, b)) : Written(W) /\ fork_db' = rooted(v, W)
    BY Zenon DEF RestoreCannotLog, next_block
<1>5. RestoreStage(f, id, new_branch, applied, old_branch)
    BY <1>1, <1>3 DEF StageOK
<1>6. PICK old \in f.index : IsPrefix(id, old) /\ old_branch = Above(old, Len(id)) /\ old_branch # {}
    BY <1>5, Zenon DEF RestoreStage
<1>7. b \in f.index /\ previous(b) = id
    BY <1>2, <1>6, NextToApply, SMTT(20)
<1> HIDE DEF b, v
<1>8. DataOK(fork_db', id, blog_head', blocks)
    <2>1. v = set_valid(f, b)
        BY Zenon DEF v
    <2>2. QED
        BY <1>1, <1>4, <1>7, <2>1, WriteFails, ZenonT(30)
<1>9. StageOK'
    BY <1>3, Zenon DEF Idle, StageOK
<1>10. QED
    BY <1>3, <1>8, <1>9, Zenon DEF IInv

(* EndApply and EndCannotLog *)
LEMMA EndKeeps ==
    ASSUME IInv, EndApply \/ EndCannotLog
    PROVE  IInv'
<1> DEFINE f == fork_db
           id == chain_head
<1>1. /\ BlocksOK(blocks) /\ ForkDbOK(f, blocks) /\ HeadOK(f, id)
      /\ blog_head = f.root /\ RootFinal(f, blocks) /\ has_block(f, id)
    BY Zenon DEF IInv, DataOK, HeadOK
<1>2. Idle /\ chain_head' = id /\ blocks' = blocks
    BY Zenon DEF EndApply, EndCannotLog
<1>3. LogStep(f, id, fork_db') /\ blog_head' = fork_db'.root
    <2>1. CASE EndApply
        <3>1. fork_db' = rooted(f, marked(f, id)) /\ Written(marked(f, id))
            BY <2>1, Zenon DEF EndApply, LogIrreversible
        <3>2. QED
            BY <1>1, <3>1, LoggedAll, ZenonT(30)
    <2>2. CASE EndCannotLog
        <3>1. PICK W \in written_before_failure(marked(f, id)) : Written(W) /\ fork_db' = rooted(f, W)
            BY <2>2, Zenon DEF EndCannotLog
        <3>2. QED
            BY <1>1, <3>1, LoggedSome, ZenonT(30)
    <2>3. QED
        BY <2>1, <2>2, Zenon
<1>4. ForkDbOK(fork_db', blocks) /\ RootFinal(fork_db', blocks) /\ HeadOK(fork_db', id)
    BY <1>1, <1>3, LogKeeps, Zenon
<1>5. DataOK(fork_db', chain_head', blog_head', blocks')
    BY <1>1, <1>2, <1>3, <1>4, Zenon DEF DataOK
<1>6. StageOK'
    BY <1>2, Zenon DEF Idle, StageOK
<1>7. QED
    BY <1>5, <1>6, Zenon DEF IInv

(* ProduceBlock and ProduceCannotLog *)
LEMMA ProduceKeeps ==
    ASSUME IInv, NEW n \in Children(chain_head), ProduceBlock(n) \/ ProduceCannotLog(n)
    PROVE  IInv'
<1> DEFINE g == add(fork_db, n)
           v == set_valid(g, n)
<1>1. DataOK(fork_db, chain_head, blog_head, blocks) /\ has_block(fork_db, chain_head)
    BY Zenon DEF IInv, DataOK, HeadOK
<1>2. Made(n) /\ Idle
    BY Zenon DEF ProduceBlock, ProduceCannotLog, Produced
<1>3. DataOK(g, chain_head, blog_head, blocks') /\ n \in g.index /\ previous(n) = chain_head
    BY <1>1, <1>2, Joined, ZenonT(30)
<1>4. DataOK(fork_db', chain_head', blog_head', blocks')
    <2>1. CASE ProduceBlock(n)
        <3>1. chain_head' = n /\ LogIrreversible(v, n)
            BY <2>1, Zenon DEF ProduceBlock
        <3> HIDE DEF g
        <3>2. DataOK(fork_db', n, blog_head', blocks')
            BY <1>3, <3>1, Commits, ZenonT(30)
        <3>3. QED
            BY <3>1, <3>2, Zenon
    <2>2. CASE ProduceCannotLog(n)
        <3>1. chain_head' = chain_head
            BY <2>2, Zenon DEF ProduceCannotLog
        <3>2. PICK W \in written_before_failure(marked(v, n)) : Written(W) /\ fork_db' = rooted(v, W)
            BY <2>2, Zenon DEF ProduceCannotLog
        <3>3. DataOK(fork_db', chain_head, blog_head', blocks')
            <4>1. v = set_valid(g, n)
                OBVIOUS
            <4> HIDE DEF v, g
            <4>2. QED
                BY <1>3, <3>2, <4>1, WriteFails, ZenonT(30)
        <3>4. QED
            BY <3>1, <3>3, Zenon
    <2>3. QED
        BY <2>1, <2>2, Zenon
<1>5. StageOK'
    BY <1>2, Zenon DEF Idle, StageOK
<1>6. QED
    BY <1>4, <1>5, Zenon DEF IInv

(* AcceptBlock: the network adds to the database while blocks are applied. *)
LEMMA AcceptKeeps ==
    ASSUME IInv, NEW parent \in fork_db.index \cup {fork_db.root}, NEW n \in Children(parent), AcceptBlock(n)
    PROVE  IInv'
<1> DEFINE f == fork_db
           g == fork_db'
<1>1. DataOK(f, chain_head, blog_head, blocks) /\ has_block(f, parent) /\ StageOK
    BY Zenon DEF IInv, has_block
<1>2. Made(n) /\ g = add(f, n) /\ chain_head' = chain_head /\ blog_head' = blog_head
    BY Zenon DEF AcceptBlock
<1>3. /\ stage' = stage /\ new_branch' = new_branch /\ applied' = applied /\ old_branch' = old_branch
    BY ZenonT(30) DEF AcceptBlock, apply_vars
<1>4. /\ DataOK(g, chain_head, blog_head, blocks')
      /\ g.root = f.root /\ f.index \subseteq g.index /\ blocks \subseteq blocks'
    BY <1>1, <1>2, Joined, ZenonT(30)
<1>5. \A x : has_block(f, x) => has_block(g, x)
    BY <1>4, Zenon DEF has_block
<1>6. ASSUME ApplyStage(f, chain_head, blocks, new_branch, applied, old_branch)
      PROVE  ApplyStage(g, chain_head, blocks', new_branch, applied, old_branch)
    <2>1. \A old, k : Switching(f, chain_head, old_branch, applied, old, k)
                          => Switching(g, chain_head, old_branch, applied, old, k)
        BY <1>4, <1>5, Zenon DEF Switching
    <2>2. \A old, k, new : Applying(f, chain_head, new_branch, old, k, new)
                               => Applying(g, chain_head, new_branch, old, k, new)
        BY <1>4, Zenon DEF Applying
    <2>3. QED
        BY <1>4, <1>6, <2>1, <2>2, Zenon DEF ApplyStage
<1>7. RestoreStage(f, chain_head, new_branch, applied, old_branch)
          => RestoreStage(g, chain_head, new_branch, applied, old_branch)
    BY <1>4, Zenon DEF RestoreStage
<1>8. StageOK'
    BY <1>1, <1>2, <1>3, <1>6, <1>7, Zenon DEF StageOK
<1>9. QED
    BY <1>2, <1>4, <1>8, Zenon DEF IInv

(* StartApply *)
LEMMA StartApplyKeeps ==
    ASSUME IInv, StartApply
    PROVE  IInv'
<1> DEFINE f == fork_db
           x == head(f)
           y == chain_head
           R == Len(f.root)
<1>1. DataOK(f, y, blog_head, blocks) /\ BlocksOK(blocks) /\ ForkDbOK(f, blocks) /\ HeadOK(f, y)
    BY Zenon DEF IInv, DataOK
<1>2. f \in Databases(blocks) /\ TreeOK(f) /\ has_block(f, y)
    BY <1>1, Zenon DEF ForkDbOK, HeadOK
<1>3. /\ f.index # {} /\ stage' = "apply" /\ applied' = {}
      /\ new_branch' = fetch_branch_from(f, x, y).first
      /\ old_branch' = fetch_branch_from(f, x, y).second
      /\ chain_head' = popped(f, y, Cardinality(fetch_branch_from(f, x, y).second))
      /\ fork_db' = f /\ blog_head' = blog_head /\ blocks' = blocks
    BY Zenon DEF StartApply
<1>4. x \in f.index /\ has_block(f, x)
    BY <1>1, <1>3, BestHead, Zenon DEF has_block
<1> HIDE DEF x
<1>5. x \in Ids /\ Len(x) \in Nat /\ R \in 0..Len(x) /\ R \in Nat /\ ancestor_at(x, R) = f.root /\ x \in blocks
    BY <1>2, <1>4, OnRoot, Fields, Zenon
<1>6. y \in Ids /\ Len(y) \in Nat /\ R \in 0..Len(y) /\ ancestor_at(y, R) = f.root /\ y \in blocks
    BY <1>2, OnRoot, Fields, ZenonT(30) DEF has_block
<1>7. PICK p \in Nat :
          /\ p <= Len(x) /\ p <= Len(y)
          /\ ancestor_at(x, p) = ancestor_at(y, p)
          /\ p < Len(x) /\ p < Len(y) => ancestor_at(x, p + 1) # ancestor_at(y, p + 1)
          /\ fetch_branch_from(f, x, y).first = Above(x, p)
          /\ fetch_branch_from(f, x, y).second = Above(y, p)
    BY <1>5, <1>6, Parting
<1>8. R <= p
    <2>1. SUFFICES ASSUME ~(R <= p) PROVE FALSE
        BY Zenon
    <2>2. p + 1 \in 0..R /\ p < Len(x) /\ p < Len(y) /\ R <= Len(y)
        BY <1>5, <1>6, <2>1, SMTT(20)
    <2>3. ancestor_at(x, R) = ancestor_at(y, R)
        BY <1>5, <1>6, Zenon
    <2>4. ancestor_at(x, p + 1) = ancestor_at(y, p + 1)
        BY <1>5, <1>6, <2>2, <2>3, AgreeBelow, Zenon
    <2>5. QED
        BY <1>7, <2>2, <2>4, Zenon
<1>9. p \in 0..Len(y) /\ p \in 0..Len(x) /\ p \in R..Len(y)
    BY <1>5, <1>6, <1>7, <1>8, SMTT(20)
<1> DEFINE z == ancestor_at(y, p)
<1>10. chain_head' = z
    <2>1. Cardinality(Above(y, p)) = Len(y) - p
        BY <1>6, <1>9, AboveCard, Zenon
    <2>2. PICK m \in R..Len(y) :
              /\ popped(f, y, Len(y) - p) = ancestor_at(y, m)
              /\ m = p \/ (p < m /\ m = R)
        BY <1>2, <1>9, Popped, Zenon
    <2>3. m = p
        BY <1>5, <1>8, <2>2, SMTT(20)
    <2>4. QED
        BY <1>3, <1>7, <2>1, <2>2, <2>3, Zenon
<1>11. HeadOK(f, z)
    BY <1>1, <1>2, <1>9, HeadBelow, Zenon
<1>12. z \in Ids /\ Len(z) = p /\ ancestor_at(z, p) = z
    BY <1>6, <1>9, Ancestors, OwnAncestor, ZenonT(30)
<1>13. Above(z, p) = {}
    BY <1>12, AboveCard
<1> HIDE DEF z
<1>14. Switching(f, z, old_branch', applied', y, p)
    <2>1. ancestor_at(y, p) = ancestor_at(z, p) /\ p <= Len(z)
        BY <1>12 DEF z
    <2>2. QED
        BY <1>2, <1>3, <1>7, <1>9, <1>13, <2>1, Zenon DEF Switching
<1>15. Applying(f, z, new_branch', y, p, x)
    <2>1. IsPrefix(z, x)
        BY <1>5, <1>7, <1>12, PrefixIs, Zenon DEF z
    <2>2. QED
        BY <1>3, <1>4, <1>7, <1>12, <2>1, Zenon DEF Applying
<1>16. ApplyStage(f, z, blocks, new_branch', applied', old_branch')
    BY <1>5, <1>6, <1>9, <1>14, <1>15, Zenon DEF ApplyStage
<1>17. StageOK'
    BY <1>3, <1>10, <1>16, Zenon DEF StageOK
<1>18. DataOK(fork_db', chain_head', blog_head', blocks')
    BY <1>1, <1>3, <1>10, <1>11, Zenon DEF DataOK
<1>19. QED
    BY <1>17, <1>18, Zenon DEF IInv

(* The steps that only change the stage.                                   *)
LEMMA StageStepKeeps ==
    ASSUME IInv, StartBlock \/ AbortBlock \/ Interrupt \/ Pause \/ UNCHANGED vars
    PROVE  IInv'
<1>1. DataOK(fork_db, chain_head, blog_head, blocks) /\ StageOK
    BY Zenon DEF IInv
<1>2. /\ fork_db' = fork_db /\ chain_head' = chain_head /\ blog_head' = blog_head /\ blocks' = blocks
    BY DEF StartBlock, AbortBlock, Interrupt, Pause, vars
<1>3. CASE StartBlock
    <2>1. stage = "idle" /\ stage' = "building" /\ new_branch' = new_branch /\ applied' = applied /\ old_branch' = old_branch
        BY <1>3, Zenon DEF StartBlock
    <2>2. StageOK'
        BY <1>1, <2>1, ZenonT(30) DEF StageOK
    <2>3. QED
        BY <1>1, <1>2, <2>2, Zenon DEF IInv
<1>4. CASE AbortBlock \/ Interrupt
    <2>1. StageOK'
        BY <1>4, Zenon DEF AbortBlock, Interrupt, Idle, StageOK
    <2>2. QED
        BY <1>1, <1>2, <2>1, Zenon DEF IInv
<1>5. CASE Pause
    <2>1. /\ stage = "apply" /\ stage' = "apply" /\ new_branch' = {}
          /\ applied' = applied /\ old_branch' = old_branch
        BY <1>5 DEF Pause
    <2>2. ApplyStage(fork_db, chain_head, blocks, new_branch, applied, old_branch)
        BY <1>1, <2>1 DEF StageOK
    <2>3. ApplyStage(fork_db, chain_head, blocks, {}, applied, old_branch)
        BY <2>2, Zenon DEF ApplyStage
    <2>4. StageOK'
        BY <1>2, <2>1, <2>3, Zenon DEF StageOK
    <2>5. QED
        BY <1>1, <1>2, <2>4, Zenon DEF IInv
<1>6. CASE UNCHANGED vars
    <2>1. /\ stage' = stage /\ new_branch' = new_branch /\ applied' = applied /\ old_branch' = old_branch
        BY <1>6 DEF vars, apply_vars
    <2>2. QED
        BY <1>1, <1>2, <2>1, Zenon DEF IInv, StageOK
<1>7. QED
    BY <1>3, <1>4, <1>5, <1>6, Zenon

(* Restart and Crash *)
LEMMA RestartKeeps ==
    ASSUME IInv, Restart \/ Crash
    PROVE  IInv'
<1> DEFINE f == fork_db
<1>1. /\ BlocksOK(blocks) /\ ForkDbOK(f, blocks) /\ HeadOK(f, chain_head)
      /\ blog_head = f.root /\ RootFinal(f, blocks) /\ StageOK /\ DataOK(f, chain_head, blog_head, blocks)
    BY Zenon DEF IInv, DataOK
<1>2. f.root \in blocks
    BY <1>1, Fields, Zenon DEF ForkDbOK
<1>3. DataOK(reset_root(f.root), f.root, f.root, blocks)
    <2>1. ForkDbOK(reset_root(f.root), blocks) /\ HeadOK(reset_root(f.root), f.root) /\ reset_root(f.root).root = f.root
        BY <1>1, <1>2, ResetOK, Zenon
    <2>2. QED
        BY <1>1, <2>1, Zenon DEF DataOK, RootFinal
<1>4. CASE Restart
    <2>1. /\ fork_db' = IF reopened(f).index = {} THEN reset_root(chain_head) ELSE reopened(f)
          /\ chain_head' = chain_head /\ blog_head' = blog_head /\ blocks' = blocks /\ stage = "idle"
        BY <1>4, Zenon DEF Restart
    <2>2. stage' = stage /\ new_branch' = new_branch /\ applied' = applied /\ old_branch' = old_branch
        BY <1>4 DEF Restart, apply_vars
    <2>3. reopened(f) = f
        BY <1>1, Reopened, Zenon
    <2>4. StageOK'
        BY <1>1, <2>1, <2>2, ZenonT(30) DEF StageOK
    <2>5. f.index = {} => chain_head = f.root
        BY <1>1, Zenon DEF HeadOK, has_block
    <2>6. DataOK(fork_db', chain_head, blog_head, blocks)
        BY <1>1, <1>3, <2>1, <2>3, <2>5, Zenon
    <2>7. QED
        BY <2>1, <2>4, <2>6, Zenon DEF IInv
<1>5. CASE Crash
    <2>1. /\ fork_db' = reset_root(f.root) /\ chain_head' = f.root /\ blog_head' = f.root /\ blocks' = blocks /\ Idle
        BY <1>1, <1>5, Zenon DEF Crash
    <2>2. StageOK'
        BY <2>1, Zenon DEF Idle, StageOK
    <2>3. QED
        BY <1>3, <2>1, <2>2, Zenon DEF IInv
<1>6. QED
    BY <1>4, <1>5, Zenon

(* The invariant holds in every state: of any network, and through any     *)
(* failures.                                                               *)
THEOREM ControllerInvariant == Spec => []IInv
<1>1. Init => IInv
    <2>1. SUFFICES ASSUME Init PROVE IInv
        BY Zenon
    <2>2. /\ fork_db = reset_root(genesis) /\ chain_head = genesis /\ blog_head = genesis /\ blocks = {genesis}
        BY <2>1, Zenon DEF Init
    <2>3. StageOK
        BY <2>1, Zenon DEF Init, StageOK
    <2>4. /\ ForkDbOK(reset_root(genesis), {genesis}) /\ HeadOK(reset_root(genesis), genesis)
          /\ reset_root(genesis).root = genesis
        BY GenesisOK, ResetOK, Zenon
    <2>5. QED
        BY <2>2, <2>3, <2>4, GenesisOK, Zenon DEF IInv, DataOK, RootFinal
<1>2. IInv /\ [Next]_vars => IInv'
    <2>1. SUFFICES ASSUME IInv, [Next]_vars PROVE IInv'
        BY Zenon
    <2>2. CASE \E parent \in fork_db.index \cup {fork_db.root} : \E n \in Children(parent) : AcceptBlock(n)
        BY <2>1, <2>2, AcceptKeeps, Zenon
    <2>3. CASE \E n \in Children(chain_head) : ProduceBlock(n) \/ ProduceCannotLog(n)
        BY <2>1, <2>3, ProduceKeeps, Zenon
    <2>4. CASE StartBlock \/ AbortBlock \/ Interrupt \/ Pause \/ UNCHANGED vars
        BY <2>1, <2>4, StageStepKeeps, Zenon
    <2>5. CASE StartApply
        BY <2>1, <2>5, StartApplyKeeps, Zenon
    <2>6. CASE ApplyBlock
        BY <2>1, <2>6, ApplyBlockKeeps, Zenon
    <2>7. CASE ApplyFails
        BY <2>1, <2>7, ApplyFailsKeeps, Zenon
    <2>8. CASE ApplyCannotLog
        BY <2>1, <2>8, ApplyCannotLogKeeps, Zenon
    <2>9. CASE RestoreBlock
        BY <2>1, <2>9, RestoreBlockKeeps, Zenon
    <2>10. CASE RestoreCannotLog
        BY <2>1, <2>10, RestoreCannotLogKeeps, Zenon
    <2>11. CASE EndApply \/ EndCannotLog
        BY <2>1, <2>11, EndKeeps, Zenon
    <2>12. CASE Restart \/ Crash
        BY <2>1, <2>12, RestartKeeps, Zenon
    <2>13. QED
        BY <2>1, <2>2, <2>3, <2>4, <2>5, <2>6, <2>7, <2>8, <2>9, <2>10, <2>11, <2>12, Zenon DEF Next
<1>3. QED
    BY <1>1, <1>2, PTL DEF Spec

-----------------------------------------------------------------------------
(* What the invariant implies *)

(* The blocks that are to be applied are in the index, the next one on the *)
(* head.                                                                   *)
LEMMA ToApply ==
    ASSUME IInv
    PROVE  /\ new_branch # {} => new_branch \subseteq fork_db.index /\ previous(lowest(new_branch)) = chain_head
           /\ stage = "restore" /\ old_branch # {}
                  => old_branch \subseteq fork_db.index /\ previous(lowest(old_branch)) = chain_head
<1> DEFINE f == fork_db
           id == chain_head
<1>1. TreeOK(f) /\ has_block(f, id) /\ StageOK
    BY Zenon DEF IInv, DataOK, ForkDbOK, HeadOK
<1>2. ASSUME new_branch # {} PROVE new_branch \subseteq f.index /\ previous(lowest(new_branch)) = id
    <2>1. ApplyStage(f, id, blocks, new_branch, applied, old_branch)
        BY <1>1, <1>2, Zenon DEF StageOK, RestoreStage
    <2>2. \E old \in blocks : \E n \in 0..Len(old) : \E new \in blocks : Applying(f, id, new_branch, old, n, new)
        BY <1>2, <2>1, Zenon DEF ApplyStage
    <2>3. PICK new \in f.index : IsPrefix(id, new) /\ new_branch = Above(new, Len(id))
        BY <2>2, Zenon DEF Applying
    <2>4. QED
        BY <1>1, <1>2, <2>3, NextToApply, SMTT(20)
<1>3. ASSUME stage = "restore", old_branch # {}
      PROVE  old_branch \subseteq f.index /\ previous(lowest(old_branch)) = id
    <2>1. RestoreStage(f, id, new_branch, applied, old_branch)
        BY <1>1, <1>3 DEF StageOK
    <2>2. PICK old \in f.index : IsPrefix(id, old) /\ old_branch = Above(old, Len(id))
        BY <2>1, Zenon DEF RestoreStage
    <2>3. QED
        BY <1>1, <1>3, <2>2, NextToApply, SMTT(20)
<1>4. QED
    BY <1>2, <1>3, Zenon

(* The head and the blocks to apply are where maybe_apply_blocks and       *)
(* commit_block look for them.                                             *)
THEOREM HeadStaysInForkDb == Spec => []HeadInForkDb
<1>1. IInv => HeadInForkDb
    <2>0. SUFFICES ASSUME IInv PROVE HeadInForkDb
        BY Zenon
    <2> DEFINE f == fork_db
               id == chain_head
    <2>1. TreeOK(f) /\ has_block(f, id) /\ Above(id, Len(f.root)) \subseteq f.valid
        BY <2>0, Zenon DEF IInv, DataOK, ForkDbOK, HeadOK
    <2>2. f.root \notin f.index
        BY <2>1, OnRoot, Zenon
    <2>3. ASSUME NEW b \in f.index PROVE has_block(f, previous(b))
        <3>1. has_block(f, b)
            BY Zenon DEF has_block
        <3>2. b \in Ids /\ Len(f.root) \in Nat /\ Len(b) \in Nat /\ Len(f.root) < Len(b)
            BY <2>1, <3>1, OnRoot, Zenon
        <3>3. Len(b) - 1 \in 0..Len(b) /\ Len(f.root) <= Len(b) - 1
            BY <3>2
        <3>4. has_block(f, ancestor_at(b, Len(b) - 1))
            BY <2>1, <3>1, <3>3, BranchHas, Zenon
        <3>5. QED
            BY <3>2, <3>4, Parents, Zenon
    <2>4. branch(f, id) \subseteq f.valid
        BY <2>1, BranchIs, Zenon
    <2>5. ASSUME NEW todo \in {new_branch, IF stage = "restore" THEN old_branch ELSE {}}, todo # {}
          PROVE  todo \subseteq f.index /\ previous(lowest(todo)) = id
        BY <2>0, <2>5, ToApply, Zenon
    <2>6. QED
        BY <2>1, <2>2, <2>3, <2>4, <2>5, Zenon DEF HeadInForkDb
<1>2. QED
    BY <1>1, ControllerInvariant, PTL

(* The block log ends at the root of the database, on the chain, and is    *)
(* final.                                                                  *)
THEOREM LogStaysChain == Spec => []LogIsChain
<1>1. IInv => LogIsChain
    <2>0. SUFFICES ASSUME IInv PROVE LogIsChain
        BY Zenon
    <2>1. TreeOK(fork_db) /\ has_block(fork_db, chain_head) /\ blog_head = fork_db.root /\ RootFinal(fork_db, blocks)
        BY <2>0, Zenon DEF IInv, DataOK, ForkDbOK, HeadOK
    <2>2. /\ fork_db.root \in Ids /\ chain_head \in Ids
          /\ Len(fork_db.root) \in 0..Len(chain_head) /\ Len(chain_head) \in Nat /\ Len(fork_db.root) \in Nat
          /\ ancestor_at(chain_head, Len(fork_db.root)) = fork_db.root
        BY <2>1, OnRoot, Zenon
    <2>3. Len(fork_db.root) <= Len(chain_head)
        BY <2>2
    <2>4. IsPrefix(fork_db.root, chain_head)
        BY <2>2, <2>3, PrefixIs, Zenon
    <2>5. QED
        BY <2>1, <2>4, Zenon DEF LogIsChain, RootFinal
<1>2. QED
    BY <1>1, ControllerInvariant, PTL

(* A finalizer of this node votes for a block only when the block it       *)
(* claims has been executed.                                               *)
THEOREM VotesStayBehind == Spec => []VotesBehindExecuted
<1>1. IInv => VotesBehindExecuted
    <2>0. SUFFICES ASSUME IInv PROVE VotesBehindExecuted
        BY Zenon
    <2> DEFINE f == fork_db
               R == Len(f.root)
    <2>1. BlocksOK(blocks) /\ f \in Databases(blocks) /\ TreeOK(f) /\ ValidOK(f)
        BY <2>0, Zenon DEF IInv, DataOK, ForkDbOK
    <2>2. ASSUME NEW b \in f.index,
                 validated_block_exists(f, previous(b), latest_qc_block(b)), latest_qc_block(b) \in f.index
          PROVE  latest_qc_block(b) \in f.valid
        <3> DEFINE p == previous(b)
                   q == qc_claim(b).block_num
                   d == latest_qc_block(b)
        <3>1. has_block(f, b) /\ BlockId(b) /\ f.root \in blocks
            BY <2>1, Fields, BlocksAreIds, Zenon DEF has_block
        <3>2. b \in Ids /\ R \in Nat /\ Len(b) \in Nat /\ R < Len(b) /\ R >= 1
            BY <2>1, <3>1, OnRoot, BlocksAreIds, Zenon
        <3>3. q \in 1..Len(b) /\ q < Len(b) /\ d \in Ids /\ Len(d) = q
            <4>1. Len(b) > 1
                BY <3>2
            <4>2. QED
                BY <3>1, <4>1, ClaimedBlock, Zenon
        <3> HIDE DEF q
        <3>4. Len(b) - 1 \in 0..Len(b) /\ q \in 0 .. Len(b) - 1 /\ q <= Len(b) - 1 /\ R <= Len(b) - 1 /\ q \in Nat
            BY <3>2, <3>3
        <3>5. p = ancestor_at(b, Len(b) - 1)
            BY <3>2, Parents, Zenon
        <3>6. p \in Ids /\ Len(p) = Len(b) - 1 /\ has_block(f, p)
            <4>1. has_block(f, ancestor_at(b, Len(b) - 1)) <=> R <= Len(b) - 1
                BY <2>1, <3>1, <3>4, BranchHas, Zenon
            <4>2. QED
                BY <3>2, <3>4, <3>5, <4>1, Ancestors, Zenon
        <3>7. d = ancestor_at(p, q)
            BY <3>2, <3>4, <3>5, AncestorOfAncestor, Zenon DEF latest_qc_block, q
        <3>8. R < Len(d)
            BY <2>1, <2>2, OnRoot, Zenon DEF has_block
        <3>9. Len(d) > R
            BY <3>2, <3>3, <3>8, ZenonT(30)
        <3>10. d \in Above(p, R)
            BY <3>2, <3>3, <3>4, <3>6, <3>7, <3>9, AboveFacts, Zenon
        <3>11. branch(f, p) = Above(p, R)
            BY <2>1, <3>6, BranchIs, Zenon
        <3>12. PICK c \in Above(p, R) : Len(c) >= Len(d) /\ c \in f.valid
            BY <2>2, <3>10, <3>11, Zenon DEF validated_block_exists, num_from_id
        <3>13. Len(d) <= Len(c)
            <4>1. c \in Ids
                BY <3>2, <3>6, AboveFacts, Zenon
            <4>2. Len(c) \in Nat
                BY <4>1, Heights, Zenon
            <4>3. QED
                BY <3>3, <3>4, <3>12, <4>2, ZenonT(30)
        <3>14. d \in Above(c, R)
            BY <3>2, <3>6, <3>10, <3>13, OnOneBranch, Zenon
        <3>15. QED
            BY <2>1, <3>12, <3>14, Zenon DEF ValidOK
    <2>3. QED
        BY <2>2, Zenon DEF VotesBehindExecuted
<1>2. QED
    BY <1>1, ControllerInvariant, PTL

(* The best branch contains the pending LIB.                               *)
LEMMA LibOnBest ==
    ASSUME NEW bs, BlocksOK(bs), NEW f, ForkDbOK(f, bs),
           NEW c \in f.index, latest_qc_block(c) = f.pending_savanna_lib_id
    PROVE  IsPrefix(f.pending_savanna_lib_id, head(f))
<1> DEFINE lib == f.pending_savanna_lib_id
           h == head(f)
           d == latest_qc_block(h)
<1>1. f \in Databases(bs) /\ PendingOK(f, bs)
    BY Zenon DEF ForkDbOK
<1>2. h \in f.index /\ (h # c => by_best_branch(h, c))
    BY BestHead, Zenon
<1> HIDE DEF h
<1>3. c \in bs /\ h \in bs /\ BlockId(c) /\ BlockId(h) /\ h \in Ids /\ Len(h) \in Nat
    BY <1>1, <1>2, Fields, BlocksAreIds, Zenon
<1>4. lib \in Ids /\ Len(lib) \in 1..Len(c)
    BY <1>3, ClaimedBlock, Zenon
<1>5. lib \in Finalized(bs)
    <2>1. lib # nullid
        <3>1. Len(nullid) = 0
            BY DEF nullid
        <3>2. QED
            BY <1>4, <3>1, SMTT(20)
    <2>2. QED
        BY <1>1, <2>1, Zenon DEF PendingOK
<1>6. latest_qc_block_timestamp(h) >= latest_qc_block_timestamp(c)
    <2>1. CASE h = c
        <3>1. latest_qc_block_timestamp(c) \in Nat
            BY <1>3, Times, Zenon
        <3>2. QED
            BY <2>1, <3>1
    <2>2. CASE h # c
        BY <1>2, <1>3, <2>2, BestOrdered, Zenon
    <2>3. QED
        BY <2>1, <2>2, Zenon
<1>7. timestamp(d) >= timestamp(lib)
    BY <1>6, Zenon DEF latest_qc_block_timestamp
<1>8. d \in Certified(bs)
    BY <1>3, Zenon DEF Certified
<1>9. IsPrefix(lib, d)
    BY <1>5, <1>7, <1>8, Zenon DEF BlocksOK, Guaranteed
<1>10. d \in Ids /\ Len(d) = qc_claim(h).block_num /\ Len(d) \in 0..Len(h)
    BY <1>3, ClaimedBlock, Zenon
<1>11. Len(lib) <= Len(d) /\ ancestor_at(d, Len(lib)) = lib
    BY <1>4, <1>9, <1>10, PrefixIs, Zenon
<1>12. d = ancestor_at(h, Len(d))
    BY <1>10, Zenon DEF latest_qc_block
<1> HIDE DEF d, lib
<1>13. Len(lib) \in 0..Len(d) /\ Len(lib) <= Len(h)
    BY <1>3, <1>4, <1>10, <1>11, Heights, SMTT(20)
<1>14. ancestor_at(h, Len(lib)) = lib
    BY <1>3, <1>10, <1>11, <1>12, <1>13, AncestorOfAncestor, Zenon
<1>15. QED
    BY <1>3, <1>4, <1>13, <1>14, PrefixIs, Zenon DEF lib, h

(* by_best_branch does not lead away from the pending LIB.                 *)
THEOREM BestHeadStaysOnLib == Spec => []BestHeadExtendsLib
<1>1. IInv => BestHeadExtendsLib
    <2>0. SUFFICES ASSUME IInv PROVE BestHeadExtendsLib
        BY Zenon
    <2>1. BlocksOK(blocks) /\ ForkDbOK(fork_db, blocks)
        BY <2>0, Zenon DEF IInv, DataOK
    <2>2. QED
        BY <2>1, LibOnBest, Zenon DEF BestHeadExtendsLib
<1>2. QED
    BY <1>1, ControllerInvariant, PTL

(* A restart gives back the database that was closed.                      *)
THEOREM ReopenAlwaysRestores == Spec => []ReopenRestores
<1>1. IInv => ReopenRestores
    <2>0. SUFFICES ASSUME IInv PROVE ReopenRestores
        BY Zenon
    <2>1. BlocksOK(blocks) /\ ForkDbOK(fork_db, blocks)
        BY <2>0, Zenon DEF IInv, DataOK
    <2>2. QED
        BY <2>1, Reopened, Zenon DEF ReopenRestores
<1>2. QED
    BY <1>1, ControllerInvariant, PTL

(* Only start_block opens a pending block.                                 *)
LEMMA OnlyStartBlock ==
    ASSUME Next, stage = "idle", stage' = "building"
    PROVE  StartBlock
<1>1. "idle" # "building" /\ "idle" # "apply" /\ "idle" # "restore" /\ "building" # "apply" /\ "building" # "restore"
    OBVIOUS
<1>2. ~Idle
    BY <1>1, Zenon DEF Idle
<1>3. stage' # stage
    BY <1>1, Zenon
<1>4. ~(\E parent \in fork_db.index \cup {fork_db.root} : \E n \in Children(parent) : AcceptBlock(n)) /\ ~Restart
    <2>1. ASSUME NEW n, AcceptBlock(n) PROVE FALSE
        BY <1>3, <2>1, ZenonT(30) DEF AcceptBlock, apply_vars
    <2>2. ASSUME Restart PROVE FALSE
        BY <1>3, <2>2 DEF Restart, apply_vars
    <2>3. QED
        BY <2>1, <2>2, Zenon
<1>5. ~(\E n \in Children(chain_head) : ProduceBlock(n) \/ ProduceCannotLog(n))
    BY <1>2, Zenon DEF ProduceBlock, ProduceCannotLog, Produced
<1>6. ~AbortBlock /\ ~EndApply /\ ~EndCannotLog /\ ~Interrupt /\ ~Crash /\ ~RestoreCannotLog
    BY <1>2, Zenon DEF AbortBlock, EndApply, EndCannotLog, Interrupt, Crash, RestoreCannotLog
<1>7. ~ApplyBlock /\ ~ApplyFails /\ ~ApplyCannotLog /\ ~RestoreBlock /\ ~Pause
    BY <1>1, Zenon DEF ApplyBlock, ApplyFails, ApplyCannotLog, RestoreBlock, Pause
<1>8. ~StartApply
    BY <1>1, Zenon DEF StartApply
<1>9. QED
    BY <1>4, <1>5, <1>6, <1>7, <1>8, Zenon DEF Next

(* No pending block is opened on a branch without the pending LIB.         *)
THEOREM ProductionExtendsLib == Spec => ProducedExtendsLib
<1> DEFINE lib == fork_db.pending_savanna_lib_id
           Guard == /\ stage = "idle" /\ stage' = "building"
                    /\ \E c \in fork_db.index : latest_qc_block(c) = lib
<1>1. ASSUME IInv, Next, Guard PROVE IsPrefix(lib, chain_head)
    <2> DEFINE f == fork_db
               id == chain_head
    <2>1. BlocksOK(blocks) /\ ForkDbOK(f, blocks) /\ TreeOK(f) /\ has_block(f, id)
        BY <1>1, Zenon DEF IInv, DataOK, ForkDbOK, HeadOK
    <2>2. PICK c \in f.index : latest_qc_block(c) = lib
        BY <1>1, Zenon
    <2>3. IsPrefix(lib, head(f))
        BY <2>1, <2>2, LibOnBest, Zenon
    <2>4. may_produce(f, id)
        <3>1. StartBlock
            BY <1>1, OnlyStartBlock, Zenon
        <3>2. QED
            BY <3>1, Zenon DEF StartBlock
    <2>5. CASE f.index # {} => head(f) = id
        BY <2>2, <2>3, <2>5, Zenon
    <2>6. id \in Ids /\ Len(id) \in Nat /\ Len(f.root) \in Nat
        BY <2>1, OnRoot, Zenon
    <2>7. CASE lib = id
        <3>1. Len(id) <= Len(id)
            BY <2>6
        <3>2. QED
            BY <2>6, <2>7, <3>1, OwnAncestor, PrefixIs, Zenon
    <2>8. CASE is_descendant_of(f, lib, id)
        <3>1. PICK b \in Above(id, Len(f.root)) : previous(b) = lib
            BY <2>1, <2>8, BranchIs, Zenon DEF is_descendant_of
        <3>2. b \in Ids /\ Len(b) > Len(f.root) /\ Len(b) <= Len(id) /\ ancestor_at(id, Len(b)) = b
            BY <2>6, AboveFacts, Zenon
        <3>3. Len(b) \in Nat
            BY <3>2, Heights, Zenon
        <3> DEFINE k == Len(b) - 1
        <3>4. Len(b) \in 0..Len(id) /\ k \in 0..Len(b) /\ k \in 0..Len(id) /\ k <= Len(id)
            BY <2>6, <3>2, <3>3, SMTT(20)
        <3>5. lib = ancestor_at(b, k)
            BY <3>1, <3>2, Parents, Zenon
        <3> HIDE DEF k
        <3>6. lib = ancestor_at(id, k)
            BY <2>6, <3>2, <3>4, <3>5, AncestorOfAncestor, Zenon
        <3>7. lib \in Ids /\ Len(lib) = k
            BY <2>6, <3>4, <3>6, Ancestors, Zenon
        <3>8. QED
            BY <2>6, <3>4, <3>6, <3>7, PrefixIs, Zenon
    <2>9. QED
        BY <2>4, <2>5, <2>7, <2>8, Zenon DEF may_produce, is_descendant_of_pending_savanna_lib
<1>2. IInv /\ [Next]_vars => [Guard => IsPrefix(lib, chain_head)]_vars
    BY <1>1, Zenon
<1>3. QED
    BY <1>2, ControllerInvariant, PTL DEF Spec, ProducedExtendsLib

=============================================================================
