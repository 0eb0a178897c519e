---------------------------- MODULE ForkDatabase ----------------------------
(***************************************************************************)
(* The fork database: the blocks after the last irreversible block this    *)
(* node has logged (root), kept in an index by id and by parent, and       *)
(* ordered by the branch they make best; and the last irreversible block   *)
(* that QCs carried by blocks have shown (pending_savanna_lib_id).  Every  *)
(* public method holds one mutex, so each is one operator here, from one   *)
(* value of the database to the next.                                      *)
(*                                                                         *)
(* The id of a block is a hash over its header, and the header holds the   *)
(* id of its parent: an id is modelled by the headers of the branch it     *)
(* stands for, oldest first.  A header keeps what the database looks at,   *)
(* its timestamp and its QC claim, and one thing that no header shows:     *)
(* whether executing the block succeeds.                                   *)
(***************************************************************************)
EXTENDS Integers, Sequences, FiniteSets

nullid == << >>

(* block_header::num_from_id; the genesis block has number 1. *)
num_from_id(id) == Len(id)

previous(id) == SubSeq(id, 1, Len(id) - 1)

timestamp(id) == id[Len(id)].timestamp

qc_claim(id) == id[Len(id)].claim

executable(id) == id[Len(id)].executable

(* The ancestor with the block number; the block itself for its own.       *)
ancestor_at(id, num) == SubSeq(id, 1, num)

(* The block x is y or an ancestor of y. *)
IsPrefix(x, y) == Len(x) <= Len(y) /\ x = ancestor_at(y, Len(x))

IsStrictPrefix(x, y) == IsPrefix(x, y) /\ x # y

(* core.get_block_reference(core.latest_qc_claim().block_num) *)
latest_qc_block(id) == ancestor_at(id, qc_claim(id).block_num)

latest_qc_block_timestamp(id) == timestamp(latest_qc_block(id))

(* Mutant: the most recent block is the best. *)
first_preferred_by_time(x, y) ==
    \/ timestamp(x) > timestamp(y)
    \/ timestamp(x) = timestamp(y) /\ latest_qc_block_timestamp(x) > latest_qc_block_timestamp(y)

(* by_best_branch, but for blocks that only their ids tell apart.          *)
first_preferred(x, y) ==
    \/ latest_qc_block_timestamp(x) > latest_qc_block_timestamp(y)
    \/ /\ latest_qc_block_timestamp(x) = latest_qc_block_timestamp(y)
       /\ timestamp(x) > timestamp(y)

(* The order of ids is any fixed order; this one compares the headers in   *)
(* which the branches differ first, by what a header keeps.                *)
header_key(h) ==
    << IF h.executable THEN 0 ELSE 1, h.timestamp, h.claim.block_num, IF h.claim.is_strong_qc THEN 1 ELSE 0 >>

header_greater(g, h) ==
    \E i \in 1..4 : /\ header_key(g)[i] > header_key(h)[i]
                    /\ \A j \in 1..(i - 1) : header_key(g)[j] = header_key(h)[j]

id_greater(x, y) ==
    \/ IsStrictPrefix(y, x)
    \/ \E i \in 1..Len(x) : /\ i <= Len(y)
                            /\ ancestor_at(x, i - 1) = ancestor_at(y, i - 1)
                            /\ header_greater(x[i], y[i])

by_best_branch(x, y) ==
    first_preferred(x, y) \/ (~first_preferred(y, x) /\ id_greater(x, y))

-----------------------------------------------------------------------------
(* Queries *)

(* The blocks from h back to the root, the root left out.  Branches are    *)
(* sets here: the code keeps them in the order of their block numbers.     *)
branch(f, h) ==
    {ancestor_at(h, n) : n \in {m \in 1..Len(h) : \A k \in m..Len(h) : ancestor_at(h, k) \in f.index}}

highest(blocks) == CHOOSE b \in blocks : \A c \in blocks : num_from_id(c) <= num_from_id(b)

lowest(blocks) == CHOOSE b \in blocks : \A c \in blocks : num_from_id(b) <= num_from_id(c)

(* get_block with include_root_t::yes *)
has_block(f, id) == id = f.root \/ id \in f.index

head(f) == CHOOSE b \in f.index : \A c \in f.index \ {b} : by_best_branch(b, c)

search_on_branch(f, h, num) == {b \in branch(f, h) : num_from_id(b) = num}

(* The part of h's branch up to b; empty when b is not on it.              *)
fetch_branch(f, h, b) ==
    {c \in branch(f, h) : b \in branch(f, h) /\ num_from_id(c) <= num_from_id(b)}

is_descendant_of(f, ancestor, descendant) ==
    \E b \in branch(f, descendant) : previous(b) = ancestor

is_descendant_of_pending_savanna_lib(f, id) ==
    f.pending_savanna_lib_id = id \/ is_descendant_of(f, f.pending_savanna_lib_id, id)

(* The loops of fetch_branch_from: both branches down to one height, and   *)
(* from there down to blocks with the same parent.                         *)
fetch_branch_from(f, first, second) ==
    LET low    == IF Len(first) < Len(second) THEN Len(first) ELSE Len(second)
        same   == ancestor_at(first, low) = ancestor_at(second, low)
        joined == {n \in 1..low : ancestor_at(first, n - 1) = ancestor_at(second, n - 1)}
        bottom == IF same THEN low + 1 ELSE CHOOSE n \in joined : \A m \in joined : m <= n
        down_to(id) == {ancestor_at(id, n) : n \in bottom..Len(id)}
    IN  [first |-> down_to(first), second |-> down_to(second)]

(* Mutant: the search does not stop at the claimed block. *)
validated_block_exists_below(f, id, claimed) ==
    \E b \in branch(f, id) : b \in f.valid

(* A block of the branch from id back to claimed has been validated.       *)
validated_block_exists(f, id, claimed) ==
    LET upto == {b \in branch(f, id) : num_from_id(b) >= num_from_id(claimed)}
    IN  \/ \E b \in upto : b \in f.valid
        \/ claimed \notin branch(f, id) /\ (branch(f, id) # {} \/ id = f.root)

-----------------------------------------------------------------------------
(* Updates *)

set_pending_savanna_lib_id(f, id) ==
    IF num_from_id(id) > num_from_id(f.pending_savanna_lib_id)
    THEN [f EXCEPT !.pending_savanna_lib_id = id]
    ELSE f

(* A strong QC claim makes the block final that the claimed block claims.  *)
(* The claimed block must still be in the index.  Mutant: the claimed      *)
(* block is taken for final itself.                                        *)
with_carried_qc_one_chain(f, n) ==
    LET claimed == search_on_branch(f, previous(n), qc_claim(n).block_num)
    IN  IF /\ qc_claim(n).is_strong_qc
           /\ qc_claim(n).block_num > num_from_id(f.pending_savanna_lib_id)
           /\ claimed # {}
        THEN set_pending_savanna_lib_id(f, CHOOSE b \in claimed : TRUE)
        ELSE f

with_carried_qc(f, n) ==
    LET claimed == search_on_branch(f, previous(n), qc_claim(n).block_num)
    IN  IF /\ qc_claim(n).is_strong_qc
           /\ qc_claim(n).block_num > num_from_id(f.pending_savanna_lib_id)
           /\ claimed # {}
        THEN set_pending_savanna_lib_id(f, latest_qc_block(CHOOSE b \in claimed : TRUE))
        ELSE f

(* The claim is looked at before it is known whether the block links.      *)
add(f, n) ==
    LET g == with_carried_qc(f, n)
    IN  IF has_block(f, previous(n)) THEN [g EXCEPT !.index = @ \cup {n}] ELSE g

set_valid(f, id) == [f EXCEPT !.valid = @ \cup {id}]

keep(f, blocks) == [f EXCEPT !.index = blocks, !.valid = @ \cap blocks]

(* Mutant: nothing is removed. *)
remove_nothing(f, id) == f

(* The block and everything built on it.                                   *)
remove(f, id) ==
    keep(f, {b \in f.index \ {id} :
                ~(IsPrefix(id, b) /\ \A n \in Len(id) + 1 .. Len(b) : ancestor_at(b, n) \in f.index)})

(* The new root leaves the index alone; its ancestors leave it with all    *)
(* that is built on them.                                                  *)
advance_root(f, id) ==
    [keep(f, {b \in f.index : IsStrictPrefix(id, b)}) EXCEPT !.root = id]

advance_root_throws(f, id) == id \notin f.index \/ id \notin f.valid

reset_root(id) == [root |-> id, pending_savanna_lib_id |-> nullid, index |-> {}, valid |-> {}]

(* The blocks one after the other, each once. *)
orders(blocks) ==
    {s \in [1 .. Cardinality(blocks) -> blocks] : \A i, j \in DOMAIN s : i # j => s[i] # s[j]}

(* Mutant: the best block is written, and read back, first. *)
saved_order_best_first(f) ==
    CHOOSE s \in orders(f.index) : \A i, j \in DOMAIN s : i < j => by_best_branch(s[i], s[j])

(* close writes the blocks worst first, so that parents come first.        *)
saved_order(f) ==
    CHOOSE s \in orders(f.index) : \A i, j \in DOMAIN s : i < j => by_best_branch(s[j], s[i])

opened(f) == set_pending_savanna_lib_id(reset_root(f.root), f.pending_savanna_lib_id)

(* open adds the saved blocks one by one; one that does not link ends the  *)
(* loading.                                                                *)
reopened(f) ==
    LET order == saved_order(f)
        flagged(g, n) == IF n \in f.valid /\ n \in g.index THEN set_valid(g, n) ELSE g
        load(acc, n) ==
            IF acc.threw THEN acc
            ELSE [f |-> flagged(add(acc.f, n), n), threw |-> ~has_block(acc.f, previous(n))]
        loaded[i \in 0 .. Len(order)] ==
            IF i = 0 THEN [f |-> opened(f), threw |-> FALSE] ELSE load(loaded[i - 1], order[i])
    IN  loaded[Len(order)].f

=============================================================================
