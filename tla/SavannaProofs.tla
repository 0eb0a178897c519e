---------------------------- MODULE SavannaProofs ----------------------------
(***************************************************************************)
(* The finalizers of Savanna keep the rules of SafetyRules, for any number *)
(* of nodes and keys, any tree of blocks, and any failures but the loss of *)
(* a safety file; so the chain they finalize has no forks.                 *)
(*                                                                         *)
(* The first part is about values, not about a state: bl is a tree of      *)
(* blocks, vs a set of votes, nd a node and f a safety file.  The finality *)
(* cores of a tree answer for the branch of their block; in such a tree, a *)
(* finalizer that decides with information that stands for its votes keeps *)
(* the rules, and what it remembers stands for its votes again, in memory, *)
(* in the safety file and after a restart.  The second part shows that all *)
(* states of Savanna are such, and what follows for the chain.             *)
(***************************************************************************)
EXTENDS Savanna, TLAPS

LinkType == [source_block_num : Nat, target_block_num : Nat, is_link_strong : BOOLEAN]

Claims == [block_num : Nat, is_strong_qc : BOOLEAN]

(* The core of block number n, whose references are among Refs: links and  *)
(* references are numbered without gaps, up to n and to n - 1, the claims  *)
(* only grow, and the latest is among the blocks referenced.               *)
SoundCore(c, n, Refs) ==
    LET f == front_link(c).source_block_num
        l == last_final_block_num(c)
    IN  /\ c.links \in Seq(LinkType)
        /\ c.refs \in Seq(Refs)
        /\ f \in 1 .. n
        /\ l \in 1 .. f
        /\ Len(c.links) = (n - f) + 1
        /\ Len(c.refs) = n - l
        /\ \A i \in 1 .. Len(c.links) :
              /\ c.links[i].source_block_num = (f + i) - 1
              /\ c.links[i].target_block_num \in l .. c.links[i].source_block_num
        /\ \A i, j \in 1 .. Len(c.links) :
              i <= j => c.links[i].target_block_num <= c.links[j].target_block_num
        /\ \A i \in 1 .. Len(c.refs) : c.refs[i].block_id.num = (l + i) - 1
        /\ latest_qc_claim(c).block_num \in f .. n
        /\ c.refs # << >> => latest_qc_claim(c).block_num < n

-----------------------------------------------------------------------------
(* Numbers *)

(* What the provers of the later steps need to know of numbers. *)
LEMMA NumberOrder ==
    ASSUME NEW x \in Nat, NEW y \in Nat
    PROVE  /\ x < y => x # y
           /\ x <= y => x < y \/ x = y
           /\ x \in 1 .. 1 => x = 1
OBVIOUS

(* Counting down from a number. *)
LEMMA CountDown ==
    ASSUME NEW m \in Nat, NEW x \in Nat, NEW y \in Nat, x <= m, y <= m
    PROVE  /\ m - x \in Nat
           /\ ~(m - y < m - x) => y <= x
OBVIOUS

-----------------------------------------------------------------------------
(* The cores of the blocks *)

(* Dropping the first n elements of a vector leaves the others in order:   *)
(* the garbage collection of finality_core::next.                          *)
LEMMA DropFront ==
    ASSUME NEW S, NEW s \in Seq(S), NEW n \in 0 .. Len(s)
    PROVE  /\ drop_front(s, n) \in Seq(S)
           /\ Len(drop_front(s, n)) = Len(s) - n
           /\ \A i \in 1 .. Len(s) - n : drop_front(s, n)[i] = s[i + n]
BY DEF drop_front

(* The new first link and last final block are among the old ones. *)
LEMMA NewNumbers ==
    ASSUME NEW c, NEW n \in Nat, NEW Refs, SoundCore(c, n, Refs),
           NEW claim \in Claims, claim.block_num \in latest_qc_claim(c).block_num .. n
    PROVE  LET f   == front_link(c).source_block_num
               l   == last_final_block_num(c)
               new == get_new_block_numbers(c, claim)
           IN  /\ new.front_source \in f .. claim.block_num
               /\ new.last_final \in l .. new.front_source
               /\ c.links[(new.front_source - f) + 1].target_block_num = new.last_final
<1> DEFINE f   == front_link(c).source_block_num
           l   == last_final_block_num(c)
           new == get_new_block_numbers(c, claim)
           i   == (claim.block_num - f) + 1
<1>1. /\ f \in 1 .. n /\ l \in 1 .. f
      /\ Len(c.links) = (n - f) + 1
      /\ latest_qc_claim(c).block_num \in f .. n
      /\ \A j \in 1 .. Len(c.links) :
            /\ c.links[j].source_block_num = (f + j) - 1
            /\ c.links[j].target_block_num \in l .. c.links[j].source_block_num
    BY Zenon DEF SoundCore
<1>2. f \in Int /\ l \in Int /\ claim.block_num \in Int /\ claim.block_num \in f .. n
    BY <1>1
<1>3. CASE claim.is_strong_qc
    <2>1. i \in 1 .. Len(c.links) /\ (f + i) - 1 = claim.block_num
        BY <1>1, <1>2
    <2>2. c.links[i].source_block_num = claim.block_num /\ c.links[i].target_block_num \in l .. claim.block_num
        BY <1>1, <2>1, Zenon
    <2>3. new.front_source = c.links[i].source_block_num /\ new.last_final = c.links[i].target_block_num
        BY <1>3, Zenon DEF get_new_block_numbers, get_qc_link_from
    <2>4. QED
        BY <1>2, <2>2, <2>3
<1>4. CASE ~claim.is_strong_qc
    <2>1. new.front_source = f /\ new.last_final = l
        BY <1>4, Zenon DEF get_new_block_numbers
    <2>2. (f - f) + 1 = 1
        BY <1>2
    <2>3. c.links[1].target_block_num = l
        BY Zenon DEF last_final_block_num, front_link
    <2>4. QED
        BY <1>1, <1>2, <2>1, <2>2, <2>3, SMTT(20)
<1>5. QED
    BY <1>3, <1>4, Zenon

(* The links of the next core. *)
LEMMA NextLinks ==
    ASSUME NEW c, NEW n \in Nat, NEW Refs, SoundCore(c, n, Refs),
           NEW claim \in Claims, claim.block_num \in latest_qc_claim(c).block_num .. n
    PROVE  LET g     == get_new_block_numbers(c, claim).front_source
               links == next_links(c, claim)
           IN  /\ links \in Seq(LinkType)
               /\ Len(links) = (n - g) + 2
               /\ \A i \in 1 .. (n - g) + 1 : links[i] = c.links[i + (g - front_link(c).source_block_num)]
               /\ links[(n - g) + 2] = qc_link(n + 1, claim.block_num, claim.is_strong_qc)
<1> DEFINE f     == front_link(c).source_block_num
           g     == get_new_block_numbers(c, claim).front_source
           kept  == drop_front(c.links, g - f)
           last  == qc_link(current_block_num(c) + 1, claim.block_num, claim.is_strong_qc)
           links == next_links(c, claim)
<1>1. /\ f \in 1 .. n
      /\ c.links \in Seq(LinkType)
      /\ Len(c.links) = (n - f) + 1
      /\ latest_qc_claim(c).block_num \in f .. n
      /\ \A j \in 1 .. Len(c.links) : c.links[j].source_block_num = (f + j) - 1
    BY Zenon DEF SoundCore
<1>2. f \in Int /\ g \in f .. n /\ g \in Int
    <2>1. g \in f .. claim.block_num
        BY NewNumbers, Zenon
    <2>2. QED
        BY <1>1, <2>1
<1>3. current_block_num(c) = n
    <2>1. Len(c.links) \in 1 .. Len(c.links) /\ (f + Len(c.links)) - 1 = n
        <3>1. Len(c.links) = (n - f) + 1 /\ f \in 1 .. n
            BY <1>1, Zenon
        <3> HIDE DEF f
        <3>2. QED
            BY <3>1
    <2>2. QED
        BY <1>1, <2>1, Zenon DEF current_block_num, back_link
<1>4. links = Append(kept, last)
    BY Zenon DEF next_links
<1>5. g - f \in 0 .. Len(c.links)
    BY <1>1, <1>2
<1>6. /\ kept \in Seq(LinkType)
      /\ Len(kept) = Len(c.links) - (g - f)
      /\ \A i \in 1 .. Len(c.links) - (g - f) : kept[i] = c.links[i + (g - f)]
    BY <1>1, <1>5, DropFront, Zenon
<1>7. Len(c.links) - (g - f) = (n - g) + 1
    BY <1>1, <1>2
<1>8. last \in LinkType /\ last = qc_link(n + 1, claim.block_num, claim.is_strong_qc)
    BY <1>3 DEF LinkType, Claims, qc_link
<1> HIDE DEF kept, last, links, f, g
<1>9. /\ links \in Seq(LinkType) /\ Len(links) = (n - g) + 2
      /\ \A i \in 1 .. (n - g) + 1 : links[i] = kept[i]
      /\ links[(n - g) + 2] = last
    BY <1>2, <1>4, <1>6, <1>7, <1>8
<1>10. \A i \in 1 .. (n - g) + 1 : links[i] = c.links[i + (g - f)]
    BY <1>6, <1>7, <1>9, Zenon
<1>11. QED
    BY <1>8, <1>9, <1>10, Zenon DEF links, f, g

(* The references of the next core. *)
LEMMA NextRefs ==
    ASSUME NEW c, NEW n \in Nat, NEW Refs, SoundCore(c, n, Refs),
           NEW claim \in Claims, claim.block_num \in latest_qc_claim(c).block_num .. n,
           NEW ref, ref.block_id.num = n
    PROVE  LET m    == get_new_block_numbers(c, claim).last_final
               refs == next_refs(c, ref, claim)
           IN  /\ refs \in Seq(Refs \cup {ref})
               /\ Len(refs) = (n - m) + 1
               /\ \A i \in 1 .. Len(refs) : refs[i].block_id.num = (m + i) - 1
<1> DEFINE f    == front_link(c).source_block_num
           l    == last_final_block_num(c)
           m    == get_new_block_numbers(c, claim).last_final
           kept == drop_front(c.refs, m - l)
           refs == next_refs(c, ref, claim)
<1>1. /\ f \in 1 .. n /\ l \in 1 .. f
      /\ c.refs \in Seq(Refs)
      /\ Len(c.refs) = n - l
      /\ \A i \in 1 .. Len(c.refs) : c.refs[i].block_id.num = (l + i) - 1
    BY Zenon DEF SoundCore
<1>2. l \in Int /\ m \in l .. n /\ m \in Int
    <2>1. /\ get_new_block_numbers(c, claim).front_source \in f .. claim.block_num
          /\ m \in l .. get_new_block_numbers(c, claim).front_source
        BY NewNumbers, Zenon
    <2>2. f \in Int /\ l \in Int /\ claim.block_num \in Int /\ claim.block_num <= n
        BY <1>1 DEF SoundCore
    <2>3. QED
        BY <2>1, <2>2
<1>3. refs = Append(kept, ref)
    BY Zenon DEF next_refs
<1>4. m - l \in 0 .. Len(c.refs)
    BY <1>1, <1>2
<1>5. /\ kept \in Seq(Refs)
      /\ Len(kept) = n - m
      /\ \A i \in 1 .. n - m : kept[i] = c.refs[i + (m - l)]
    <2>1. Len(c.refs) - (m - l) = n - m
        BY <1>1, <1>2
    <2>2. /\ kept \in Seq(Refs)
          /\ Len(kept) = Len(c.refs) - (m - l)
          /\ \A i \in 1 .. Len(c.refs) - (m - l) : kept[i] = c.refs[i + (m - l)]
        BY <1>1, <1>4, DropFront, Zenon
    <2>3. QED
        BY <2>1, <2>2, Zenon
<1> HIDE DEF kept, refs, l, m, f
<1>6. ASSUME NEW i \in 1 .. n - m
      PROVE  kept[i].block_id.num = (m + i) - 1
    <2>1. i + (m - l) \in 1 .. Len(c.refs) /\ (l + (i + (m - l))) - 1 = (m + i) - 1
        BY <1>1, <1>2
    <2>2. QED
        BY <1>1, <1>5, <2>1, Zenon
<1>7. kept \in Seq(Refs \cup {ref})
    BY <1>5
<1>8. /\ refs \in Seq(Refs \cup {ref}) /\ Len(refs) = (n - m) + 1
      /\ \A i \in 1 .. n - m : refs[i] = kept[i]
      /\ refs[(n - m) + 1] = ref
    BY <1>2, <1>3, <1>5, <1>7
<1>9. ASSUME NEW i \in 1 .. Len(refs)
      PROVE  refs[i].block_id.num = (m + i) - 1
    <2>1. CASE i \in 1 .. n - m
        BY <1>6, <1>8, <2>1, Zenon
    <2>2. CASE i = (n - m) + 1
        <3>1. (m + i) - 1 = n
            BY <1>2, <2>2
        <3>2. QED
            BY <1>8, <2>2, <3>1, Zenon
    <2>3. i \in 1 .. n - m \/ i = (n - m) + 1
        BY <1>2, <1>8
    <2>4. QED
        BY <2>1, <2>2, <2>3, Zenon
<1>10. QED
    BY <1>8, <1>9, Zenon DEF refs, m

(* finality_core::next gives a sound core, whose latest claim is the one   *)
(* of the block.                                                           *)
LEMMA NextCore ==
    ASSUME NEW c, NEW n \in Nat, NEW Refs, SoundCore(c, n, Refs),
           NEW claim \in Claims, claim.block_num \in latest_qc_claim(c).block_num .. n,
           NEW ref, ref.block_id.num = n
    PROVE  /\ SoundCore(next(c, ref, claim), n + 1, Refs \cup {ref})
           /\ latest_qc_claim(next(c, ref, claim)).block_num = claim.block_num
           /\ next(c, ref, claim).refs # << >>
<1> DEFINE f == front_link(c).source_block_num
           l == last_final_block_num(c)
           g == get_new_block_numbers(c, claim).front_source
           m == get_new_block_numbers(c, claim).last_final
           d == next(c, ref, claim)
<1>1. d.links = next_links(c, claim) /\ d.refs = next_refs(c, ref, claim)
    BY Zenon DEF next
<1>2. /\ f \in 1 .. n /\ l \in 1 .. f
      /\ Len(c.links) = (n - f) + 1
      /\ latest_qc_claim(c).block_num \in f .. n
      /\ \A j \in 1 .. Len(c.links) :
            /\ c.links[j].source_block_num = (f + j) - 1
            /\ c.links[j].target_block_num \in l .. c.links[j].source_block_num
      /\ \A i, j \in 1 .. Len(c.links) : i <= j => c.links[i].target_block_num <= c.links[j].target_block_num
    BY Zenon DEF SoundCore
<1>3. /\ g \in f .. claim.block_num /\ m \in l .. g
      /\ c.links[(g - f) + 1].target_block_num = m
    BY NewNumbers, Zenon
<1>4. f \in Int /\ l \in Int /\ g \in Int /\ m \in Int /\ claim.block_num \in Int /\ claim.block_num <= n
    BY <1>2, <1>3
<1>5. /\ d.links \in Seq(LinkType)
      /\ Len(d.links) = (n - g) + 2
      /\ \A i \in 1 .. (n - g) + 1 : d.links[i] = c.links[i + (g - f)]
      /\ d.links[(n - g) + 2] = qc_link(n + 1, claim.block_num, claim.is_strong_qc)
    <2>1. /\ next_links(c, claim) \in Seq(LinkType)
          /\ Len(next_links(c, claim)) = (n - g) + 2
          /\ \A i \in 1 .. (n - g) + 1 : next_links(c, claim)[i] = c.links[i + (g - f)]
          /\ next_links(c, claim)[(n - g) + 2] = qc_link(n + 1, claim.block_num, claim.is_strong_qc)
        BY NextLinks
    <2> HIDE DEF d, f, g
    <2>2. QED
        BY <1>1, <2>1, Zenon
<1>6. /\ d.refs \in Seq(Refs \cup {ref})
      /\ Len(d.refs) = (n - m) + 1
      /\ \A i \in 1 .. Len(d.refs) : d.refs[i].block_id.num = (m + i) - 1
    <2>1. /\ next_refs(c, ref, claim) \in Seq(Refs \cup {ref})
          /\ Len(next_refs(c, ref, claim)) = (n - m) + 1
          /\ \A i \in 1 .. Len(next_refs(c, ref, claim)) :
                next_refs(c, ref, claim)[i].block_id.num = (m + i) - 1
        BY NextRefs, SMTT(20)
    <2> HIDE DEF d, m
    <2>2. QED
        BY <1>1, <2>1, Zenon
<1> HIDE DEF d, f, l, g, m
<1>7. front_link(d).source_block_num = g /\ last_final_block_num(d) = m
    <2>1. 1 \in 1 .. (n - g) + 1 /\ 1 + (g - f) = (g - f) + 1 /\ (g - f) + 1 \in 1 .. Len(c.links)
        BY <1>2, <1>3, <1>4
    <2>2. d.links[1] = c.links[(g - f) + 1]
        BY <1>5, <2>1, Zenon
    <2>3. (f + ((g - f) + 1)) - 1 = g
        BY <1>4
    <2>4. c.links[(g - f) + 1].source_block_num = g
        BY <1>2, <2>1, <2>3, Zenon
    <2>5. QED
        BY <1>3, <2>2, <2>4, Zenon DEF front_link, last_final_block_num
<1>8. latest_qc_claim(d).block_num = claim.block_num
    BY <1>5 DEF latest_qc_claim, back_link, qc_link, qc_claim_t
<1>9. ASSUME NEW i \in 1 .. Len(d.links)
      PROVE  /\ d.links[i].source_block_num = (g + i) - 1
             /\ d.links[i].target_block_num \in m .. d.links[i].source_block_num
    <2>1. CASE i \in 1 .. (n - g) + 1
        <3>1. i + (g - f) \in 1 .. Len(c.links) /\ (f + (i + (g - f))) - 1 = (g + i) - 1
            BY <1>2, <1>3, <1>4, <2>1
        <3>2. (g - f) + 1 \in 1 .. Len(c.links) /\ (g - f) + 1 <= i + (g - f)
            BY <1>2, <1>3, <1>4, <2>1
        <3>3. d.links[i] = c.links[i + (g - f)]
            BY <1>5, <2>1, Zenon
        <3>4. /\ c.links[i + (g - f)].source_block_num = (g + i) - 1
              /\ c.links[i + (g - f)].target_block_num \in l .. (g + i) - 1
              /\ m <= c.links[i + (g - f)].target_block_num
            BY <1>2, <1>3, <3>1, <3>2, Zenon
        <3>5. QED
            BY <1>4, <3>3, <3>4
    <2>2. CASE i = (n - g) + 2
        <3>1. d.links[i].source_block_num = n + 1 /\ d.links[i].target_block_num = claim.block_num
            BY <1>5, <2>2 DEF qc_link
        <3>2. (g + i) - 1 = n + 1 /\ claim.block_num \in m .. n + 1
            BY <1>3, <1>4, <2>2
        <3>3. QED
            BY <3>1, <3>2, Zenon
    <2>3. i \in 1 .. (n - g) + 1 \/ i = (n - g) + 2
        BY <1>4, <1>5
    <2>4. QED
        BY <2>1, <2>2, <2>3, Zenon
<1>10. ASSUME NEW i \in 1 .. Len(d.links), NEW j \in 1 .. Len(d.links), i <= j
       PROVE  d.links[i].target_block_num <= d.links[j].target_block_num
    <2>1. CASE j \in 1 .. (n - g) + 1
        <3>1. /\ i \in 1 .. (n - g) + 1
              /\ i + (g - f) \in 1 .. Len(c.links) /\ j + (g - f) \in 1 .. Len(c.links)
              /\ i + (g - f) <= j + (g - f)
            BY <1>2, <1>3, <1>4, <1>5, <1>10, <2>1
        <3>2. d.links[i] = c.links[i + (g - f)] /\ d.links[j] = c.links[j + (g - f)]
            BY <1>5, <2>1, <3>1, Zenon
        <3>3. QED
            BY <1>2, <3>1, <3>2, Zenon
    <2>2. CASE j = (n - g) + 2 /\ i # j
        <3>a. /\ Len(d.links) = (n - g) + 2 /\ Len(c.links) = (n - f) + 1
              /\ f <= g /\ g <= n
            BY <1>2, <1>3, <1>4, <1>5
        <3>1. i \in 1 .. (n - g) + 1 /\ i + (g - f) \in 1 .. Len(c.links)
            BY <1>4, <3>a, <2>2
        <3>2. d.links[i] = c.links[i + (g - f)]
            BY <1>5, <3>1, Zenon
        <3>3. d.links[j].target_block_num = claim.block_num
            BY <1>5, <2>2 DEF qc_link
        <3>4. latest_qc_claim(c).block_num = c.links[Len(c.links)].target_block_num
            BY Zenon DEF latest_qc_claim, qc_claim_t, back_link
        <3>5. Len(c.links) \in 1 .. Len(c.links) /\ i + (g - f) <= Len(c.links)
            BY <3>1
        <3>6. c.links[i + (g - f)].target_block_num <= latest_qc_claim(c).block_num
            BY <1>2, <3>1, <3>4, <3>5, Zenon
        <3>b. (f + (i + (g - f))) - 1 \in Int
            BY <1>4, <3>1
        <3>7. c.links[i + (g - f)].target_block_num \in Int
            BY <1>2, <1>4, <3>1, <3>b
        <3>8. QED
            BY <1>2, <1>4, <3>2, <3>3, <3>6, <3>7, SMTT(20)
    <2>3. CASE i = j
        <3>1. d.links[i].target_block_num \in Int
            BY <1>4, <1>9
        <3>2. QED
            BY <2>3, <3>1
    <2>4. QED
        BY <1>5, <1>4, <2>1, <2>2, <2>3
<1>11. claim.block_num \in g .. n + 1 /\ claim.block_num < n + 1 /\ g \in 1 .. n + 1 /\ m \in 1 .. g
       /\ ((n + 1) - g) + 1 = (n - g) + 2 /\ (n + 1) - m = (n - m) + 1 /\ (n - m) + 1 > 0
    BY <1>2, <1>3, <1>4
<1>12. SoundCore(d, n + 1, Refs \cup {ref})
    BY <1>5, <1>6, <1>7, <1>8, <1>9, <1>10, <1>11 DEF SoundCore
<1>13. d.refs # << >>
    BY <1>6, <1>11
<1>14. QED
    BY <1>8, <1>12, <1>13, Zenon DEF d

(* The core of the genesis block: create_core_for_genesis_block. *)
LEMMA GenesisCore ==
    ASSUME NEW id, id.num = 1, NEW time
    PROVE  SoundCore(create_core_for_genesis_block(id, time), 1, {})
<1> DEFINE c == create_core_for_genesis_block(id, time)
<1>1. c.links = << qc_link(1, 1, FALSE) >> /\ c.refs = << >>
    BY Zenon DEF create_core_for_genesis_block, num_from_id
<1>2. PICK k \in LinkType : k = qc_link(1, 1, FALSE)
    <2>1. qc_link(1, 1, FALSE) \in LinkType
        BY Zenon DEF qc_link, LinkType
    <2>2. QED
        BY <2>1, Zenon
<1>3. k.source_block_num = 1 /\ k.target_block_num = 1
    BY <1>2, Zenon DEF qc_link
<1> HIDE DEF c
<1>4. c.links = << k >>
    BY <1>1, <1>2, Zenon
<1>5. Len(c.links) = 1 /\ c.links[1] = k /\ c.links \in Seq(LinkType)
    BY <1>4
<1>6. /\ front_link(c).source_block_num = 1 /\ last_final_block_num(c) = 1
      /\ latest_qc_claim(c).block_num = 1
    BY <1>3, <1>5, Zenon DEF front_link, last_final_block_num, latest_qc_claim, back_link, qc_claim_t
<1>7. SoundCore(c, 1, {})
    <2>1. c.refs \in Seq({}) /\ Len(c.refs) = 0
        BY <1>1
    <2>2. /\ front_link(c).source_block_num \in 1 .. 1
          /\ last_final_block_num(c) \in 1 .. front_link(c).source_block_num
          /\ latest_qc_claim(c).block_num \in front_link(c).source_block_num .. 1
          /\ Len(c.links) = (1 - front_link(c).source_block_num) + 1
          /\ Len(c.refs) = 1 - last_final_block_num(c)
        BY <1>5, <1>6, <2>1
    <2>3. \A i \in 1 .. Len(c.links) :
              /\ c.links[i].source_block_num = (front_link(c).source_block_num + i) - 1
              /\ c.links[i].target_block_num \in last_final_block_num(c) .. c.links[i].source_block_num
        BY <1>3, <1>5, <1>6
    <2>4. \A i, j \in 1 .. Len(c.links) :
              i <= j => c.links[i].target_block_num <= c.links[j].target_block_num
        BY <1>3, <1>5
    <2>5. \A i \in 1 .. Len(c.refs) : c.refs[i].block_id.num = (last_final_block_num(c) + i) - 1
        BY <2>1
    <2>6. QED
        BY <1>1, <1>5, <2>1, <2>2, <2>3, <2>4, <2>5, Zenon DEF SoundCore
<1>8. QED
    BY <1>7, Zenon DEF c

(* A core refers to every block from the last final one to its parent: the *)
(* answer of get_block_reference is the one with the number asked for.     *)
LEMMA CoreReference ==
    ASSUME NEW c, NEW n \in Nat, NEW Refs, SoundCore(c, n, Refs),
           NEW num \in Nat, last_final_block_num(c) <= num, num < n
    PROVE  /\ get_block_reference(c, num) \in Refs
           /\ get_block_reference(c, num).block_id.num = num
<1> DEFINE l == last_final_block_num(c)
           i == (num - l) + 1
<1>1. /\ l \in Int
      /\ c.refs \in Seq(Refs) /\ Len(c.refs) = n - l
      /\ \A j \in 1 .. Len(c.refs) : c.refs[j].block_id.num = (l + j) - 1
    <2>1. l \in 1 .. front_link(c).source_block_num
        BY Zenon DEF SoundCore
    <2>2. l \in Int
        BY <2>1
    <2>3. /\ c.refs \in Seq(Refs) /\ Len(c.refs) = n - l
          /\ \A j \in 1 .. Len(c.refs) : c.refs[j].block_id.num = (l + j) - 1
        BY Zenon DEF SoundCore
    <2>4. QED
        BY <2>2, <2>3, Zenon
<1>2. get_block_reference(c, num) = c.refs[i]
    BY Zenon DEF get_block_reference
<1> HIDE DEF l
<1>3. i \in 1 .. Len(c.refs) /\ (l + i) - 1 = num
    BY <1>1 DEF l
<1>4. c.refs[i] \in Refs
    BY <1>1, <1>3
<1>5. QED
    BY <1>1, <1>2, <1>3, <1>4, Zenon

(* The numbers of the last final block and of the latest claim. *)
LEMMA CoreNumbers ==
    ASSUME NEW c, NEW n \in Nat, NEW Refs, SoundCore(c, n, Refs)
    PROVE  /\ last_final_block_num(c) \in 1 .. n
           /\ latest_qc_claim(c).block_num \in last_final_block_num(c) .. n
           /\ c.refs # << >> => latest_qc_claim(c).block_num < n
           /\ current_block_num(c) = n
<1> DEFINE f == front_link(c).source_block_num
           l == last_final_block_num(c)
<1>1. /\ f \in 1 .. n /\ l \in 1 .. f
      /\ Len(c.links) = (n - f) + 1
      /\ latest_qc_claim(c).block_num \in f .. n
      /\ \A j \in 1 .. Len(c.links) : c.links[j].source_block_num = (f + j) - 1
      /\ c.refs # << >> => latest_qc_claim(c).block_num < n
    BY Zenon DEF SoundCore
<1>2. l \in 1 .. n /\ latest_qc_claim(c).block_num \in l .. n
    BY <1>1
<1>3. current_block_num(c) = n
    <2>1. Len(c.links) = (n - f) + 1 /\ f \in 1 .. n
        BY <1>1, Zenon
    <2>2. Len(c.links) \in 1 .. Len(c.links) /\ (f + Len(c.links)) - 1 = n
        <3> HIDE DEF f
        <3>1. QED
            BY <2>1
    <2>3. QED
        BY <1>1, <2>2, Zenon DEF current_block_num, back_link
<1>4. QED
    BY <1>1, <1>2, <1>3, Zenon

(* A core only extends blocks it refers to. *)
LEMMA CoreExtends ==
    ASSUME NEW c, NEW n \in Nat, NEW Refs, SoundCore(c, n, Refs),
           NEW id, id.num \in Nat, extends(c, id)
    PROVE  \E r \in Refs : r.block_id = id
<1>1. /\ last_final_block_num(c) <= id.num /\ id.num < n
      /\ get_block_reference(c, id.num).block_id = id
    BY CoreNumbers, Zenon DEF extends, num_from_id
<1>2. get_block_reference(c, id.num) \in Refs
    BY <1>1, CoreReference, Zenon
<1>3. QED
    BY <1>1, <1>2, Zenon

(* A core has a first link, and its latest claim is one. *)
LEMMA CoreLinks ==
    ASSUME NEW c, NEW n \in Nat, NEW Refs, SoundCore(c, n, Refs)
    PROVE  1 \in 1 .. Len(c.links) /\ latest_qc_claim(c) \in Claims
<1>1. c.links \in Seq(LinkType) /\ 1 \in 1 .. Len(c.links)
    BY SMTT(20) DEF SoundCore
<1>2. back_link(c) \in LinkType
    BY <1>1, SMTT(20) DEF back_link
<1>3. QED
    BY <1>1, <1>2, SMTT(20) DEF latest_qc_claim, qc_claim_t, LinkType, Claims

(* A core d of block number n + 1 that claims its parent, whose reference  *)
(* is ref.                                                                 *)
ClaimsParent(d, n, Refs, ref) ==
    /\ SoundCore(d, n + 1, Refs \cup {ref})
    /\ latest_qc_block_timestamp(d) = ref.timestamp
    /\ get_block_reference(d, latest_qc_claim(d).block_num) = ref
    /\ extends(d, ref.block_id)

(* finality_core::next with a claim on the parent. *)
LEMMA ParentIsClaimed ==
    ASSUME NEW c, NEW n \in Nat, NEW Refs, SoundCore(c, n, Refs), \A r \in Refs : r.block_id.num # n,
           NEW claim \in Claims, claim.block_num = n, NEW ref, ref.block_id.num = n
    PROVE  ClaimsParent(next(c, ref, claim), n, Refs, ref)
<1> DEFINE d == next(c, ref, claim)
<1>1. n \in latest_qc_claim(c).block_num .. n
    <2>1. last_final_block_num(c) \in 1 .. n /\ latest_qc_claim(c).block_num \in last_final_block_num(c) .. n
        BY CoreNumbers, Zenon
    <2>2. QED
        BY <2>1
<1>2. /\ SoundCore(d, n + 1, Refs \cup {ref})
      /\ latest_qc_claim(d).block_num = n
      /\ d.refs # << >>
    BY <1>1, NextCore, ZenonT(30)
<1> HIDE DEF d
<1>3. n + 1 \in Nat /\ n < n + 1
    OBVIOUS
<1>4. /\ last_final_block_num(d) \in 1 .. n + 1 /\ n \in last_final_block_num(d) .. n + 1
      /\ current_block_num(d) = n + 1
    BY <1>2, <1>3, CoreNumbers, Zenon
<1>5. last_final_block_num(d) <= n
    BY <1>4
<1>6. get_block_reference(d, n) \in Refs \cup {ref} /\ get_block_reference(d, n).block_id.num = n
    BY <1>2, <1>3, <1>5, CoreReference, Zenon
<1>7. get_block_reference(d, n) = ref
    BY <1>6, Zenon
<1>8. back_link(d).target_block_num = n
    BY <1>2, Zenon DEF latest_qc_claim, qc_claim_t
<1>9. latest_qc_block_timestamp(d) = ref.timestamp
    BY <1>2, <1>7, <1>8, Zenon DEF latest_qc_block_timestamp, is_genesis_core
<1>10. extends(d, ref.block_id)
    BY <1>3, <1>4, <1>5, <1>7, Zenon DEF extends, num_from_id
<1>11. ClaimsParent(d, n, Refs, ref)
    BY <1>2, <1>7, <1>9, <1>10, Zenon DEF ClaimsParent
<1>12. QED
    BY <1>11, Zenon DEF d

-----------------------------------------------------------------------------
(* The tree of blocks *)

TimeIn(bl, b) == bl[b].ref.timestamp

BranchIn(bl, b) == bl[b].ancestors \cup {b}

AncestorIn(bl, b, num) == CHOOSE a \in BranchIn(bl, b) : a.num = num

ClaimNum(bl, b) == latest_qc_claim(bl[b].core).block_num

ClaimIn(bl, b) == AncestorIn(bl, b, ClaimNum(bl, b))

(* A block of the tree, given the others: its ancestors form a chain back  *)
(* to the genesis block, numbers, times and claims grow along it, and the  *)
(* finality core is sound.                                                 *)
BlockOK(bl, b) ==
    /\ b \in BlockIds
    /\ bl[b].ref.block_id = b
    /\ TimeIn(bl, b) \in Nat
    /\ TimeIn(bl, b) >= 1
    /\ b # genesis => /\ genesis \in bl[b].ancestors
                      /\ bl[b].core.refs # << >>
                      /\ TimeIn(bl, b) <= MaxTime
    /\ bl[b].ancestors \subseteq DOMAIN bl
    /\ SoundCore(bl[b].core, b.num, {bl[a].ref : a \in bl[b].ancestors})
    /\ \A a \in bl[b].ancestors :
          /\ a.num < b.num
          /\ TimeIn(bl, a) < TimeIn(bl, b)
          /\ ClaimNum(bl, a) <= ClaimNum(bl, b)
          /\ bl[a].ancestors \subseteq bl[b].ancestors
    /\ \A a, c \in bl[b].ancestors : a = c \/ a \in bl[c].ancestors \/ c \in bl[a].ancestors

TreeOK(bl) ==
    /\ genesis \in DOMAIN bl
    /\ bl[genesis].ancestors = {}
    /\ TimeIn(bl, genesis) = 1
    /\ \A b \in DOMAIN bl : BlockOK(bl, b)

(* Block numbers are positive: only the empty reference has number 0.      *)
LEMMA BlockNumbers == \A b \in BlockIds : b.num \in Nat /\ b.num >= 1
BY MaxBlockNumAssumption DEF BlockIds, genesis

(* No block is later than the last slot, the first one included. *)
LEMMA BlockTimes ==
    ASSUME NEW bl, TreeOK(bl), NEW b \in DOMAIN bl
    PROVE  TimeIn(bl, b) \in Nat /\ TimeIn(bl, b) <= MaxTime
<1>1. /\ TimeIn(bl, b) \in Nat /\ (b # genesis => TimeIn(bl, b) <= MaxTime)
      /\ TimeIn(bl, genesis) = 1
    BY Zenon DEF TreeOK, BlockOK
<1>2. 1 <= MaxTime
    BY MaxBlockNumAssumption
<1>3. QED
    BY <1>1, <1>2, Zenon

(* The blocks of a branch form a chain. *)
LEMMA BranchIsChain ==
    ASSUME NEW bl, TreeOK(bl), NEW b \in DOMAIN bl
    PROVE  /\ BranchIn(bl, b) \subseteq DOMAIN bl
           /\ \A a, c \in BranchIn(bl, b) : a = c \/ a \in bl[c].ancestors \/ c \in bl[a].ancestors
           /\ \A a \in BranchIn(bl, b) : BranchIn(bl, a) \subseteq BranchIn(bl, b)
           /\ \A a \in BranchIn(bl, b) : TimeIn(bl, a) <= TimeIn(bl, b)
           /\ \A a \in BranchIn(bl, b) : ClaimNum(bl, a) <= ClaimNum(bl, b)
<1>1. BlockOK(bl, b) /\ \A a \in DOMAIN bl : TimeIn(bl, a) \in Nat
    BY Zenon DEF TreeOK, BlockOK
<1>2. ClaimNum(bl, b) \in Int
    <2>1. SoundCore(bl[b].core, b.num, {bl[a].ref : a \in bl[b].ancestors}) /\ b.num \in Nat
        BY <1>1, BlockNumbers, Zenon DEF BlockOK
    <2>2. last_final_block_num(bl[b].core) \in 1 .. b.num
          /\ latest_qc_claim(bl[b].core).block_num \in last_final_block_num(bl[b].core) .. b.num
        BY <2>1, CoreNumbers, Zenon
    <2>3. QED
        BY <2>2 DEF ClaimNum
<1>3. BranchIn(bl, b) \subseteq DOMAIN bl
    BY <1>1, Zenon DEF BlockOK, BranchIn
<1>4. ASSUME NEW a \in BranchIn(bl, b), NEW c \in BranchIn(bl, b)
      PROVE  a = c \/ a \in bl[c].ancestors \/ c \in bl[a].ancestors
    BY <1>1, <1>4, Zenon DEF BlockOK, BranchIn
<1>5. ASSUME NEW a \in BranchIn(bl, b)
      PROVE  /\ BranchIn(bl, a) \subseteq BranchIn(bl, b)
             /\ TimeIn(bl, a) <= TimeIn(bl, b)
             /\ ClaimNum(bl, a) <= ClaimNum(bl, b)
    <2>1. CASE a = b
        BY <1>1, <1>2, <2>1
    <2>2. CASE a \in bl[b].ancestors
        <3>1. /\ TimeIn(bl, a) < TimeIn(bl, b)
              /\ ClaimNum(bl, a) <= ClaimNum(bl, b)
              /\ bl[a].ancestors \subseteq bl[b].ancestors
            BY <1>1, <2>2, Zenon DEF BlockOK
        <3>2. TimeIn(bl, a) <= TimeIn(bl, b)
            BY <1>1, <1>3, <3>1
        <3>3. QED
            BY <2>2, <3>1, <3>2, Zenon DEF BranchIn
    <2>3. QED
        BY <1>5, <2>1, <2>2 DEF BranchIn
<1>6. QED
    BY <1>3, <1>4, <1>5, Zenon

(* A branch has one block of each number, the more recent ones have larger *)
(* numbers, and AncestorIn finds the block asked for.                      *)
LEMMA BranchNumbers ==
    ASSUME NEW bl, TreeOK(bl), NEW b \in DOMAIN bl
    PROVE  /\ \A a, c \in BranchIn(bl, b) : a.num = c.num => a = c
           /\ \A a, c \in BranchIn(bl, b) : a.num <= c.num => TimeIn(bl, a) <= TimeIn(bl, c)
           /\ \A a, c \in BranchIn(bl, b) : TimeIn(bl, a) <= TimeIn(bl, c) => a \in BranchIn(bl, c)
           /\ \A a \in BranchIn(bl, b) : AncestorIn(bl, b, a.num) = a
<1>1. ASSUME NEW a \in BranchIn(bl, b), NEW c \in BranchIn(bl, b)
      PROVE  /\ a.num \in Nat /\ c.num \in Nat
             /\ TimeIn(bl, a) \in Nat /\ TimeIn(bl, c) \in Nat
             /\ \/ a = c
                \/ a \in bl[c].ancestors /\ a.num < c.num /\ TimeIn(bl, a) < TimeIn(bl, c)
                \/ c \in bl[a].ancestors /\ c.num < a.num /\ TimeIn(bl, c) < TimeIn(bl, a)
    <2>1. a \in DOMAIN bl /\ c \in DOMAIN bl
        BY BranchIsChain, Zenon
    <2>2. BlockOK(bl, a) /\ BlockOK(bl, c)
        BY <2>1, Zenon DEF TreeOK
    <2>3. a = c \/ a \in bl[c].ancestors \/ c \in bl[a].ancestors
        BY BranchIsChain, Zenon
    <2>4. QED
        BY <2>2, <2>3, BlockNumbers, Zenon DEF BlockOK
<1>2. ASSUME NEW a \in BranchIn(bl, b), NEW c \in BranchIn(bl, b)
      PROVE  /\ a.num = c.num => a = c
             /\ a.num <= c.num => TimeIn(bl, a) <= TimeIn(bl, c)
             /\ TimeIn(bl, a) <= TimeIn(bl, c) => a \in BranchIn(bl, c)
    BY <1>1, <1>2 DEF BranchIn
<1>3. ASSUME NEW a \in BranchIn(bl, b)
      PROVE  AncestorIn(bl, b, a.num) = a
    <2>1. AncestorIn(bl, b, a.num) \in BranchIn(bl, b) /\ AncestorIn(bl, b, a.num).num = a.num
        BY <1>3, Zenon DEF AncestorIn
    <2>2. QED
        BY <1>2, <1>3, <2>1, Zenon
<1>4. QED
    BY <1>2, <1>3, Zenon

(* A branch has a block of every number from the last final block on.      *)
LEMMA BranchHasNumber ==
    ASSUME NEW bl, TreeOK(bl), NEW b \in DOMAIN bl,
           NEW num \in Nat, last_final_block_num(bl[b].core) <= num, num <= b.num
    PROVE  /\ AncestorIn(bl, b, num) \in BranchIn(bl, b)
           /\ AncestorIn(bl, b, num).num = num
           /\ num < b.num => /\ AncestorIn(bl, b, num) \in bl[b].ancestors
                             /\ get_block_reference(bl[b].core, num) = bl[AncestorIn(bl, b, num)].ref
<1>1. /\ BlockOK(bl, b) /\ b.num \in Nat
      /\ SoundCore(bl[b].core, b.num, {bl[a].ref : a \in bl[b].ancestors})
    BY BlockNumbers, Zenon DEF TreeOK, BlockOK
<1>2. CASE num = b.num
    <2>1. b \in BranchIn(bl, b)
        BY Zenon DEF BranchIn
    <2>2. AncestorIn(bl, b, b.num) = b
        BY <2>1, BranchNumbers, Zenon
    <2>3. QED
        BY <1>1, <1>2, <2>1, <2>2
<1>3. CASE num < b.num
    <2> DEFINE r == get_block_reference(bl[b].core, num)
    <2>1. r \in {bl[a].ref : a \in bl[b].ancestors} /\ r.block_id.num = num
        BY <1>1, <1>3, CoreReference, Zenon
    <2>2. PICK a \in bl[b].ancestors : r = bl[a].ref
        BY <2>1, Zenon
    <2>3. a \in BranchIn(bl, b) /\ a \in DOMAIN bl
        BY <1>1, <2>2, Zenon DEF BranchIn, BlockOK
    <2>4. bl[a].ref.block_id = a
        BY <2>3, Zenon DEF TreeOK, BlockOK
    <2>5. a.num = num
        BY <2>1, <2>2, <2>4
    <2>6. AncestorIn(bl, b, num) = a
        BY <2>3, <2>5, BranchNumbers
    <2>7. QED
        BY <2>2, <2>3, <2>5, <2>6
<1>4. QED
    BY <1>1, <1>2, <1>3

(* The latest claim of a block is on an ancestor, and what decide_vote     *)
(* reads from the core is that ancestor's reference and timestamp.         *)
LEMMA ClaimFacts ==
    ASSUME NEW bl, TreeOK(bl), NEW b \in DOMAIN bl
    PROVE  /\ ClaimIn(bl, b) \in BranchIn(bl, b)
           /\ ClaimIn(bl, b) \in DOMAIN bl
           /\ ClaimIn(bl, b).num = ClaimNum(bl, b)
           /\ ClaimNum(bl, b) \in 1 .. b.num
           /\ b # genesis =>
                 /\ ClaimIn(bl, b) \in bl[b].ancestors
                 /\ latest_qc_block_timestamp(bl[b].core) = TimeIn(bl, ClaimIn(bl, b))
                 /\ latest_qc_claim__block_ref(bl[b]) = ref_of(bl[ClaimIn(bl, b)].ref)
<1> DEFINE c   == bl[b].core
           num == ClaimNum(bl, b)
<1>1. /\ BlockOK(bl, b) /\ b.num \in Nat
      /\ SoundCore(c, b.num, {bl[a].ref : a \in bl[b].ancestors})
    BY BlockNumbers, Zenon DEF TreeOK, BlockOK
<1>2. /\ last_final_block_num(c) \in 1 .. b.num
      /\ num \in last_final_block_num(c) .. b.num
      /\ c.refs # << >> => num < b.num
    BY <1>1, CoreNumbers, Zenon DEF ClaimNum
<1>3. num \in Nat /\ num \in 1 .. b.num /\ last_final_block_num(c) <= num /\ num <= b.num
    BY <1>1, <1>2
<1>4. /\ ClaimIn(bl, b) \in BranchIn(bl, b)
      /\ ClaimIn(bl, b).num = num
      /\ num < b.num => /\ ClaimIn(bl, b) \in bl[b].ancestors
                        /\ get_block_reference(c, num) = bl[ClaimIn(bl, b)].ref
    <2>1. ClaimIn(bl, b) = AncestorIn(bl, b, num)
        BY Zenon DEF ClaimIn
    <2> HIDE DEF num, c
    <2>2. /\ AncestorIn(bl, b, num) \in BranchIn(bl, b)
          /\ AncestorIn(bl, b, num).num = num
          /\ num < b.num => /\ AncestorIn(bl, b, num) \in bl[b].ancestors
                            /\ get_block_reference(c, num) = bl[AncestorIn(bl, b, num)].ref
        BY <1>3, BranchHasNumber, Zenon DEF c
    <2>3. QED
        BY <2>1, <2>2, Zenon
<1>5. ClaimIn(bl, b) \in DOMAIN bl
    BY <1>4, BranchIsChain, Zenon
<1>6. ASSUME b # genesis
      PROVE  /\ ClaimIn(bl, b) \in bl[b].ancestors
             /\ latest_qc_block_timestamp(c) = TimeIn(bl, ClaimIn(bl, b))
             /\ latest_qc_claim__block_ref(bl[b]) = ref_of(bl[ClaimIn(bl, b)].ref)
    <2>1. c.refs # << >>
        BY <1>1, <1>6, Zenon DEF BlockOK
    <2>2. /\ ClaimIn(bl, b) \in bl[b].ancestors
          /\ get_block_reference(c, num) = bl[ClaimIn(bl, b)].ref
        BY <1>2, <1>4, <2>1
    <2>3. num = back_link(c).target_block_num /\ num = latest_qc_claim(c).block_num
        BY Zenon DEF ClaimNum, latest_qc_claim, qc_claim_t
    <2> HIDE DEF num, c
    <2>4. latest_qc_block_timestamp(c) = TimeIn(bl, ClaimIn(bl, b))
        BY <2>1, <2>2, <2>3 DEF latest_qc_block_timestamp, is_genesis_core, TimeIn
    <2>5. latest_qc_claim__block_ref(bl[b]) = ref_of(bl[ClaimIn(bl, b)].ref)
        BY <2>2, <2>3, Zenon DEF latest_qc_claim__block_ref, c
    <2>6. QED
        BY <2>2, <2>4, <2>5
<1>7. QED
    BY <1>3, <1>4, <1>5, <1>6

(* extends of finality_core only answers for ancestors. *)
LEMMA ExtendsAncestor ==
    ASSUME NEW bl, TreeOK(bl), NEW b \in DOMAIN bl, NEW a \in DOMAIN bl,
           extends(bl[b].core, a)
    PROVE  a \in bl[b].ancestors
<1>1. /\ BlockOK(bl, b) /\ b.num \in Nat /\ a.num \in Nat
      /\ SoundCore(bl[b].core, b.num, {bl[x].ref : x \in bl[b].ancestors})
    BY BlockNumbers, Zenon DEF TreeOK, BlockOK
<1>2. PICK r \in {bl[x].ref : x \in bl[b].ancestors} : r.block_id = a
    <2> DEFINE Refs == {bl[x].ref : x \in bl[b].ancestors}
    <2> HIDE DEF Refs
    <2>1. SoundCore(bl[b].core, b.num, Refs)
        BY <1>1, Zenon DEF Refs
    <2>2. \E r \in Refs : r.block_id = a
        BY <1>1, <2>1, CoreExtends
    <2>3. QED
        BY <2>2, Zenon DEF Refs
<1>3. PICK x \in bl[b].ancestors : r = bl[x].ref
    BY <1>2, Zenon
<1>4. bl[x].ref.block_id = x
    <2>1. x \in DOMAIN bl
        BY <1>1, <1>3, Zenon DEF BlockOK
    <2>2. QED
        BY <2>1, Zenon DEF TreeOK, BlockOK
<1>5. QED
    BY <1>2, <1>3, <1>4

(* Claims only get more recent along a branch. *)
LEMMA ClaimsGrow ==
    ASSUME NEW bl, TreeOK(bl), NEW b \in DOMAIN bl, NEW a \in BranchIn(bl, b)
    PROVE  TimeIn(bl, ClaimIn(bl, a)) <= TimeIn(bl, ClaimIn(bl, b))
<1>1. /\ a \in DOMAIN bl /\ BranchIn(bl, a) \subseteq BranchIn(bl, b)
      /\ ClaimNum(bl, a) <= ClaimNum(bl, b)
    BY BranchIsChain, Zenon
<1>2. ClaimIn(bl, a) \in BranchIn(bl, b) /\ ClaimIn(bl, b) \in BranchIn(bl, b)
    BY <1>1, ClaimFacts, Zenon
<1>3. ClaimIn(bl, a).num <= ClaimIn(bl, b).num
    BY <1>1, ClaimFacts, Zenon
<1>4. QED
    BY <1>2, <1>3, BranchNumbers

(* The tree only grows. *)
Extended(bl, bl2) == DOMAIN bl \subseteq DOMAIN bl2 /\ \A b \in DOMAIN bl : bl2[b] = bl[b]

(* A block is what it was after others are added. *)
LEMMA OldBlocks ==
    ASSUME NEW bl, NEW bl2, Extended(bl, bl2), NEW b \in DOMAIN bl
    PROVE  /\ TimeIn(bl2, b) = TimeIn(bl, b)
           /\ BranchIn(bl2, b) = BranchIn(bl, b)
           /\ ClaimNum(bl2, b) = ClaimNum(bl, b)
           /\ \A num : AncestorIn(bl2, b, num) = AncestorIn(bl, b, num)
           /\ ClaimIn(bl2, b) = ClaimIn(bl, b)
<1>1. bl2[b] = bl[b]
    BY Zenon DEF Extended
<1>2. /\ TimeIn(bl2, b) = TimeIn(bl, b)
      /\ BranchIn(bl2, b) = BranchIn(bl, b)
      /\ ClaimNum(bl2, b) = ClaimNum(bl, b)
    BY <1>1, Zenon DEF TimeIn, BranchIn, ClaimNum
<1>3. ASSUME NEW num
      PROVE  AncestorIn(bl2, b, num) = AncestorIn(bl, b, num)
    BY <1>2, Zenon DEF AncestorIn
<1>4. QED
    BY <1>2, <1>3, Zenon DEF ClaimIn

(* ... and the tree stays sound for it. *)
LEMMA OldBlocksOK ==
    ASSUME NEW bl, TreeOK(bl), NEW bl2, Extended(bl, bl2), NEW b \in DOMAIN bl
    PROVE  BlockOK(bl2, b)
<1>1. BlockOK(bl, b) /\ bl[b].ancestors \subseteq DOMAIN bl
    BY Zenon DEF TreeOK, BlockOK
<1>2. bl2[b] = bl[b] /\ TimeIn(bl2, b) = TimeIn(bl, b) /\ ClaimNum(bl2, b) = ClaimNum(bl, b)
    BY OldBlocks DEF Extended
<1>3. \A a \in bl[b].ancestors : /\ bl2[a] = bl[a]
                                 /\ TimeIn(bl2, a) = TimeIn(bl, a)
                                 /\ ClaimNum(bl2, a) = ClaimNum(bl, a)
    BY <1>1, OldBlocks DEF Extended
<1>4. {bl2[a].ref : a \in bl2[b].ancestors} = {bl[a].ref : a \in bl[b].ancestors}
    BY <1>2, <1>3, Zenon
<1>5. SoundCore(bl2[b].core, b.num, {bl2[a].ref : a \in bl2[b].ancestors})
    BY <1>1, <1>2, <1>4, Zenon DEF BlockOK
<1>6. bl2[b].ancestors \subseteq DOMAIN bl2
    BY <1>1, <1>2 DEF Extended
<1>7. \A a \in bl2[b].ancestors :
          /\ a.num < b.num
          /\ TimeIn(bl2, a) < TimeIn(bl2, b)
          /\ ClaimNum(bl2, a) <= ClaimNum(bl2, b)
          /\ bl2[a].ancestors \subseteq bl2[b].ancestors
    BY <1>1, <1>2, <1>3 DEF BlockOK
<1>8. \A a, c \in bl2[b].ancestors : a = c \/ a \in bl2[c].ancestors \/ c \in bl2[a].ancestors
    BY <1>1, <1>2, <1>3 DEF BlockOK
<1>9. QED
    BY <1>1, <1>2, <1>5, <1>6, <1>7, <1>8 DEF BlockOK

(* block_header_state::next: a block on any parent with any claim that the *)
(* controller accepts keeps the tree sound, and its latest claim is on the *)
(* block of that number on the branch of the parent.                       *)
LEMMA TreeGrows ==
    ASSUME NEW bl, TreeOK(bl), NEW parent \in DOMAIN bl,
           NEW id \in BlockIds, id \notin DOMAIN bl, id.num = parent.num + 1,
           NEW time \in 2 .. MaxTime, time > TimeIn(bl, parent),
           NEW claim \in Claims, claim.block_num \in ClaimNum(bl, parent) .. parent.num,
           NEW bl2, Extended(bl, bl2), DOMAIN bl2 = DOMAIN bl \cup {id},
           bl2[id].ref = block_ref(id, time, 1, 0),
           bl2[id].core = next(bl[parent].core, bl[parent].ref, claim),
           bl2[id].ancestors = BranchIn(bl, parent)
    PROVE  /\ TreeOK(bl2)
           /\ TimeIn(bl2, id) = time
           /\ ClaimIn(bl2, id) = AncestorIn(bl, parent, claim.block_num)
           /\ AncestorIn(bl, parent, claim.block_num) \in BranchIn(bl, parent)
<1> DEFINE core == bl[parent].core
           anc  == BranchIn(bl, parent)
<1>1. /\ BlockOK(bl, parent)
      /\ parent \in BlockIds /\ parent.num \in Nat /\ parent.num >= 1 /\ id.num \in Nat
      /\ SoundCore(core, parent.num, {bl[a].ref : a \in bl[parent].ancestors})
      /\ bl[parent].ref.block_id = parent
    BY BlockNumbers, Zenon DEF TreeOK, BlockOK
<1>2. {bl2[a].ref : a \in anc} = {bl[a].ref : a \in bl[parent].ancestors} \cup {bl[parent].ref}
    <2>1. anc \subseteq DOMAIN bl
        BY BranchIsChain, Zenon
    <2>2. {bl2[a].ref : a \in anc} = {bl[a].ref : a \in anc}
        BY <2>1 DEF Extended
    <2>3. QED
        BY <2>2, Zenon DEF BranchIn
<1>3. /\ SoundCore(bl2[id].core, id.num, {bl2[a].ref : a \in bl2[id].ancestors})
      /\ ClaimNum(bl2, id) = claim.block_num
      /\ bl2[id].core.refs # << >>
    <2> DEFINE Refs == {bl[a].ref : a \in bl[parent].ancestors}
               ref  == bl[parent].ref
    <2>1. SoundCore(core, parent.num, Refs) /\ parent.num \in Nat /\ ref.block_id.num = parent.num
        BY <1>1, Zenon
    <2>2. claim.block_num \in latest_qc_claim(core).block_num .. parent.num
        BY Zenon DEF ClaimNum
    <2> HIDE DEF Refs, ref, core
    <2>3. /\ SoundCore(next(core, ref, claim), parent.num + 1, Refs \cup {ref})
          /\ latest_qc_claim(next(core, ref, claim)).block_num = claim.block_num
          /\ next(core, ref, claim).refs # << >>
        BY <2>1, <2>2, NextCore, ZenonT(30)
    <2>4. {bl2[a].ref : a \in bl2[id].ancestors} = Refs \cup {ref}
        BY <1>2, Zenon DEF Refs, ref
    <2>5. bl2[id].core = next(core, ref, claim)
        BY Zenon DEF core, ref
    <2>6. QED
        BY <2>3, <2>4, <2>5, Zenon DEF ClaimNum
<1>4. bl2[id].ref.block_id = id /\ TimeIn(bl2, id) = time
    BY DEF block_ref, TimeIn
<1>5. \A a \in anc : /\ a \in DOMAIN bl
                     /\ TimeIn(bl2, a) = TimeIn(bl, a)
                     /\ BranchIn(bl2, a) = BranchIn(bl, a)
                     /\ ClaimNum(bl2, a) = ClaimNum(bl, a)
                     /\ bl2[a] = bl[a]
    <2>1. anc \subseteq DOMAIN bl
        BY BranchIsChain
    <2>2. QED
        BY <2>1, OldBlocks DEF Extended
<1>6. ASSUME NEW a \in anc
      PROVE  /\ a.num < id.num
             /\ TimeIn(bl2, a) < TimeIn(bl2, id)
             /\ ClaimNum(bl2, a) <= ClaimNum(bl2, id)
             /\ bl2[a].ancestors \subseteq bl2[id].ancestors
    <2>1. a.num \in Nat /\ TimeIn(bl, a) \in Nat /\ TimeIn(bl, parent) \in Nat
        BY <1>5, BlockNumbers, Zenon DEF TreeOK, BlockOK
    <2>2. a.num <= parent.num
        BY <1>1, <2>1 DEF BranchIn, BlockOK
    <2>3. /\ TimeIn(bl, a) <= TimeIn(bl, parent)
          /\ ClaimNum(bl, a) <= ClaimNum(bl, parent)
          /\ BranchIn(bl, a) \subseteq BranchIn(bl, parent)
        BY BranchIsChain, Zenon
    <2>4. ClaimNum(bl, a) \in Int /\ ClaimNum(bl, parent) \in Int
        BY <1>1, <1>5, <2>1, ClaimFacts
    <2>5. TimeIn(bl2, a) < TimeIn(bl2, id)
        BY <1>4, <1>5, <2>1, <2>3
    <2>6. ClaimNum(bl2, a) <= ClaimNum(bl2, id)
        BY <1>3, <1>5, <2>3, <2>4
    <2>7. bl2[a].ancestors \subseteq bl2[id].ancestors
        BY <1>5, <2>3 DEF BranchIn
    <2>8. QED
        BY <1>1, <2>1, <2>2, <2>5, <2>6, <2>7
<1>7. ASSUME NEW a \in anc, NEW c \in anc
      PROVE  a = c \/ a \in bl2[c].ancestors \/ c \in bl2[a].ancestors
    BY <1>5, BranchIsChain, ZenonT(30)
<1>8. id # genesis /\ genesis \in anc
    BY <1>1, ZenonT(30) DEF TreeOK, BlockOK, BranchIn
<1>9. BlockOK(bl2, id)
    <2>1. time \in Nat /\ time >= 1 /\ time <= MaxTime
        BY MaxBlockNumAssumption
    <2>2. bl2[id].ancestors \subseteq DOMAIN bl2
        BY <1>5, Zenon
    <2>3. QED
        BY <1>3, <1>4, <1>6, <1>7, <1>8, <2>1, <2>2, ZenonT(30) DEF BlockOK
<1>10. TreeOK(bl2)
    <2>1. genesis \in DOMAIN bl /\ bl2[genesis] = bl[genesis]
        BY Zenon DEF TreeOK, Extended
    <2>2. \A b \in DOMAIN bl : BlockOK(bl2, b)
        BY OldBlocksOK, Zenon
    <2>3. QED
        BY <1>9, <2>1, <2>2 DEF TreeOK, TimeIn
<1>11. /\ AncestorIn(bl, parent, claim.block_num) \in BranchIn(bl, parent)
       /\ AncestorIn(bl, parent, claim.block_num).num = claim.block_num
    <2>1. /\ last_final_block_num(core) \in 1 .. parent.num
          /\ ClaimNum(bl, parent) \in last_final_block_num(core) .. parent.num
        BY <1>1, CoreNumbers DEF ClaimNum
    <2>2. /\ claim.block_num \in Nat /\ last_final_block_num(core) <= claim.block_num
          /\ claim.block_num <= parent.num
        BY <1>1, <2>1 DEF Claims
    <2>3. QED
        BY <2>2, BranchHasNumber
<1>12. ClaimIn(bl2, id) = AncestorIn(bl, parent, claim.block_num)
    <2>1. AncestorIn(bl, parent, claim.block_num) \in BranchIn(bl2, id) /\ id \in DOMAIN bl2
        BY <1>11, Zenon DEF BranchIn
    <2>2. AncestorIn(bl2, id, claim.block_num) = AncestorIn(bl, parent, claim.block_num)
        BY <1>10, <1>11, <2>1, BranchNumbers
    <2>3. QED
        BY <1>3, <2>2, Zenon DEF ClaimIn
<1>13. QED
    BY <1>4, <1>10, <1>11, <1>12

-----------------------------------------------------------------------------
(* What a core says of final blocks *)

(* finality_core::next: a strong claim moves the front link to the claimed *)
(* block, a weak one leaves it; every other link is one of the parent's.   *)
FinalizesByTwoChain(c, d, n, claim) ==
    /\ claim.is_strong_qc => front_link(d).source_block_num = claim.block_num
    /\ ~claim.is_strong_qc => front_link(d) = front_link(c)
    /\ Len(d.links) \in Nat /\ Len(d.links) > 1
    /\ \A i \in 1 .. Len(d.links) - 1 : \E j \in 1 .. Len(c.links) : d.links[i] = c.links[j]
    /\ d.links[Len(d.links)].source_block_num = n + 1
    /\ d.links[Len(d.links)].target_block_num = claim.block_num
    /\ latest_qc_claim(d).block_num = claim.block_num
    /\ latest_qc_claim(d).is_strong_qc = claim.is_strong_qc
    /\ 1 \in 1 .. Len(c.links)

(* That is what finality_core::next computes. *)
LEMMA NextFinal ==
    ASSUME NEW c, NEW n \in Nat, NEW Refs, SoundCore(c, n, Refs),
           NEW claim \in Claims, claim.block_num \in latest_qc_claim(c).block_num .. n,
           NEW ref, ref.block_id.num = n, NEW d, d = next(c, ref, claim)
    PROVE  FinalizesByTwoChain(c, d, n, claim)
<1> DEFINE f == front_link(c).source_block_num
           g == get_new_block_numbers(c, claim).front_source
           k == claim.block_num
<1>1. d.links = next_links(c, claim)
    BY Zenon DEF next
<1>2. /\ f \in 1 .. n /\ Len(c.links) = (n - f) + 1
      /\ latest_qc_claim(c).block_num \in f .. n
      /\ \A j \in 1 .. Len(c.links) : c.links[j].source_block_num = (f + j) - 1
    BY Zenon DEF SoundCore
<1>3. g \in f .. k
    BY NewNumbers, ZenonT(30)
<1>4. f \in Int /\ g \in Int /\ k \in Int /\ f <= g /\ g <= k /\ k <= n
    BY <1>2, <1>3
<1>5. /\ Len(d.links) = (n - g) + 2
      /\ \A i \in 1 .. (n - g) + 1 : d.links[i] = c.links[i + (g - f)]
      /\ d.links[(n - g) + 2] = qc_link(n + 1, k, claim.is_strong_qc)
    <2>1. /\ Len(next_links(c, claim)) = (n - g) + 2
          /\ \A i \in 1 .. (n - g) + 1 : next_links(c, claim)[i] = c.links[i + (g - f)]
          /\ next_links(c, claim)[(n - g) + 2] = qc_link(n + 1, k, claim.is_strong_qc)
        BY NextLinks
    <2> HIDE DEF f, g, k
    <2>2. QED
        BY <1>1, <2>1, ZenonT(30)
<1>6. ASSUME claim.is_strong_qc PROVE g = k
    <2>1. g = c.links[(k - f) + 1].source_block_num
        BY <1>6, Zenon DEF get_new_block_numbers, get_qc_link_from
    <2> HIDE DEF f, g, k
    <2>2. (k - f) + 1 \in 1 .. Len(c.links) /\ (f + ((k - f) + 1)) - 1 = k
        BY <1>2, <1>4
    <2>3. QED
        BY <1>2, <2>1, <2>2, Zenon
<1>7. ASSUME ~claim.is_strong_qc PROVE g = f
    BY <1>7, Zenon DEF get_new_block_numbers
<1> HIDE DEF f, g, k
<1>8. d.links[1] = c.links[1 + (g - f)] /\ 1 + (g - f) \in 1 .. Len(c.links)
    BY <1>2, <1>4, <1>5
<1>9. (f + (1 + (g - f))) - 1 = g /\ (g = f => 1 + (g - f) = 1)
    BY <1>4
<1>10. front_link(d).source_block_num = g /\ (g = f => front_link(d) = front_link(c))
    BY <1>2, <1>8, <1>9, ZenonT(30) DEF front_link
<1>11. Len(d.links) \in Nat /\ Len(d.links) > 1 /\ Len(d.links) - 1 = (n - g) + 1
    BY <1>4, <1>5
<1>12. \A i \in 1 .. Len(d.links) - 1 : \E j \in 1 .. Len(c.links) : d.links[i] = c.links[j]
    <2> SUFFICES ASSUME NEW i \in 1 .. (n - g) + 1
                 PROVE  \E j \in 1 .. Len(c.links) : d.links[i] = c.links[j]
        BY <1>11, ZenonT(30)
    <2>1. i + (g - f) \in 1 .. Len(c.links)
        BY <1>2, <1>4, SMTT(20)
    <2>2. QED
        BY <1>5, <2>1, Zenon
<1>13. PICK link, s : /\ link = d.links[Len(d.links)] /\ s = claim.is_strong_qc
                      /\ link = qc_link(n + 1, k, s)
    BY <1>5, Zenon
<1>14. link.source_block_num = n + 1 /\ link.target_block_num = k /\ link.is_link_strong = s
    BY <1>13 DEF qc_link
<1>15. PICK t : t = link.is_link_strong /\ latest_qc_claim(d) = qc_claim_t(link.target_block_num, t)
    BY <1>13, Zenon DEF latest_qc_claim, back_link
<1>16. latest_qc_claim(d).block_num = k /\ latest_qc_claim(d).is_strong_qc = t
    BY <1>14, <1>15 DEF qc_claim_t
<1>17. latest_qc_claim(d).is_strong_qc = claim.is_strong_qc
    BY <1>13, <1>14, <1>15, <1>16, ZenonT(30)
<1>18. 1 \in 1 .. Len(c.links)
    BY <1>2, <1>4
<1>19. QED
    BY <1>6, <1>7, <1>10, <1>11, <1>12, <1>13, <1>14, <1>16, <1>17, <1>18, ZenonT(30) DEF FinalizesByTwoChain, k

(* Every link of a core says what the block of its source number claims.   *)
LinksOK(bl, b) ==
    \A i \in 1 .. Len(bl[b].core.links) :
        bl[b].core.links[i].target_block_num =
            ClaimNum(bl, AncestorIn(bl, b, bl[b].core.links[i].source_block_num))

FrontBlock(bl, b) == AncestorIn(bl, b, front_link(bl[b].core).source_block_num)

StrongQCIn(vs, b) ==
    \E Q \in Quorums : \A k \in Q \cap Keys : [finalizer |-> k, block |-> b, strong |-> TRUE] \in vs

(* A strong claim has its strong QC, and the last final block is the one   *)
(* that the block of the front link claims, which has a strong QC.         *)
FinalityOK(bl, vs, b) ==
    /\ LinksOK(bl, b)
    /\ latest_qc_claim(bl[b].core).is_strong_qc => StrongQCIn(vs, ClaimIn(bl, b))
    /\ last_final_block_num(bl[b].core) = 1 \/ StrongQCIn(vs, FrontBlock(bl, b))

(* Every link has the number of a block of the branch. *)
LEMMA LinkNumbers ==
    ASSUME NEW bl, TreeOK(bl), NEW b \in DOMAIN bl, NEW i \in 1 .. Len(bl[b].core.links)
    PROVE  LET s == bl[b].core.links[i].source_block_num
           IN  /\ AncestorIn(bl, b, s) \in BranchIn(bl, b)
               /\ AncestorIn(bl, b, s).num = s
<1> DEFINE c == bl[b].core
           f == front_link(c).source_block_num
           l == last_final_block_num(c)
           s == c.links[i].source_block_num
<1>1. b.num \in Nat /\ SoundCore(c, b.num, {bl[a].ref : a \in bl[b].ancestors})
    BY BlockNumbers, Zenon DEF TreeOK, BlockOK
<1>2. f \in 1 .. b.num /\ l \in 1 .. f /\ Len(c.links) = (b.num - f) + 1 /\ s = (f + i) - 1
    BY <1>1, Zenon DEF SoundCore
<1>3. i \in 1 .. Len(c.links)
    BY Zenon
<1> HIDE DEF c, f, l, s
<1>4. s \in Nat /\ l <= s /\ s <= b.num
    BY <1>1, <1>2, <1>3
<1>5. AncestorIn(bl, b, s) \in BranchIn(bl, b) /\ AncestorIn(bl, b, s).num = s
    BY <1>4, BranchHasNumber, Zenon DEF l, c
<1>6. QED
    BY <1>5, Zenon DEF s, c

(* Blocks stay as final as they are. *)
LEMMA FinalityStays ==
    ASSUME NEW bl, TreeOK(bl), NEW bl2, Extended(bl, bl2), NEW vs, NEW vs2, vs \subseteq vs2,
           NEW b \in DOMAIN bl, FinalityOK(bl, vs, b)
    PROVE  FinalityOK(bl2, vs2, b)
<1>1. bl2[b] = bl[b] /\ ClaimIn(bl2, b) = ClaimIn(bl, b) /\ FrontBlock(bl2, b) = FrontBlock(bl, b)
    <2>1. bl2[b] = bl[b]
        BY Zenon DEF Extended
    <2>2. ClaimIn(bl2, b) = ClaimIn(bl, b) /\ \A num : AncestorIn(bl2, b, num) = AncestorIn(bl, b, num)
        BY OldBlocks, Zenon
    <2>3. QED
        BY <2>1, <2>2, Zenon DEF FrontBlock
<1>2. ASSUME NEW i \in 1 .. Len(bl[b].core.links)
      PROVE  ClaimNum(bl2, AncestorIn(bl2, b, bl[b].core.links[i].source_block_num)) =
             ClaimNum(bl, AncestorIn(bl, b, bl[b].core.links[i].source_block_num))
    <2>1. PICK s : s = bl[b].core.links[i].source_block_num
        BY ZenonT(30)
    <2>2. AncestorIn(bl, b, s) \in BranchIn(bl, b)
        BY <2>1, LinkNumbers, ZenonT(30)
    <2>3. AncestorIn(bl, b, s) \in DOMAIN bl
        BY <2>2, BranchIsChain, ZenonT(30)
    <2>4. AncestorIn(bl2, b, s) = AncestorIn(bl, b, s)
        BY OldBlocks
    <2>5. ClaimNum(bl2, AncestorIn(bl, b, s)) = ClaimNum(bl, AncestorIn(bl, b, s))
        BY <2>3, OldBlocks, Zenon
    <2>6. QED
        BY <2>1, <2>4, <2>5, ZenonT(30)
<1>3. LinksOK(bl2, b)
    BY <1>1, <1>2, Zenon DEF LinksOK, FinalityOK
<1>4. \A x : StrongQCIn(vs, x) => StrongQCIn(vs2, x)
    BY Zenon DEF StrongQCIn
<1>5. QED
    BY <1>1, <1>3, <1>4, Zenon DEF FinalityOK

(* A new block finalizes by the two-chain rule. *)
LEMMA FinalityGrows ==
    ASSUME NEW bl, TreeOK(bl), NEW parent \in DOMAIN bl,
           NEW id \in BlockIds, id \notin DOMAIN bl, id.num = parent.num + 1,
           NEW claim \in Claims, claim.block_num \in ClaimNum(bl, parent) .. parent.num,
           NEW bl2, TreeOK(bl2), Extended(bl, bl2), DOMAIN bl2 = DOMAIN bl \cup {id},
           bl2[id].core = next(bl[parent].core, bl[parent].ref, claim),
           bl2[id].ancestors = BranchIn(bl, parent),
           ClaimIn(bl2, id) = AncestorIn(bl, parent, claim.block_num),
           NEW vs, FinalityOK(bl, vs, parent),
           claim.is_strong_qc => StrongQCIn(vs, AncestorIn(bl, parent, claim.block_num))
    PROVE  FinalityOK(bl2, vs, id)
<1> DEFINE c == bl[parent].core
           d == bl2[id].core
           n == parent.num
<1>1. n \in Nat /\ SoundCore(c, n, {bl[a].ref : a \in bl[parent].ancestors}) /\ bl[parent].ref.block_id.num = n
    BY BlockNumbers, Zenon DEF TreeOK, BlockOK
<1>2. /\ claim.is_strong_qc => front_link(d).source_block_num = claim.block_num
      /\ ~claim.is_strong_qc => front_link(d) = front_link(c)
      /\ Len(d.links) \in Nat /\ Len(d.links) > 1
      /\ \A i \in 1 .. Len(d.links) - 1 : \E j \in 1 .. Len(c.links) : d.links[i] = c.links[j]
      /\ d.links[Len(d.links)].source_block_num = n + 1
      /\ d.links[Len(d.links)].target_block_num = claim.block_num
      /\ latest_qc_claim(d).block_num = claim.block_num
      /\ latest_qc_claim(d).is_strong_qc = claim.is_strong_qc
      /\ 1 \in 1 .. Len(c.links)
    <2> DEFINE Refs == {bl[a].ref : a \in bl[parent].ancestors}
               ref  == bl[parent].ref
    <2>1. /\ n \in Nat /\ SoundCore(c, n, Refs) /\ ref.block_id.num = n
          /\ d = next(c, ref, claim) /\ claim \in Claims
        BY <1>1, Zenon
    <2>2. claim.block_num \in latest_qc_claim(c).block_num .. n
        BY Zenon DEF ClaimNum
    <2> HIDE DEF c, d, n, Refs, ref
    <2>3. FinalizesByTwoChain(c, d, n, claim)
        BY <2>1, <2>2, NextFinal, ZenonT(30)
    <2>4. QED
        BY <2>3, Zenon DEF FinalizesByTwoChain
<1>3. ASSUME NEW a \in BranchIn(bl, parent)
      PROVE  AncestorIn(bl2, id, a.num) = a /\ ClaimNum(bl2, a) = ClaimNum(bl, a)
    <2>1. a \in DOMAIN bl
        BY BranchIsChain, Zenon
    <2>2. a \in BranchIn(bl2, id)
        BY Zenon DEF BranchIn
    <2>3. id \in DOMAIN bl2
        BY ZenonT(30)
    <2>4. AncestorIn(bl2, id, a.num) = a
        BY <2>2, <2>3, BranchNumbers, Zenon
    <2>5. ClaimNum(bl2, a) = ClaimNum(bl, a)
        BY <2>1, OldBlocks, Zenon
    <2>6. QED
        BY <2>4, <2>5, Zenon
<1>4. ASSUME NEW i \in 1 .. Len(d.links)
      PROVE  d.links[i].target_block_num = ClaimNum(bl2, AncestorIn(bl2, id, d.links[i].source_block_num))
    <2>1. CASE i \in 1 .. Len(d.links) - 1
        <3>1. PICK j \in 1 .. Len(c.links) : d.links[i] = c.links[j]
            BY <1>2, <2>1, ZenonT(30)
        <3>2. PICK a : a = AncestorIn(bl, parent, c.links[j].source_block_num)
            BY ZenonT(30)
        <3>3. a \in BranchIn(bl, parent) /\ a.num = c.links[j].source_block_num
            BY <3>2, LinkNumbers, ZenonT(30)
        <3>4. c.links[j].target_block_num = ClaimNum(bl, a)
            BY <3>2, Zenon DEF FinalityOK, LinksOK
        <3>5. AncestorIn(bl2, id, a.num) = a /\ ClaimNum(bl2, a) = ClaimNum(bl, a)
            BY <1>3, <3>3, ZenonT(30)
        <3>6. d.links[i].target_block_num = ClaimNum(bl2, a)
            BY <3>1, <3>4, <3>5, ZenonT(30)
        <3>7. d.links[i].source_block_num = a.num
            BY <3>1, <3>3, ZenonT(30)
        <3>8. QED
            BY <3>5, <3>6, <3>7, ZenonT(30)
    <2>2. CASE i = Len(d.links)
        <3>1. d.links[i].target_block_num = claim.block_num /\ d.links[i].source_block_num = id.num
            BY <1>2, <2>2, Zenon
        <3>2. ClaimNum(bl2, id) = claim.block_num
            BY <1>2, Zenon DEF ClaimNum
        <3>3. id \in BranchIn(bl2, id) /\ id \in DOMAIN bl2
            BY ZenonT(30) DEF BranchIn
        <3>4. AncestorIn(bl2, id, id.num) = id
            BY <3>3, BranchNumbers, ZenonT(30)
        <3>5. QED
            BY <3>1, <3>2, <3>4, ZenonT(30)
    <2>3. i \in 1 .. Len(d.links) - 1 \/ i = Len(d.links)
        <3>1. PICK m : m = Len(d.links)
            BY Zenon
        <3>2. m \in Nat /\ i \in 1 .. m
            BY <1>2, <3>1, ZenonT(30)
        <3>3. i \in 1 .. m - 1 \/ i = m
            BY <3>2
        <3>4. QED
            BY <3>1, <3>3, Zenon
    <2>4. QED
        BY <2>1, <2>2, <2>3, ZenonT(30)
<1>5. last_final_block_num(d) = 1 \/ StrongQCIn(vs, FrontBlock(bl2, id))
    <2>1. CASE claim.is_strong_qc
        <3>1. PICK a : a = AncestorIn(bl, parent, claim.block_num)
            BY ZenonT(30)
        <3>2. StrongQCIn(vs, a)
            BY <2>1, <3>1, ZenonT(30)
        <3>3. a \in BranchIn(bl2, id) /\ id \in DOMAIN bl2 /\ a = ClaimIn(bl2, id)
            <4>1. id # genesis
                BY ZenonT(30) DEF TreeOK
            <4>2. ClaimIn(bl2, id) \in bl2[id].ancestors
                BY <4>1, ClaimFacts, ZenonT(30)
            <4>3. QED
                BY <3>1, <4>2, ZenonT(30) DEF BranchIn
        <3>4. a.num = claim.block_num
            BY <1>2, <3>3, ClaimFacts, ZenonT(30) DEF ClaimNum
        <3>5. AncestorIn(bl2, id, a.num) = a
            BY <3>3, BranchNumbers, Zenon
        <3>6. FrontBlock(bl2, id) = a
            BY <1>2, <2>1, <3>4, <3>5, Zenon DEF FrontBlock
        <3>7. QED
            BY <3>2, <3>6, Zenon
    <2>2. CASE ~claim.is_strong_qc
        <3>1. 1 \in 1 .. Len(c.links) /\ front_link(c) = c.links[1]
            BY <1>2, Zenon DEF front_link
        <3>2. PICK a : a = FrontBlock(bl, parent)
            BY ZenonT(30)
        <3>3. a \in BranchIn(bl, parent) /\ a.num = front_link(c).source_block_num
            <4>1. a = AncestorIn(bl, parent, c.links[1].source_block_num)
                BY <3>1, <3>2, Zenon DEF FrontBlock
            <4>2. 1 \in 1 .. Len(bl[parent].core.links)
                BY <3>1, Zenon
            <4>3. a \in BranchIn(bl, parent) /\ a.num = c.links[1].source_block_num
                BY <4>1, <4>2, LinkNumbers, Zenon
            <4>4. QED
                BY <3>1, <4>3, Zenon
        <3>4. FrontBlock(bl2, id) = a
            BY <1>2, <1>3, <2>2, <3>3, ZenonT(30) DEF FrontBlock
        <3>5. last_final_block_num(d) = last_final_block_num(c)
            BY <1>2, <2>2, ZenonT(30) DEF last_final_block_num
        <3>6. QED
            BY <3>2, <3>4, <3>5, Zenon DEF FinalityOK
    <2>3. QED
        BY <2>1, <2>2, Zenon
<1>6. LinksOK(bl2, id)
    BY <1>4, Zenon DEF LinksOK
<1>7. latest_qc_claim(d).is_strong_qc => StrongQCIn(vs, ClaimIn(bl2, id))
    BY <1>2, Zenon
<1>8. QED
    BY <1>5, <1>6, <1>7, Zenon DEF FinalityOK

-----------------------------------------------------------------------------
(* The tree as SafetyRules sees it. *)
TimeMap(bl) == [b \in BlockIds |-> IF b \in DOMAIN bl THEN TimeIn(bl, b) - 1 ELSE 0]

AncestorMap(bl) == [b \in BlockIds |-> IF b \in DOMAIN bl THEN bl[b].ancestors ELSE {}]

ClaimMap(bl) == [b \in BlockIds |-> IF b \in DOMAIN bl THEN ClaimIn(bl, b) ELSE genesis]

(* What SafetyRules sees of a block. *)
LEMMA MapValues ==
    ASSUME NEW bl, TreeOK(bl), NEW b \in DOMAIN bl
    PROVE  /\ b \in BlockIds
           /\ TimeMap(bl)[b] = TimeIn(bl, b) - 1 /\ TimeIn(bl, b) \in Int
           /\ AncestorMap(bl)[b] = bl[b].ancestors
           /\ ClaimMap(bl)[b] = ClaimIn(bl, b)
<1>1. b \in BlockIds /\ TimeIn(bl, b) \in Nat
    BY Zenon DEF TreeOK, BlockOK
<1>2. QED
    BY <1>1 DEF TimeMap, AncestorMap, ClaimMap

(* Times compare in the maps as in the tree. *)
LEMMA TimesCompare ==
    ASSUME NEW bl, TreeOK(bl), NEW x \in DOMAIN bl, NEW y \in DOMAIN bl
    PROVE  /\ TimeMap(bl)[x] < TimeMap(bl)[y] <=> TimeIn(bl, x) < TimeIn(bl, y)
           /\ TimeMap(bl)[x] > TimeMap(bl)[y] <=> TimeIn(bl, x) > TimeIn(bl, y)
           /\ TimeMap(bl)[x] >= TimeMap(bl)[y] <=> TimeIn(bl, x) >= TimeIn(bl, y)
           /\ TimeMap(bl)[x] = TimeMap(bl)[y] <=> TimeIn(bl, x) = TimeIn(bl, y)
<1>1. /\ TimeMap(bl)[x] = TimeIn(bl, x) - 1 /\ TimeIn(bl, x) \in Int
      /\ TimeMap(bl)[y] = TimeIn(bl, y) - 1 /\ TimeIn(bl, y) \in Int
    BY MapValues, Zenon
<1>2. QED
    BY <1>1, SMTT(20)

(* A block is added. *)
LEMMA MapGrows ==
    ASSUME NEW bl, NEW bl2, Extended(bl, bl2), NEW id \in BlockIds, id \notin DOMAIN bl,
           DOMAIN bl2 = DOMAIN bl \cup {id}
    PROVE  /\ TimeMap(bl2) = [TimeMap(bl) EXCEPT ![id] = TimeIn(bl2, id) - 1]
           /\ AncestorMap(bl2) = [AncestorMap(bl) EXCEPT ![id] = bl2[id].ancestors]
           /\ ClaimMap(bl2) = [ClaimMap(bl) EXCEPT ![id] = ClaimIn(bl2, id)]
<1>1. \A b \in DOMAIN bl : TimeIn(bl2, b) = TimeIn(bl, b)
    BY OldBlocks, Zenon
<1>2. \A b \in DOMAIN bl : ClaimIn(bl2, b) = ClaimIn(bl, b)
    BY OldBlocks, Zenon
<1>3. \A b \in DOMAIN bl : bl2[b].ancestors = bl[b].ancestors
    BY Zenon DEF Extended
<1>4. TimeMap(bl2) = [TimeMap(bl) EXCEPT ![id] = TimeIn(bl2, id) - 1]
    BY <1>1, Zenon DEF TimeMap
<1>5. AncestorMap(bl2) = [AncestorMap(bl) EXCEPT ![id] = bl2[id].ancestors]
    BY <1>3, Zenon DEF AncestorMap
<1>6. ClaimMap(bl2) = [ClaimMap(bl) EXCEPT ![id] = ClaimIn(bl2, id)]
    BY <1>2, Zenon DEF ClaimMap
<1>7. QED
    BY <1>4, <1>5, <1>6, Zenon

-----------------------------------------------------------------------------
(* The safety information of a finalizer *)

(* As HasQC of SafetyRules: the genesis block needs no QC. *)
QCIn(vs, b) ==
    \/ b = genesis
    \/ \E Q \in Quorums : \A k \in Q \cap Keys : \E v \in vs : v.finalizer = k /\ v.block = b

VotesOK(bl, vs) == vs \subseteq Votes /\ \A v \in vs : v.block \in DOMAIN bl /\ v.block # genesis

ClaimsOK(bl, vs) == \A b \in DOMAIN bl : QCIn(vs, ClaimIn(bl, b))

(* Block L stands for all blocks that the strong votes of k have locked.   *)
LockOK(bl, vs, k, L) ==
    \A v \in vs : v.finalizer = k /\ v.strong =>
        \/ ClaimIn(bl, v.block) \in BranchIn(bl, L)
        \/ TimeIn(bl, L) > TimeIn(bl, ClaimIn(bl, v.block)) /\ QCIn(vs, L)

(* Block V and the time of the latest vote on another branch stand for all *)
(* votes of k: no vote is more recent than V, and one that V does not      *)
(* extend is not more recent than that time, or than the claim of V.       *)
LastVoteOK(bl, vs, k, V, other) ==
    \A v \in vs : v.finalizer = k =>
        /\ TimeIn(bl, v.block) <= TimeIn(bl, V)
        /\ \/ TimeIn(bl, v.block) <= other
           \/ TimeIn(bl, v.block) <= TimeIn(bl, ClaimIn(bl, V))
           \/ v.block \in BranchIn(bl, V)

(* The information fsi stands for the votes of k so far. *)
InfoOK(bl, vs, k, fsi) ==
    /\ fsi.other_branch_latest_time \in Nat
    /\ \E L \in DOMAIN bl : fsi.lock = ref_of(bl[L].ref) /\ LockOK(bl, vs, k, L)
    /\ \/ fsi.last_vote = no_ref /\ \A v \in vs : v.finalizer # k
       \/ \E V \in DOMAIN bl : /\ fsi.last_vote = ref_of(bl[V].ref)
                               /\ LastVoteOK(bl, vs, k, V, fsi.other_branch_latest_time)

(* References keep the id and the timestamp of their block, and none that  *)
(* names a block is empty.                                                 *)
LEMMA RefFacts ==
    ASSUME NEW bl, TreeOK(bl), NEW b \in DOMAIN bl
    PROVE  /\ ref_of(bl[b].ref).block_id = b
           /\ ref_of(bl[b].ref).timestamp = TimeIn(bl, b)
           /\ ~empty(ref_of(bl[b].ref))
           /\ TimeIn(bl, b) \in Nat
<1>1. bl[b].ref.block_id = b /\ TimeIn(bl, b) \in Nat /\ b.num >= 1 /\ b.num \in Nat
    BY BlockNumbers, Zenon DEF TreeOK, BlockOK
<1>2. ref_of(bl[b].ref).block_id = b /\ ref_of(bl[b].ref).timestamp = TimeIn(bl, b)
    BY <1>1 DEF ref_of, TimeIn
<1>3. QED
    BY <1>1, <1>2 DEF empty

(* A QC stays one. *)
LEMMA QCStays ==
    ASSUME NEW vs, NEW vs2, vs \subseteq vs2, NEW b, QCIn(vs, b)
    PROVE  QCIn(vs2, b)
BY DEF QCIn

(* New blocks, and votes of other finalizers, leave the information of a   *)
(* finalizer as good as it was.                                            *)
LEMMA InfoStays ==
    ASSUME NEW bl, TreeOK(bl), NEW bl2, Extended(bl, bl2),
           NEW vs, VotesOK(bl, vs), NEW vs2, vs \subseteq vs2,
           NEW k, \A v \in vs2 : v.finalizer = k => v \in vs,
           NEW fsi, InfoOK(bl, vs, k, fsi)
    PROVE  InfoOK(bl2, vs2, k, fsi)
<1>1. ASSUME NEW v \in vs2, v.finalizer = k
      PROVE  /\ v \in vs /\ v.block \in DOMAIN bl /\ ClaimIn(bl, v.block) \in DOMAIN bl
             /\ TimeIn(bl2, v.block) = TimeIn(bl, v.block)
             /\ ClaimIn(bl2, v.block) = ClaimIn(bl, v.block)
             /\ TimeIn(bl2, ClaimIn(bl2, v.block)) = TimeIn(bl, ClaimIn(bl, v.block))
    <2>1. v \in vs /\ v.block \in DOMAIN bl
        BY <1>1, Zenon DEF VotesOK
    <2>2. ClaimIn(bl, v.block) \in DOMAIN bl
        BY <2>1, ClaimFacts
    <2>3. QED
        BY <2>1, <2>2, OldBlocks
<1>2. \E L \in DOMAIN bl2 : fsi.lock = ref_of(bl2[L].ref) /\ LockOK(bl2, vs2, k, L)
    <2>1. PICK L \in DOMAIN bl : fsi.lock = ref_of(bl[L].ref) /\ LockOK(bl, vs, k, L)
        BY Zenon DEF InfoOK
    <2>2. L \in DOMAIN bl2 /\ bl2[L] = bl[L] /\ TimeIn(bl2, L) = TimeIn(bl, L) /\ BranchIn(bl2, L) = BranchIn(bl, L)
        BY OldBlocks DEF Extended
    <2>3. QCIn(vs, L) => QCIn(vs2, L)
        BY QCStays, Zenon
    <2>4. LockOK(bl2, vs2, k, L)
        BY <1>1, <2>1, <2>2, <2>3, Zenon DEF LockOK
    <2>5. QED
        BY <2>1, <2>2, <2>4
<1>3. CASE fsi.last_vote = no_ref /\ \A v \in vs : v.finalizer # k
    BY <1>1, <1>2, <1>3, ZenonT(30) DEF InfoOK
<1>4. CASE \E V \in DOMAIN bl : /\ fsi.last_vote = ref_of(bl[V].ref)
                                /\ LastVoteOK(bl, vs, k, V, fsi.other_branch_latest_time)
    <2>1. PICK V \in DOMAIN bl : /\ fsi.last_vote = ref_of(bl[V].ref)
                                 /\ LastVoteOK(bl, vs, k, V, fsi.other_branch_latest_time)
        BY <1>4, Zenon
    <2>2. ClaimIn(bl, V) \in DOMAIN bl
        BY ClaimFacts
    <2>3. /\ V \in DOMAIN bl2 /\ bl2[V] = bl[V]
          /\ TimeIn(bl2, V) = TimeIn(bl, V)
          /\ BranchIn(bl2, V) = BranchIn(bl, V)
          /\ TimeIn(bl2, ClaimIn(bl2, V)) = TimeIn(bl, ClaimIn(bl, V))
        BY <2>2, OldBlocks DEF Extended
    <2>4. LastVoteOK(bl2, vs2, k, V, fsi.other_branch_latest_time)
        BY <1>1, <2>1, <2>3, Zenon DEF LastVoteOK
    <2>5. QED
        BY <1>2, <2>1, <2>3, <2>4 DEF InfoOK
<1>5. QED
    BY <1>3, <1>4, Zenon DEF InfoOK

(* Information that has no vote to stand for: any block may be locked, and *)
(* there may be a last vote or none.                                       *)
LEMMA FreshInfo ==
    ASSUME NEW bl, NEW vs, NEW k, \A v \in vs : v.finalizer # k,
           NEW L \in DOMAIN bl, NEW last_vote,
           last_vote = no_ref \/ last_vote = ref_of(bl[L].ref)
    PROVE  InfoOK(bl, vs, k, safety_information(last_vote, ref_of(bl[L].ref), NoTimestamp))
<1> DEFINE fsi == safety_information(last_vote, ref_of(bl[L].ref), NoTimestamp)
<1>1. fsi.lock = ref_of(bl[L].ref) /\ fsi.last_vote = last_vote /\ fsi.other_branch_latest_time = 0
    BY Zenon DEF safety_information, NoTimestamp
<1>2. LockOK(bl, vs, k, L) /\ LastVoteOK(bl, vs, k, L, 0)
    BY Zenon DEF LockOK, LastVoteOK
<1> HIDE DEF fsi
<1>3. InfoOK(bl, vs, k, fsi)
    BY <1>1, <1>2 DEF InfoOK
<1>4. QED
    BY <1>3, Zenon DEF fsi

(* decide_vote votes when the vote is monotonic and live or safe. *)
LEMMA DecisionMeans ==
    ASSUME NEW fsi, NEW B
    PROVE  /\ decision(fsi, B) \in {"no_vote", "strong_vote", "weak_vote"}
           /\ decision(fsi, B) # "no_vote" =>
                 monotony_check(fsi, B) /\ (liveness_check(fsi, B) \/ safety_check(fsi, B))
           /\ decision(fsi, B) = "strong_vote" => strong_check(fsi, B)
BY Zenon DEF decision

(* decide_vote on two blocks more recent than all others: the first claims *)
(* a block that is at least as recent as the lock, the second claims the   *)
(* first.                                                                  *)
LEMMA VotesForBoth ==
    ASSUME NEW fsi, NEW first, NEW second, NEW T \in Nat, NEW M \in Nat, T <= M,
           first.ref.timestamp = M + 1, ~empty(ref_of(first.ref)),
           latest_qc_block_timestamp(first.core) = T,
           latest_qc_claim__block_ref(first).timestamp = T, ~empty(latest_qc_claim__block_ref(first)),
           second.ref.timestamp = M + 2,
           latest_qc_block_timestamp(second.core) = M + 1,
           empty(fsi.last_vote) \/ (fsi.last_vote.timestamp \in Nat /\ fsi.last_vote.timestamp <= M),
           ~empty(fsi.lock), fsi.lock.timestamp \in Nat,
           fsi.lock.timestamp < T \/ (fsi.lock.timestamp = T /\ extends(first.core, fsi.lock.block_id))
    PROVE  /\ decision(fsi, first) # "no_vote"
           /\ decision(fsi_after(fsi, first), second) = "strong_vote"
<1> DEFINE after == fsi_after(fsi, first)
<1>1. monotony_check(fsi, first)
    BY DEF monotony_check
<1>2. liveness_check(fsi, first) \/ safety_check(fsi, first)
    BY DEF liveness_check, safety_check
<1>3. decision(fsi, first) # "no_vote"
    BY <1>1, <1>2, ZenonT(30) DEF decision
<1>4. after.last_vote = ref_of(first.ref) /\ (after.lock = fsi.lock \/ after.lock = latest_qc_claim__block_ref(first))
    <2>1. CASE decision(fsi, first) = "strong_vote"
        BY <2>1, Zenon DEF fsi_after, after_strong_vote, safety_information
    <2>2. CASE decision(fsi, first) = "weak_vote"
        BY <2>2, ZenonT(30) DEF fsi_after, after_weak_vote, safety_information
    <2>3. QED
        BY <1>3, <2>1, <2>2, DecisionMeans, ZenonT(30)
<1> HIDE DEF after
<1>5. after.last_vote.timestamp = M + 1
    <2>1. ref_of(first.ref).timestamp = first.ref.timestamp
        BY Zenon DEF ref_of
    <2>2. QED
        BY <1>4, <2>1, ZenonT(30)
<1>6. ~empty(after.lock) /\ after.lock.timestamp \in Nat /\ after.lock.timestamp <= T
    BY <1>4
<1>7. monotony_check(after, second) /\ liveness_check(after, second) /\ strong_check(after, second)
    <2>1. M + 2 > M + 1 /\ M + 1 > after.lock.timestamp /\ M + 1 <= M + 1
        BY <1>6
    <2>2. QED
        BY <1>5, <1>6, <2>1, ZenonT(30) DEF monotony_check, liveness_check, strong_check
<1>8. decision(after, second) = "strong_vote"
    BY <1>7, Zenon DEF decision
<1>9. QED
    BY <1>3, <1>8, ZenonT(30) DEF after

(* A finalizer whose information stands for its votes keeps the rules of   *)
(* SafetyRules when decide_vote lets it vote: the vote is the most recent, *)
(* it respects all earlier locks, and a strong one is not preceded by a    *)
(* vote on another branch since the claimed block.                         *)
LEMMA DecisionKeepsRules ==
    ASSUME NEW bl, TreeOK(bl), NEW vs, VotesOK(bl, vs), ClaimsOK(bl, vs),
           NEW k, NEW fsi, InfoOK(bl, vs, k, fsi),
           NEW b \in DOMAIN bl, b # genesis, decision(fsi, bl[b]) # "no_vote",
           NEW v \in vs, v.finalizer = k
    PROVE  /\ TimeIn(bl, v.block) < TimeIn(bl, b)
           /\ v.strong => \/ ClaimIn(bl, v.block) \in BranchIn(bl, b)
                          \/ \E c \in bl[b].ancestors :
                                QCIn(vs, c) /\ TimeIn(bl, c) > TimeIn(bl, ClaimIn(bl, v.block))
           /\ decision(fsi, bl[b]) = "strong_vote" =>
                 (TimeIn(bl, v.block) > TimeIn(bl, ClaimIn(bl, b)) => v.block \in BranchIn(bl, b))
<1> DEFINE C == ClaimIn(bl, b)
           W == v.block
           D == ClaimIn(bl, v.block)
<1>1. PICK L \in DOMAIN bl : fsi.lock = ref_of(bl[L].ref) /\ LockOK(bl, vs, k, L)
    BY Zenon DEF InfoOK
<1>2. PICK V \in DOMAIN bl : /\ fsi.last_vote = ref_of(bl[V].ref)
                             /\ LastVoteOK(bl, vs, k, V, fsi.other_branch_latest_time)
    BY DEF InfoOK
<1>3. W \in DOMAIN bl
    BY Zenon DEF VotesOK
<1>4. /\ C \in DOMAIN bl /\ C \in bl[b].ancestors
      /\ latest_qc_block_timestamp(bl[b].core) = TimeIn(bl, C)
    BY ClaimFacts
<1>5. D \in DOMAIN bl
    BY <1>3, ClaimFacts, ZenonT(30)
<1>6. /\ TimeIn(bl, b) \in Nat /\ TimeIn(bl, W) \in Nat /\ TimeIn(bl, C) \in Nat
      /\ TimeIn(bl, D) \in Nat /\ TimeIn(bl, L) \in Nat /\ TimeIn(bl, V) \in Nat
    BY <1>3, <1>4, <1>5, RefFacts, ZenonT(30)
<1>7. /\ fsi.lock.block_id = L /\ fsi.lock.timestamp = TimeIn(bl, L)
      /\ fsi.last_vote.block_id = V /\ fsi.last_vote.timestamp = TimeIn(bl, V)
      /\ ~empty(fsi.last_vote)
    BY <1>1, <1>2, RefFacts
<1>8. /\ monotony_check(fsi, bl[b])
      /\ liveness_check(fsi, bl[b]) \/ safety_check(fsi, bl[b])
      /\ decision(fsi, bl[b]) = "strong_vote" => strong_check(fsi, bl[b])
    BY DecisionMeans, ZenonT(30)
<1>9. TimeIn(bl, V) < TimeIn(bl, b)
    BY <1>6, <1>7, <1>8, ZenonT(30) DEF monotony_check, TimeIn
<1>10. /\ TimeIn(bl, W) <= TimeIn(bl, V)
       /\ \/ TimeIn(bl, W) <= fsi.other_branch_latest_time
          \/ TimeIn(bl, W) <= TimeIn(bl, ClaimIn(bl, V))
          \/ W \in BranchIn(bl, V)
    BY <1>2 DEF LastVoteOK
<1> HIDE DEF C, W, D
<1>11. TimeIn(bl, W) < TimeIn(bl, b)
    BY <1>6, <1>9, <1>10, SMTT(20)
<1>12. ASSUME v.strong
       PROVE  \/ D \in BranchIn(bl, b)
              \/ \E c \in bl[b].ancestors : QCIn(vs, c) /\ TimeIn(bl, c) > TimeIn(bl, D)
    <2>1. D \in BranchIn(bl, L) \/ (TimeIn(bl, L) > TimeIn(bl, D) /\ QCIn(vs, L))
        BY <1>1, <1>12, ZenonT(30) DEF LockOK, D
    <2>2. TimeIn(bl, D) <= TimeIn(bl, L)
        BY <1>6, <2>1, BranchIsChain
    <2>3. CASE liveness_check(fsi, bl[b])
        <3>1. TimeIn(bl, C) > TimeIn(bl, L)
            BY <1>4, <1>7, <2>3 DEF liveness_check
        <3>2. QCIn(vs, C)
            BY Zenon DEF ClaimsOK, C
        <3>3. TimeIn(bl, C) > TimeIn(bl, D)
            BY <1>6, <2>2, <3>1
        <3>4. QED
            BY <1>4, <3>2, <3>3, Zenon
    <2>4. CASE safety_check(fsi, bl[b])
        <3>1. L \in bl[b].ancestors
            BY <1>7, <2>4, ExtendsAncestor, ZenonT(30) DEF safety_check
        <3>2. BranchIn(bl, L) \subseteq BranchIn(bl, b)
            BY <3>1, BranchIsChain DEF BranchIn
        <3>3. QED
            BY <2>1, <3>1, <3>2, ZenonT(30)
    <2>5. QED
        BY <1>8, <2>3, <2>4
<1>13. ASSUME decision(fsi, bl[b]) = "strong_vote", TimeIn(bl, W) > TimeIn(bl, C)
       PROVE  W \in BranchIn(bl, b)
    <2>1. ~(TimeIn(bl, V) <= TimeIn(bl, C))
        BY <1>6, <1>10, <1>13
    <2>2. extends(bl[b].core, V) /\ fsi.other_branch_latest_time <= TimeIn(bl, C)
        BY <1>4, <1>7, <1>8, <1>13, <2>1, ZenonT(30) DEF strong_check
    <2>3. V \in bl[b].ancestors
        BY <2>2, ExtendsAncestor, ZenonT(30)
    <2>4. V \in BranchIn(bl, b)
        BY <2>3, ZenonT(30) DEF BranchIn
    <2>5. BranchIn(bl, V) \subseteq BranchIn(bl, b) /\ TimeIn(bl, ClaimIn(bl, V)) <= TimeIn(bl, C)
        BY <2>4, BranchIsChain, ClaimsGrow, ZenonT(30) DEF C
    <2>6. fsi.other_branch_latest_time \in Nat /\ TimeIn(bl, ClaimIn(bl, V)) \in Nat
        <3>1. ClaimIn(bl, V) \in DOMAIN bl
            BY ClaimFacts, ZenonT(30)
        <3>2. QED
            BY <3>1, RefFacts, ZenonT(30) DEF InfoOK
    <2>7. QED
        BY <1>6, <1>10, <1>13, <2>2, <2>5, <2>6
<1>14. QED
    BY <1>11, <1>12, <1>13 DEF C, W, D

(* The votes of k in vs2 that are not in vs are for b, as fsi decides.     *)
VotesAdded(bl, vs, vs2, k, fsi, b) ==
    /\ vs \subseteq vs2
    /\ \A v \in vs2 : v.finalizer = k =>
          \/ v \in vs
          \/ /\ v.block = b
             /\ decision(fsi, bl[b]) # "no_vote"
             /\ v.strong => decision(fsi, bl[b]) = "strong_vote"

(* After a vote, the block voted for and the time that decide_vote keeps   *)
(* of other branches stand for all votes, whether or not the vote is sent. *)
LEMMA DecisionKeepsLastVote ==
    ASSUME NEW bl, TreeOK(bl), NEW vs, VotesOK(bl, vs), ClaimsOK(bl, vs),
           NEW k, NEW fsi, InfoOK(bl, vs, k, fsi),
           NEW b \in DOMAIN bl, b # genesis, decision(fsi, bl[b]) # "no_vote",
           NEW vs2, VotesAdded(bl, vs, vs2, k, fsi, b)
    PROVE  LET other == fsi_after(fsi, bl[b]).other_branch_latest_time
           IN  other \in Nat /\ LastVoteOK(bl, vs2, k, b, other)
<1> DEFINE other == fsi_after(fsi, bl[b]).other_branch_latest_time
           C     == ClaimIn(bl, b)
<1>1. /\ C \in DOMAIN bl /\ latest_qc_block_timestamp(bl[b].core) = TimeIn(bl, C)
      /\ TimeIn(bl, C) \in Nat /\ TimeIn(bl, b) \in Nat
    BY ClaimFacts, RefFacts
<1>2. fsi.other_branch_latest_time \in Nat
    BY Zenon DEF InfoOK
<1>3. /\ decision(fsi, bl[b]) = "strong_vote" => other = 0
      /\ decision(fsi, bl[b]) = "weak_vote" =>
            other = IF extends(bl[b].core, fsi.last_vote.block_id)
                    THEN fsi.other_branch_latest_time ELSE fsi.last_vote.timestamp
      /\ decision(fsi, bl[b]) = "strong_vote" \/ decision(fsi, bl[b]) = "weak_vote"
    BY DecisionMeans, ZenonT(30) DEF fsi_after, after_strong_vote, after_weak_vote, safety_information, NoTimestamp
<1>4. fsi.last_vote.timestamp \in Nat
    <2>1. CASE fsi.last_vote = no_ref
        BY <2>1, SMTT(20) DEF no_ref
    <2>2. CASE \E V \in DOMAIN bl : fsi.last_vote = ref_of(bl[V].ref)
        BY <2>2, RefFacts, SMTT(20)
    <2>3. QED
        BY <2>1, <2>2, ZenonT(30) DEF InfoOK
<1>5. other \in Nat
    BY <1>2, <1>3, <1>4
<1> HIDE DEF other, C
<1>6. b \in BranchIn(bl, b)
    BY Zenon DEF BranchIn
<1>7. ASSUME NEW v \in vs2, v.finalizer = k
      PROVE  /\ TimeIn(bl, v.block) <= TimeIn(bl, b)
             /\ \/ TimeIn(bl, v.block) <= other
                \/ TimeIn(bl, v.block) <= TimeIn(bl, C)
                \/ v.block \in BranchIn(bl, b)
    <2>1. CASE v.block = b
        BY <1>1, <1>6, <2>1, SMTT(30)
    <2>2. CASE v \in vs
        <3>1. PICK V \in DOMAIN bl : /\ fsi.last_vote = ref_of(bl[V].ref)
                                     /\ LastVoteOK(bl, vs, k, V, fsi.other_branch_latest_time)
            BY <1>7, <2>2, ZenonT(30) DEF InfoOK
        <3>2. fsi.last_vote.block_id = V /\ fsi.last_vote.timestamp = TimeIn(bl, V)
            BY <3>1, RefFacts
        <3>3. v.block \in DOMAIN bl
            BY <2>2, Zenon DEF VotesOK
        <3>4. /\ TimeIn(bl, v.block) <= TimeIn(bl, V)
              /\ \/ TimeIn(bl, v.block) <= fsi.other_branch_latest_time
                 \/ TimeIn(bl, v.block) <= TimeIn(bl, ClaimIn(bl, V))
                 \/ v.block \in BranchIn(bl, V)
            BY <1>7, <2>2, <3>1, ZenonT(30) DEF LastVoteOK
        <3>5. /\ TimeIn(bl, v.block) < TimeIn(bl, b)
              /\ decision(fsi, bl[b]) = "strong_vote" =>
                    (TimeIn(bl, v.block) > TimeIn(bl, C) => v.block \in BranchIn(bl, b))
            BY <1>7, <2>2, DecisionKeepsRules, SMTT(30) DEF C
        <3>6. TimeIn(bl, v.block) \in Nat /\ TimeIn(bl, V) \in Nat
            BY <3>3, RefFacts, ZenonT(30)
        <3>7. CASE decision(fsi, bl[b]) = "strong_vote"
            BY <1>1, <3>5, <3>6, <3>7, SMTT(30)
        <3>8. CASE decision(fsi, bl[b]) = "weak_vote" /\ ~extends(bl[b].core, V)
            <4>1. other = TimeIn(bl, V)
                BY <1>3, <3>2, <3>8, ZenonT(30)
            <4>2. QED
                BY <1>1, <3>4, <3>5, <3>6, <4>1
        <3>9. CASE decision(fsi, bl[b]) = "weak_vote" /\ extends(bl[b].core, V)
            <4>1. other = fsi.other_branch_latest_time
                BY <1>3, <3>2, <3>9, ZenonT(30)
            <4>2. V \in BranchIn(bl, b)
                BY <3>9, ExtendsAncestor, ZenonT(30) DEF BranchIn
            <4>3. BranchIn(bl, V) \subseteq BranchIn(bl, b) /\ TimeIn(bl, ClaimIn(bl, V)) <= TimeIn(bl, C)
                BY <4>2, BranchIsChain, ClaimsGrow, ZenonT(30) DEF C
            <4>4. TimeIn(bl, ClaimIn(bl, V)) \in Nat
                BY ClaimFacts, RefFacts, ZenonT(30)
            <4>5. QED
                BY <1>1, <3>4, <3>5, <3>6, <4>1, <4>3, <4>4
        <3>10. QED
            BY <1>3, <3>7, <3>8, <3>9, ZenonT(30)
    <2>3. QED
        BY <1>7, <2>1, <2>2, ZenonT(30) DEF VotesAdded
<1>8. QED
    BY <1>5, <1>7, ZenonT(30) DEF LastVoteOK, other, C

(* After a vote, the lock stands for all locks of the past: it moves to a  *)
(* more recent block with a QC, or stays on a descendant of the new claim. *)
LEMMA DecisionKeepsLock ==
    ASSUME NEW bl, TreeOK(bl), NEW vs, VotesOK(bl, vs), ClaimsOK(bl, vs),
           NEW k, NEW fsi, InfoOK(bl, vs, k, fsi),
           NEW b \in DOMAIN bl, b # genesis, decision(fsi, bl[b]) # "no_vote",
           NEW vs2, VotesAdded(bl, vs, vs2, k, fsi, b)
    PROVE  \E L \in DOMAIN bl :
               fsi_after(fsi, bl[b]).lock = ref_of(bl[L].ref) /\ LockOK(bl, vs2, k, L)
<1> DEFINE C    == ClaimIn(bl, b)
           lock == fsi_after(fsi, bl[b]).lock
<1>1. PICK L \in DOMAIN bl : fsi.lock = ref_of(bl[L].ref) /\ LockOK(bl, vs, k, L)
    BY Zenon DEF InfoOK
<1>2. /\ C \in DOMAIN bl /\ C \in BranchIn(bl, b)
      /\ latest_qc_block_timestamp(bl[b].core) = TimeIn(bl, C)
      /\ latest_qc_claim__block_ref(bl[b]) = ref_of(bl[C].ref)
    BY ClaimFacts, ZenonT(30)
<1>3. TimeIn(bl, C) \in Nat /\ TimeIn(bl, L) \in Nat
    BY <1>2, RefFacts, ZenonT(30)
<1>4. fsi.lock.block_id = L /\ fsi.lock.timestamp = TimeIn(bl, L)
    BY <1>1, RefFacts
<1>5. /\ decision(fsi, bl[b]) = "strong_vote" =>
            lock = IF TimeIn(bl, C) > TimeIn(bl, L) THEN ref_of(bl[C].ref) ELSE fsi.lock
      /\ decision(fsi, bl[b]) = "weak_vote" => lock = fsi.lock
      /\ decision(fsi, bl[b]) = "strong_vote" \/ decision(fsi, bl[b]) = "weak_vote"
    BY <1>2, <1>4, DecisionMeans, ZenonT(30) DEF fsi_after, after_strong_vote, after_weak_vote, safety_information
<1> HIDE DEF lock
<1>6. \A x : QCIn(vs, x) => QCIn(vs2, x)
    BY QCStays, ZenonT(30) DEF VotesAdded
<1>7. ASSUME NEW v \in vs, v.finalizer = k, v.strong
      PROVE  /\ v.block \in DOMAIN bl
             /\ TimeIn(bl, ClaimIn(bl, v.block)) \in Nat
             /\ TimeIn(bl, ClaimIn(bl, v.block)) <= TimeIn(bl, L)
             /\ \/ ClaimIn(bl, v.block) \in BranchIn(bl, L)
                \/ TimeIn(bl, L) > TimeIn(bl, ClaimIn(bl, v.block)) /\ QCIn(vs2, L)
    <2>1. v.block \in DOMAIN bl
        BY Zenon DEF VotesOK
    <2>2. TimeIn(bl, ClaimIn(bl, v.block)) \in Nat
        BY <2>1, ClaimFacts, RefFacts
    <2>3. \/ ClaimIn(bl, v.block) \in BranchIn(bl, L)
          \/ TimeIn(bl, L) > TimeIn(bl, ClaimIn(bl, v.block)) /\ QCIn(vs2, L)
        BY <1>1, <1>6, <1>7, ZenonT(30) DEF LockOK
    <2>4. TimeIn(bl, ClaimIn(bl, v.block)) <= TimeIn(bl, L)
        BY <1>3, <2>2, <2>3, BranchIsChain
    <2>5. QED
        BY <2>1, <2>2, <2>3, <2>4
<1>8. CASE decision(fsi, bl[b]) = "weak_vote"
    <2>1. LockOK(bl, vs2, k, L)
        BY <1>7, <1>8, ZenonT(30) DEF LockOK, VotesAdded
    <2>2. QED
        BY <1>1, <1>5, <1>8, <2>1, Zenon DEF lock
<1>9. CASE decision(fsi, bl[b]) = "strong_vote" /\ TimeIn(bl, C) > TimeIn(bl, L)
    <2>1. QCIn(vs2, C)
        BY <1>6 DEF ClaimsOK
    <2>2. C \in BranchIn(bl, C)
        BY Zenon DEF BranchIn
    <2> HIDE DEF C
    <2>3. ASSUME NEW v \in vs2, v.finalizer = k, v.strong
          PROVE  \/ ClaimIn(bl, v.block) \in BranchIn(bl, C)
                 \/ TimeIn(bl, C) > TimeIn(bl, ClaimIn(bl, v.block)) /\ QCIn(vs2, C)
        <3>1. CASE v \in vs
            BY <1>3, <1>7, <1>9, <2>1, <2>3, <3>1, SMTT(30)
        <3>2. CASE v.block = b
            BY <2>2, <3>2 DEF C
        <3>3. QED
            BY <2>3, <3>1, <3>2, ZenonT(30) DEF VotesAdded
    <2>4. LockOK(bl, vs2, k, C)
        BY <2>3, ZenonT(30) DEF LockOK
    <2>5. QED
        BY <1>2, <1>5, <1>9, <2>4 DEF lock
<1>10. CASE decision(fsi, bl[b]) = "strong_vote" /\ ~(TimeIn(bl, C) > TimeIn(bl, L))
    <2>1. L \in bl[b].ancestors
        <3>1. liveness_check(fsi, bl[b]) \/ safety_check(fsi, bl[b])
            BY DecisionMeans, ZenonT(30)
        <3>2. ~liveness_check(fsi, bl[b])
            BY <1>2, <1>4, <1>10, ZenonT(30) DEF liveness_check
        <3>3. QED
            BY <1>4, <3>1, <3>2, ExtendsAncestor DEF safety_check
    <2>2. L \in BranchIn(bl, b) /\ TimeIn(bl, C) <= TimeIn(bl, L)
        BY <1>3, <1>10, <2>1, SMTT(30) DEF BranchIn
    <2>3. C \in BranchIn(bl, L)
        BY <1>2, <2>2, BranchNumbers, ZenonT(30)
    <2> HIDE DEF C
    <2>4. ASSUME NEW v \in vs2, v.finalizer = k, v.strong
          PROVE  \/ ClaimIn(bl, v.block) \in BranchIn(bl, L)
                 \/ TimeIn(bl, L) > TimeIn(bl, ClaimIn(bl, v.block)) /\ QCIn(vs2, L)
        <3>1. CASE v \in vs
            BY <1>7, <2>4, <3>1, ZenonT(30)
        <3>2. CASE v.block = b
            BY <2>3, <3>2 DEF C
        <3>3. QED
            BY <2>4, <3>1, <3>2, ZenonT(30) DEF VotesAdded
    <2>5. LockOK(bl, vs2, k, L)
        BY <2>4 DEF LockOK
    <2>6. QED
        BY <1>1, <1>5, <1>10, <2>5, ZenonT(30) DEF lock
<1>11. QED
    BY <1>5, <1>8, <1>9, <1>10

(* What decide_vote remembers stands for the votes that it allows. *)
LEMMA DecisionKeepsInfo ==
    ASSUME NEW bl, TreeOK(bl), NEW vs, VotesOK(bl, vs), ClaimsOK(bl, vs),
           NEW k, NEW fsi, InfoOK(bl, vs, k, fsi),
           NEW b \in DOMAIN bl, b # genesis,
           NEW vs2, VotesAdded(bl, vs, vs2, k, fsi, b)
    PROVE  InfoOK(bl, vs2, k, fsi_after(fsi, bl[b]))
<1>1. CASE decision(fsi, bl[b]) = "no_vote"
    <2>1. fsi_after(fsi, bl[b]) = fsi
        BY <1>1 DEF fsi_after
    <2>2. Extended(bl, bl)
        BY Zenon DEF Extended
    <2>3. vs \subseteq vs2 /\ \A v \in vs2 : v.finalizer = k => v \in vs
        BY <1>1, ZenonT(30) DEF VotesAdded
    <2>4. QED
        BY <2>1, <2>2, <2>3, InfoStays
<1>2. CASE decision(fsi, bl[b]) # "no_vote"
    <2>1. fsi_after(fsi, bl[b]).last_vote = ref_of(bl[b].ref)
        BY <1>2, DecisionMeans DEF fsi_after, after_strong_vote, after_weak_vote, safety_information
    <2>2. /\ fsi_after(fsi, bl[b]).other_branch_latest_time \in Nat
          /\ LastVoteOK(bl, vs2, k, b, fsi_after(fsi, bl[b]).other_branch_latest_time)
        BY <1>2, DecisionKeepsLastVote
    <2>3. \E L \in DOMAIN bl :
              fsi_after(fsi, bl[b]).lock = ref_of(bl[L].ref) /\ LockOK(bl, vs2, k, L)
        BY <1>2, DecisionKeepsLock
    <2>4. QED
        BY <2>1, <2>2, <2>3 DEF InfoOK
<1>3. QED
    BY <1>1, <1>2

-----------------------------------------------------------------------------
(* The nodes and their safety files *)

(* The information that a node with the given keys has in memory: it       *)
(* stands for the votes of every key, and a running node has information   *)
(* on every key that has voted.                                            *)
NodeInfoOK(bl, vs, keys, nd) ==
    /\ DOMAIN nd.finalizers \subseteq keys
    /\ DOMAIN nd.inactive \subseteq keys
    /\ DOMAIN nd.finalizers \cap DOMAIN nd.inactive = {}
    /\ \A k \in DOMAIN nd.finalizers : InfoOK(bl, vs, k, nd.finalizers[k])
    /\ \A k \in DOMAIN nd.inactive : InfoOK(bl, vs, k, nd.inactive[k])
    /\ nd.up => \A v \in vs : v.finalizer \in keys =>
                    v.finalizer \in DOMAIN nd.finalizers \cup DOMAIN nd.inactive

(* The same of its safety file, unless that cannot be read. *)
FileInfoOK(bl, vs, keys, f) ==
    /\ DOMAIN f.info \subseteq keys
    /\ \A k \in DOMAIN f.info : InfoOK(bl, vs, k, f.info[k])
    /\ f.status # "torn" => \A v \in vs : v.finalizer \in keys => v.finalizer \in DOMAIN f.info

(* A node that is not concerned. *)
LEMMA NodeStays ==
    ASSUME NEW bl, TreeOK(bl), NEW bl2, Extended(bl, bl2),
           NEW vs, VotesOK(bl, vs), NEW vs2, vs \subseteq vs2,
           NEW keys, \A v \in vs2 : v.finalizer \in keys => v \in vs,
           NEW nd, NEW f
    PROVE  /\ NodeInfoOK(bl, vs, keys, nd) => NodeInfoOK(bl2, vs2, keys, nd)
           /\ FileInfoOK(bl, vs, keys, f) => FileInfoOK(bl2, vs2, keys, f)
<1>1. ASSUME NEW k \in keys, NEW fsi, InfoOK(bl, vs, k, fsi)
      PROVE  InfoOK(bl2, vs2, k, fsi)
    BY <1>1, InfoStays
<1>2. NodeInfoOK(bl, vs, keys, nd) => NodeInfoOK(bl2, vs2, keys, nd)
    BY <1>1, Zenon DEF NodeInfoOK
<1>3. FileInfoOK(bl, vs, keys, f) => FileInfoOK(bl2, vs2, keys, f)
    BY <1>1, ZenonT(30) DEF FileInfoOK
<1>4. QED
    BY <1>2, <1>3, Zenon

(* What a save writes stands for the votes when the memory does.           *)
LEMMA SaveKeepsInfo ==
    ASSUME NEW bl, NEW vs, NEW keys, NEW nd, NodeInfoOK(bl, vs, keys, nd), nd.up
    PROVE  FileInfoOK(bl, vs, keys, Saved(nd))
<1> DEFINE info == saved_info(nd.finalizers, nd.inactive)
<1>1. Saved(nd).info = info /\ Saved(nd).status = "good"
    BY Zenon DEF Saved, safety_file
<1>2. /\ DOMAIN info = DOMAIN nd.finalizers \cup DOMAIN nd.inactive
      /\ \A k \in DOMAIN nd.finalizers \cup DOMAIN nd.inactive :
            info[k] = IF k \in DOMAIN nd.finalizers THEN nd.finalizers[k] ELSE nd.inactive[k]
    BY Zenon DEF saved_info
<1> HIDE DEF info
<1>3. QED
    BY <1>1, <1>2 DEF NodeInfoOK, FileInfoOK

(* A stopped node and a file that cannot be read promise nothing. *)
LEMMA NothingKept ==
    ASSUME NEW bl, NEW vs, NEW keys
    PROVE  NodeInfoOK(bl, vs, keys, stopped) /\ FileInfoOK(bl, vs, keys, torn_file)
<1>1. DOMAIN no_info = {}
    BY Zenon DEF no_info
<1>2. ~stopped.up /\ stopped.finalizers = no_info /\ stopped.inactive = no_info
    BY Zenon DEF stopped
<1>3. torn_file.status = "torn" /\ torn_file.info = no_info
    BY Zenon DEF torn_file, safety_file
<1>4. QED
    BY <1>1, <1>2, <1>3 DEF NodeInfoOK, FileInfoOK

(* A restart with other keys: keys that are not in the file have not voted *)
(* and may take the default, and the others keep what the file says, used  *)
(* or not.                                                                 *)
LEMMA StartKeepsInfo ==
    ASSUME NEW bl, NEW vs, NEW keys, NEW f, FileInfoOK(bl, vs, keys, f), f.status # "torn",
           NEW used \in SUBSET keys, NEW default_fsi,
           \A k \in used : (\A v \in vs : v.finalizer # k) => InfoOK(bl, vs, k, default_fsi)
    PROVE  NodeInfoOK(bl, vs, keys, Started(used, f.info, default_fsi))
<1> DEFINE nd == Started(used, f.info, default_fsi)
<1>1. nd.finalizers = set_keys(used, f.info, default_fsi) /\ nd.inactive = inactive_info(used, f.info)
    BY Zenon DEF Started, running
<1>2. /\ DOMAIN nd.finalizers = used
      /\ \A k \in used : nd.finalizers[k] = IF k \in DOMAIN f.info THEN f.info[k] ELSE default_fsi
    BY <1>1, ZenonT(30) DEF set_keys
<1>3. /\ DOMAIN nd.inactive = DOMAIN f.info \ used
      /\ \A k \in DOMAIN f.info \ used : nd.inactive[k] = f.info[k]
    BY <1>1 DEF inactive_info
<1> HIDE DEF nd
<1>4. \A k \in used : InfoOK(bl, vs, k, nd.finalizers[k])
    BY <1>2 DEF FileInfoOK
<1>5. NodeInfoOK(bl, vs, keys, nd)
    BY <1>2, <1>3, <1>4, Zenon DEF NodeInfoOK, FileInfoOK
<1>6. QED
    BY <1>5 DEF nd

(* The finalizers of a node decide on a block, and some of them vote. *)
LEMMA DecidedKeepsInfo ==
    ASSUME NEW bl, TreeOK(bl), NEW vs, VotesOK(bl, vs), ClaimsOK(bl, vs),
           NEW keys, NEW nd, NodeInfoOK(bl, vs, keys, nd), nd.up,
           NEW b \in DOMAIN bl, b # genesis,
           NEW vs2, vs \subseteq vs2,
           \A v \in vs2 : v \in vs \/
               /\ v.finalizer \in DOMAIN nd.finalizers
               /\ v.block = b
               /\ decision(nd.finalizers[v.finalizer], bl[b]) # "no_vote"
               /\ v.strong => decision(nd.finalizers[v.finalizer], bl[b]) = "strong_vote",
           NEW has_voted
    PROVE  NodeInfoOK(bl, vs2, keys,
               running([k \in DOMAIN nd.finalizers |-> fsi_after(nd.finalizers[k], bl[b])],
                       nd.inactive, has_voted))
<1> DEFINE fin == [k \in DOMAIN nd.finalizers |-> fsi_after(nd.finalizers[k], bl[b])]
           nd2 == running(fin, nd.inactive, has_voted)
<1>1. nd2.finalizers = fin /\ nd2.inactive = nd.inactive
    BY Zenon DEF running
<1>2. ASSUME NEW k \in DOMAIN nd.finalizers
      PROVE  InfoOK(bl, vs2, k, fin[k])
    <2>1. InfoOK(bl, vs, k, nd.finalizers[k])
        BY Zenon DEF NodeInfoOK
    <2>2. VotesAdded(bl, vs, vs2, k, nd.finalizers[k], b)
        BY Zenon DEF VotesAdded
    <2>3. InfoOK(bl, vs2, k, fsi_after(nd.finalizers[k], bl[b]))
        BY <2>1, <2>2, DecisionKeepsInfo, ZenonT(30)
    <2>4. QED
        BY <2>3
<1>3. ASSUME NEW k \in DOMAIN nd.inactive
      PROVE  InfoOK(bl, vs2, k, nd.inactive[k])
    <2>1. InfoOK(bl, vs, k, nd.inactive[k]) /\ k \notin DOMAIN nd.finalizers
        BY Zenon DEF NodeInfoOK
    <2>2. \A v \in vs2 : v.finalizer = k => v \in vs
        BY <2>1
    <2>3. Extended(bl, bl)
        BY Zenon DEF Extended
    <2>4. QED
        BY <2>1, <2>2, <2>3, InfoStays
<1>4. DOMAIN fin = DOMAIN nd.finalizers
    BY Zenon
<1> HIDE DEF fin, nd2
<1>5. NodeInfoOK(bl, vs2, keys, nd2)
    BY <1>1, <1>2, <1>3, <1>4 DEF NodeInfoOK
<1>6. QED
    BY <1>5 DEF nd2, fin

-----------------------------------------------------------------------------
(* The invariant of Savanna *)

(* The inductive invariant: the tree is sound, every claim has its QC, and *)
(* as long as no safety file is lost, what nodes and files hold stands for *)
(* the votes sent.                                                         *)
IInv ==
    /\ TreeOK(blocks)
    /\ VotesOK(blocks, votes)
    /\ ClaimsOK(blocks, votes)
    /\ DOMAIN node = Nodes
    /\ DOMAIN file = Nodes
    /\ \A n \in Nodes : DOMAIN node[n].finalizers \subseteq KeysOf[n]
    /\ faults \in [vote : Nat, stop : Nat, lost_file : Nat]
    /\ faults.lost_file = 0 => \A n \in Nodes : /\ NodeInfoOK(blocks, votes, KeysOf[n], node[n])
                                                /\ FileInfoOK(blocks, votes, KeysOf[n], file[n])

(* The fields of a running node. *)
LEMMA RunningFields ==
    ASSUME NEW finalizers, NEW inactive, NEW has_voted
    PROVE  /\ running(finalizers, inactive, has_voted).finalizers = finalizers
           /\ running(finalizers, inactive, has_voted).inactive = inactive
           /\ running(finalizers, inactive, has_voted).up
BY Zenon DEF running

-----------------------------------------------------------------------------
(* The initial state *)

(* Init: the genesis block alone is a sound tree. *)
LEMMA InitTree == Init => TreeOK(blocks) /\ DOMAIN blocks = {genesis}
<1> SUFFICES ASSUME Init PROVE TreeOK(blocks) /\ DOMAIN blocks = {genesis}
    BY Zenon
<1> DEFINE core == create_core_for_genesis_block(genesis, 1)
<1>1. /\ DOMAIN blocks = {genesis}
      /\ blocks[genesis] = [ref |-> block_ref(genesis, 1, 1, 0), core |-> core, ancestors |-> {}]
    BY Zenon DEF Init
<1>2. genesis.num = 1 /\ genesis \in BlockIds
    BY Zenon DEF genesis, BlockIds
<1>3. SoundCore(core, 1, {})
    BY <1>2, GenesisCore, ZenonT(30)
<1> HIDE DEF core
<1>4. /\ blocks[genesis].ref.block_id = genesis /\ TimeIn(blocks, genesis) = 1
      /\ blocks[genesis].ancestors = {} /\ blocks[genesis].core = core
    BY <1>1 DEF block_ref, TimeIn
<1>5. {blocks[a].ref : a \in blocks[genesis].ancestors} = {}
    BY <1>4, ZenonT(30)
<1>6. BlockOK(blocks, genesis)
    BY <1>1, <1>2, <1>3, <1>4, <1>5, SMTT(30) DEF BlockOK
<1>7. QED
    BY <1>1, <1>4, <1>6 DEF TreeOK

(* Init: the finalizers are locked on the block of the transition. *)
LEMMA InitHolds == Init => IInv
<1> SUFFICES ASSUME Init PROVE IInv
    BY Zenon
<1>1. TreeOK(blocks) /\ DOMAIN blocks = {genesis} /\ genesis \in DOMAIN blocks
    BY InitTree
<1>2. votes = {} /\ VotesOK(blocks, votes)
    BY Zenon DEF Init, VotesOK
<1>3. ClaimsOK(blocks, votes)
    <2>1. ASSUME NEW b \in DOMAIN blocks
          PROVE  QCIn(votes, ClaimIn(blocks, b))
        <3>1. ClaimIn(blocks, b) \in DOMAIN blocks
            BY <1>1, ClaimFacts
        <3>2. QED
            BY <1>1, <3>1 DEF QCIn
    <2>2. QED
        BY <2>1 DEF ClaimsOK
<1>4. faults \in [vote : Nat, stop : Nat, lost_file : Nat]
    BY Zenon DEF Init
<1>5. ASSUME NEW n \in Nodes
      PROVE  /\ DOMAIN node[n].finalizers \subseteq KeysOf[n]
             /\ NodeInfoOK(blocks, votes, KeysOf[n], node[n])
             /\ FileInfoOK(blocks, votes, KeysOf[n], file[n])
    <2> DEFINE ref == ref_of(blocks[genesis].ref)
               fin == set_default_safety_information(set_keys(KeysOf[n], no_info, unset_fsi), transition_fsi(ref))
    <2>1. node[n] = running(fin, no_info, FALSE) /\ file[n] = no_file
        <3> DEFINE started(m) ==
                running(set_default_safety_information(set_keys(KeysOf[m], no_info, unset_fsi), transition_fsi(ref)),
                        no_info, FALSE)
        <3>1. node = [m \in Nodes |-> started(m)] /\ file = [m \in Nodes |-> no_file]
            BY Zenon DEF Init
        <3> HIDE DEF started
        <3>2. node[n] = started(n) /\ file[n] = no_file
            BY <3>1
        <3>3. QED
            BY <3>2, Zenon DEF started
    <2>2. node[n].finalizers = fin /\ node[n].inactive = no_info
        <3> HIDE DEF fin
        <3>1. PICK h : node[n] = running(fin, no_info, h)
            BY <2>1, Zenon
        <3>2. QED
            BY <3>1, RunningFields
    <2>3. DOMAIN no_info = {} /\ file[n].info = no_info
        BY <2>1 DEF no_info, no_file, safety_file
    <2>4. /\ DOMAIN set_keys(KeysOf[n], no_info, unset_fsi) = KeysOf[n]
          /\ \A k \in KeysOf[n] : set_keys(KeysOf[n], no_info, unset_fsi)[k] = unset_fsi
        BY <2>3 DEF set_keys
    <2>5. empty(unset_fsi.last_vote) /\ empty(unset_fsi.lock)
        BY Zenon DEF unset_fsi, safety_information, no_ref, empty
    <2>6. DOMAIN fin = KeysOf[n] /\ \A k \in KeysOf[n] : fin[k] = transition_fsi(ref)
        BY <2>4, <2>5 DEF set_default_safety_information
    <2>7. \A k \in KeysOf[n] : InfoOK(blocks, votes, k, transition_fsi(ref))
        BY <1>1, <1>2, FreshInfo, Zenon DEF transition_fsi
    <2> HIDE DEF fin, ref
    <2>8. QED
        BY <1>2, <2>2, <2>3, <2>6, <2>7 DEF NodeInfoOK, FileInfoOK
<1>6. DOMAIN node = Nodes /\ DOMAIN file = Nodes
    BY Zenon DEF Init
<1>7. QED
    BY <1>1, <1>2, <1>3, <1>4, <1>5, <1>6 DEF IInv

-----------------------------------------------------------------------------
(* Blocks *)

(* A QC, strong or not, is one for SafetyRules. *)
LEMMA QCsCount ==
    ASSUME NEW b
    PROVE  /\ HasQC(b) => QCIn(votes, b)
           /\ HasStrongQC(b) => QCIn(votes, b)
<1>1. HasQC(b) => QCIn(votes, b)
    BY Zenon DEF HasQC, QCIn
<1>2. ASSUME NEW k, VotedStrong(k, b)
      PROVE  \E v \in votes : v.finalizer = k /\ v.block = b
    <2>1. PICK v \in votes : v = [finalizer |-> k, block |-> b, strong |-> TRUE]
        BY <1>2, Zenon DEF VotedStrong
    <2>2. v.finalizer = k /\ v.block = b
        BY <2>1, Zenon
    <2>3. QED
        BY <2>2, Zenon
<1>3. HasStrongQC(b) => QCIn(votes, b)
    BY <1>2, Zenon DEF HasStrongQC, QCIn
<1>4. QED
    BY <1>1, <1>3, Zenon

(* Propose: the claim that the new block makes, and the block. *)
LEMMA ProposeBlock ==
    ASSUME IInv, NEW parent \in DOMAIN blocks, NEW name \in Names, NEW time \in 2 .. MaxTime,
           NEW num \in 1 .. parent.num, NEW strong \in BOOLEAN,
           Propose(parent, name, time, qc_claim_t(num, strong))
    PROVE  LET id == [num |-> parent.num + 1, name |-> name]
           IN  \E claim \in Claims :
                   /\ id \in BlockIds /\ id \notin DOMAIN blocks /\ id.num = parent.num + 1
                   /\ time > TimeIn(blocks, parent)
                   /\ claim.block_num = num
                   /\ claim.block_num \in ClaimNum(blocks, parent) .. parent.num
                   /\ ClaimIsJustified(parent, claim)
                   /\ DOMAIN blocks' = DOMAIN blocks \cup {id} /\ Extended(blocks, blocks')
                   /\ blocks'[id].ref = block_ref(id, time, 1, 0)
                   /\ blocks'[id].core = next(blocks[parent].core, blocks[parent].ref, claim)
                   /\ blocks'[id].ancestors = BranchIn(blocks, parent)
<1> DEFINE id == [num |-> parent.num + 1, name |-> name]
<1>1. TreeOK(blocks)
    BY Zenon DEF IInv
<1>2. parent.num \in Nat /\ id.num = parent.num + 1
    BY <1>1, BlockNumbers, Zenon DEF TreeOK, BlockOK
<1>3. PICK claim \in Claims : claim = qc_claim_t(num, strong)
    <2>1. num \in Nat
        BY <1>2
    <2>2. qc_claim_t(num, strong) \in Claims
        BY <2>1, Zenon DEF Claims, qc_claim_t
    <2>3. QED
        BY <2>2, Zenon
<1>4. claim.block_num = num
    BY <1>3, Zenon DEF qc_claim_t
<1>5. Propose(parent, name, time, claim)
    BY <1>3, Zenon
<1> HIDE DEF id
<1>6. /\ id \in BlockIds /\ id \notin DOMAIN blocks
      /\ time > TimeIn(blocks, parent)
      /\ ClaimIsJustified(parent, claim)
      /\ blocks' = [b \in DOMAIN blocks \cup {id} |->
                       IF b = id THEN block_state(id, parent, time, claim) ELSE blocks[b]]
    BY <1>5, Zenon DEF Propose, id, time_of, TimeIn
<1>7. DOMAIN blocks' = DOMAIN blocks \cup {id} /\ Extended(blocks, blocks')
    BY <1>6, Zenon DEF Extended
<1>8. blocks'[id] = block_state(id, parent, time, claim)
    BY <1>6, Zenon
<1>9. /\ blocks'[id].ref = block_ref(id, time, 1, 0)
      /\ blocks'[id].core = next(blocks[parent].core, blocks[parent].ref, claim)
      /\ blocks'[id].ancestors = BranchIn(blocks, parent)
    BY <1>8 DEF block_state, Branch, BranchIn
<1>10. claim.block_num \in ClaimNum(blocks, parent) .. parent.num
    <2>1. ClaimNum(blocks, parent) \in Int
        BY <1>1, <1>2, ClaimFacts
    <2>2. claim.block_num >= ClaimNum(blocks, parent) /\ claim.block_num <= parent.num
        BY <1>6, Zenon DEF ClaimIsJustified, verify_qc_claim, ClaimNum
    <2>3. QED
        BY <1>2, <1>4, <2>1, <2>2, SMTT(20)
<1>11. QED
    BY <1>2, <1>4, <1>6, <1>7, <1>9, <1>10, Zenon DEF id

(* Propose: the block is a leaf of the tree, and the block it claims is on *)
(* its branch and has a QC.                                                *)
LEMMA ProposeFacts ==
    ASSUME IInv, NEW parent \in DOMAIN blocks, NEW name \in Names, NEW time \in 2 .. MaxTime,
           NEW num \in 1 .. parent.num, NEW strong \in BOOLEAN,
           Propose(parent, name, time, qc_claim_t(num, strong))
    PROVE  LET id == [num |-> parent.num + 1, name |-> name]
               C  == AncestorIn(blocks, parent, num)
           IN  /\ id \in BlockIds /\ id \notin DOMAIN blocks
               /\ DOMAIN blocks' = DOMAIN blocks \cup {id}
               /\ Extended(blocks, blocks')
               /\ TreeOK(blocks')
               /\ TimeIn(blocks', id) = time /\ time > TimeIn(blocks, parent)
               /\ blocks'[id].ancestors = BranchIn(blocks, parent)
               /\ ClaimIn(blocks', id) = C /\ C \in BranchIn(blocks, parent) /\ QCIn(votes, C)
<1> DEFINE id == [num |-> parent.num + 1, name |-> name]
           C  == AncestorIn(blocks, parent, num)
<1>1. TreeOK(blocks) /\ ClaimsOK(blocks, votes)
    BY Zenon DEF IInv
<1>2. PICK claim \in Claims :
          /\ id \in BlockIds /\ id \notin DOMAIN blocks /\ id.num = parent.num + 1
          /\ time > TimeIn(blocks, parent)
          /\ claim.block_num = num
          /\ claim.block_num \in ClaimNum(blocks, parent) .. parent.num
          /\ ClaimIsJustified(parent, claim)
          /\ DOMAIN blocks' = DOMAIN blocks \cup {id} /\ Extended(blocks, blocks')
          /\ blocks'[id].ref = block_ref(id, time, 1, 0)
          /\ blocks'[id].core = next(blocks[parent].core, blocks[parent].ref, claim)
          /\ blocks'[id].ancestors = BranchIn(blocks, parent)
    BY ProposeBlock, Zenon
<1> HIDE DEF id, C
<1>3. claim # latest_qc_claim(blocks[parent].core) => QCIn(votes, C)
    BY <1>2, QCsCount, ZenonT(30) DEF ClaimIsJustified, AncestorAt, AncestorIn, Branch, BranchIn, C
<1>4. /\ TreeOK(blocks') /\ TimeIn(blocks', id) = time
      /\ ClaimIn(blocks', id) = C /\ C \in BranchIn(blocks, parent)
    BY <1>1, <1>2, TreeGrows, SMTT(30) DEF C
<1>5. QCIn(votes, C)
    <2>1. CASE claim = latest_qc_claim(blocks[parent].core)
        <3>1. num = ClaimNum(blocks, parent)
            BY <1>2, <2>1, Zenon DEF ClaimNum
        <3>2. C = ClaimIn(blocks, parent)
            BY <3>1, Zenon DEF C, ClaimIn
        <3>3. QED
            BY <1>1, <3>2, Zenon DEF ClaimsOK
    <2>2. QED
        BY <1>3, <2>1, Zenon
<1>6. QED
    BY <1>2, <1>4, <1>5, Zenon DEF id, C

(* Propose keeps the invariant: nobody's information is concerned.         *)
LEMMA ProposeKeeps ==
    ASSUME IInv, NEW parent \in DOMAIN blocks, NEW name \in Names, NEW time \in 2 .. MaxTime,
           NEW num \in 1 .. parent.num, NEW strong \in BOOLEAN,
           Propose(parent, name, time, qc_claim_t(num, strong))
    PROVE  IInv'
<1> DEFINE id == [num |-> parent.num + 1, name |-> name]
<1>1. PICK C : /\ DOMAIN blocks' = DOMAIN blocks \cup {id}
               /\ Extended(blocks, blocks') /\ TreeOK(blocks')
               /\ ClaimIn(blocks', id) = C /\ QCIn(votes, C)
    BY ProposeFacts, Zenon
<1> HIDE DEF id
<1>2. TreeOK(blocks) /\ VotesOK(blocks, votes) /\ ClaimsOK(blocks, votes)
    BY Zenon DEF IInv
<1>3. UNCHANGED << node, file, votes, faults >>
    BY Zenon DEF Propose
<1>4. VotesOK(blocks', votes)
    BY <1>1, <1>2, Zenon DEF VotesOK
<1>5. ClaimsOK(blocks', votes)
    <2>1. ASSUME NEW b \in DOMAIN blocks'
          PROVE  QCIn(votes, ClaimIn(blocks', b))
        <3>1. CASE b = id
            BY <1>1, <3>1, Zenon
        <3>2. CASE b \in DOMAIN blocks
            <4>1. ClaimIn(blocks', b) = ClaimIn(blocks, b)
                BY <1>1, <3>2, OldBlocks, ZenonT(30)
            <4>2. QED
                BY <1>2, <3>2, <4>1 DEF ClaimsOK
        <3>3. QED
            BY <1>1, <3>1, <3>2, Zenon
    <2>2. QED
        BY <2>1, Zenon DEF ClaimsOK
<1>6. ASSUME faults.lost_file = 0, NEW n \in Nodes
      PROVE  /\ NodeInfoOK(blocks', votes, KeysOf[n], node[n])
             /\ FileInfoOK(blocks', votes, KeysOf[n], file[n])
    <2>1. /\ NodeInfoOK(blocks, votes, KeysOf[n], node[n])
          /\ FileInfoOK(blocks, votes, KeysOf[n], file[n])
        BY <1>6, ZenonT(30) DEF IInv
    <2>2. QED
        BY <1>1, <1>2, <2>1, NodeStays
<1>7. QED
    BY <1>1, <1>3, <1>4, <1>5, <1>6, Zenon DEF IInv

-----------------------------------------------------------------------------
(* Steps of a node *)

(* A step of node n that adds votes of its own keys only concerns what the *)
(* node and its file hold.                                                 *)
LEMMA NodeStep ==
    ASSUME IInv, NEW n \in Nodes, blocks' = blocks,
           votes \subseteq votes', VotesOK(blocks, votes'),
           \A v \in votes' : v \in votes \/ v.finalizer \in KeysOf[n],
           DOMAIN node' = Nodes, DOMAIN file' = Nodes,
           \A m \in Nodes \ {n} : node'[m] = node[m] /\ file'[m] = file[m],
           DOMAIN node'[n].finalizers \subseteq KeysOf[n],
           faults' \in [vote : Nat, stop : Nat, lost_file : Nat],
           faults'.lost_file = 0 =>
               /\ faults.lost_file = 0
               /\ NodeInfoOK(blocks, votes', KeysOf[n], node'[n])
               /\ FileInfoOK(blocks, votes', KeysOf[n], file'[n])
    PROVE  IInv'
<1>1. TreeOK(blocks) /\ VotesOK(blocks, votes) /\ ClaimsOK(blocks, votes)
    BY Zenon DEF IInv
<1>2. ClaimsOK(blocks, votes')
    BY <1>1, QCStays, ZenonT(30) DEF ClaimsOK
<1>3. ASSUME faults'.lost_file = 0, NEW m \in Nodes, m # n
      PROVE  /\ NodeInfoOK(blocks, votes', KeysOf[m], node'[m])
             /\ FileInfoOK(blocks, votes', KeysOf[m], file'[m])
    <2>1. node'[m] = node[m] /\ file'[m] = file[m]
        BY <1>3, Zenon
    <2>2. /\ NodeInfoOK(blocks, votes, KeysOf[m], node[m])
          /\ FileInfoOK(blocks, votes, KeysOf[m], file[m])
        BY <1>3, Zenon DEF IInv
    <2>3. KeysOf[m] \cap KeysOf[n] = {}
        BY <1>3, KeysOfAssumption, Zenon
    <2>4. \A v \in votes' : v.finalizer \in KeysOf[m] => v \in votes
        BY <2>3, Zenon
    <2>5. Extended(blocks, blocks)
        BY Zenon DEF Extended
    <2>6. QED
        BY <1>1, <2>1, <2>2, <2>4, <2>5, NodeStays
<1>4. \A m \in Nodes : DOMAIN node'[m].finalizers \subseteq KeysOf[m]
    <2>1. ASSUME NEW m \in Nodes
          PROVE  DOMAIN node'[m].finalizers \subseteq KeysOf[m]
        <3>1. CASE m = n
            BY <3>1, Zenon
        <3>2. CASE m # n
            BY <3>2, Zenon DEF IInv
        <3>3. QED
            BY <3>1, <3>2, Zenon
    <2>2. QED
        BY <2>1, Zenon
<1>5. faults'.lost_file = 0 => \A m \in Nodes : /\ NodeInfoOK(blocks, votes', KeysOf[m], node'[m])
                                                /\ FileInfoOK(blocks, votes', KeysOf[m], file'[m])
    BY <1>3, Zenon
<1>6. QED
    BY <1>1, <1>2, <1>4, <1>5 DEF IInv

(* The votes of a node for a block are votes of its keys, as decided.      *)
LEMMA VotesForFacts ==
    ASSUME NEW n, NEW b, NEW signed \in SUBSET Voters(n, b), NEW v \in VotesFor(n, b, signed)
    PROVE  /\ v.finalizer \in signed
           /\ v.finalizer \in DOMAIN node[n].finalizers
           /\ v.block = b
           /\ decision(node[n].finalizers[v.finalizer], blocks[b]) # "no_vote"
           /\ v.strong \in BOOLEAN
           /\ v.strong <=> decision(node[n].finalizers[v.finalizer], blocks[b]) = "strong_vote"
           /\ v = [finalizer |-> v.finalizer, block |-> b, strong |-> v.strong]
<1>1. PICK k \in signed : v = [finalizer |-> k, block |-> b,
                               strong |-> decision(node[n].finalizers[k], blocks[b]) = "strong_vote"]
    BY Zenon DEF VotesFor
<1>2. PICK s : /\ s = (decision(node[n].finalizers[k], blocks[b]) = "strong_vote")
               /\ v = [finalizer |-> k, block |-> b, strong |-> s]
    BY <1>1, Zenon
<1>3. v.finalizer = k /\ v.block = b /\ v.strong = s
    BY <1>2, Zenon
<1>4. s \in BOOLEAN /\ (s <=> decision(node[n].finalizers[k], blocks[b]) = "strong_vote")
    BY <1>2, Zenon
<1>5. k \in DOMAIN node[n].finalizers /\ decision(node[n].finalizers[k], blocks[b]) # "no_vote"
    BY <1>1, Zenon DEF Voters
<1>6. QED
    BY <1>2, <1>3, <1>4, <1>5, Zenon

(* Votes sent are votes on known blocks. *)
LEMMA VotesStayOK ==
    ASSUME IInv, NEW n \in Nodes, NEW b \in DOMAIN blocks, b # genesis,
           NEW signed \in SUBSET Voters(n, b), NEW vs2, vs2 = votes \cup VotesFor(n, b, signed)
    PROVE  /\ VotesOK(blocks, vs2)
           /\ \A v \in vs2 : v \in votes \/ v.finalizer \in KeysOf[n]
<1>1. VotesOK(blocks, votes) /\ b \in BlockIds /\ DOMAIN node[n].finalizers \subseteq KeysOf[n]
    BY Zenon DEF IInv, TreeOK, BlockOK
<1>2. ASSUME NEW v \in VotesFor(n, b, signed)
      PROVE  v \in Votes /\ v.block = b /\ v.finalizer \in KeysOf[n]
    <2>1. /\ v.finalizer \in KeysOf[n] /\ v.block = b /\ v.strong \in BOOLEAN
          /\ v = [finalizer |-> v.finalizer, block |-> b, strong |-> v.strong]
        BY <1>1, VotesForFacts
    <2>2. v.finalizer \in Keys
        BY <2>1, KeysOfAssumption, Zenon
    <2>3. QED
        BY <1>1, <2>1, <2>2, Zenon DEF Votes
<1>3. QED
    BY <1>1, <1>2, Zenon DEF VotesOK

(* maybe_vote: the information of the node stands for the votes after its  *)
(* finalizers have decided, whichever of the votes are sent.               *)
LEMMA DecidedKeeps ==
    ASSUME IInv, faults.lost_file = 0, NEW n \in Nodes, NEW b \in DOMAIN blocks, MayVote(n, b),
           NEW signed \in SUBSET Voters(n, b), NEW sent \in SUBSET Voters(n, b),
           NEW vs2, vs2 = votes \cup VotesFor(n, b, sent)
    PROVE  /\ NodeInfoOK(blocks, vs2, KeysOf[n], Decided(n, b, signed))
           /\ FileInfoOK(blocks, vs2, KeysOf[n], Saved(Decided(n, b, signed)))
<1>1. /\ TreeOK(blocks) /\ VotesOK(blocks, votes) /\ ClaimsOK(blocks, votes)
      /\ NodeInfoOK(blocks, votes, KeysOf[n], node[n])
    BY Zenon DEF IInv
<1>2. node[n].up /\ b # genesis
    BY Zenon DEF MayVote
<1>3. \A v \in vs2 : v \in votes \/
          /\ v.finalizer \in DOMAIN node[n].finalizers
          /\ v.block = b
          /\ decision(node[n].finalizers[v.finalizer], blocks[b]) # "no_vote"
          /\ v.strong => decision(node[n].finalizers[v.finalizer], blocks[b]) = "strong_vote"
    <2>1. ASSUME NEW v \in VotesFor(n, b, sent)
          PROVE  /\ v.finalizer \in DOMAIN node[n].finalizers
                 /\ v.block = b
                 /\ decision(node[n].finalizers[v.finalizer], blocks[b]) # "no_vote"
                 /\ v.strong => decision(node[n].finalizers[v.finalizer], blocks[b]) = "strong_vote"
        <3>1. /\ v.finalizer \in DOMAIN node[n].finalizers
              /\ v.block = b
              /\ decision(node[n].finalizers[v.finalizer], blocks[b]) # "no_vote"
            BY VotesForFacts
        <3>2. v.strong <=> decision(node[n].finalizers[v.finalizer], blocks[b]) = "strong_vote"
            BY VotesForFacts
        <3>3. QED
            BY <3>1, <3>2, Zenon
    <2>2. \A v \in vs2 : v \in votes \/ v \in VotesFor(n, b, sent)
        BY Zenon
    <2>3. QED
        BY <2>1, <2>2, Zenon
<1>4. votes \subseteq vs2
    BY Zenon
<1> DEFINE fin == [k \in DOMAIN node[n].finalizers |-> fsi_after(node[n].finalizers[k], blocks[b])]
<1>5. PICK h : Decided(n, b, signed) = running(fin, node[n].inactive, h)
    BY Zenon DEF Decided
<1>6. NodeInfoOK(blocks, vs2, KeysOf[n], running(fin, node[n].inactive, h))
    BY <1>1, <1>2, <1>3, <1>4, DecidedKeepsInfo, ZenonT(30)
<1> HIDE DEF fin
<1>7. NodeInfoOK(blocks, vs2, KeysOf[n], Decided(n, b, signed)) /\ Decided(n, b, signed).up
    BY <1>5, <1>6, RunningFields, SMTT(30)
<1>8. QED
    BY <1>7, SaveKeepsInfo, Zenon

(* A vote in general: signed are the finalizers whose vote is made, sent   *)
(* those whose vote leaves the node, which is only after a save.           *)
LEMMA VoteStep ==
    ASSUME IInv, NEW n \in Nodes, NEW b \in DOMAIN blocks, MayVote(n, b),
           NEW signed \in SUBSET Voters(n, b), NEW sent \in SUBSET Voters(n, b),
           NEW nd, nd \in {Decided(n, b, signed), stopped}, node' = [node EXCEPT ![n] = nd],
           NEW f, f \in SaveFails(n, Decided(n, b, signed)),
           file' = [file EXCEPT ![n] = f] \/ (file' = file /\ f = file[n]),
           sent # {} => f = Saved(Decided(n, b, signed)),
           votes' = votes \cup VotesFor(n, b, sent), blocks' = blocks,
           faults' \in [vote : Nat, stop : Nat, lost_file : Nat],
           faults'.lost_file = faults.lost_file
    PROVE  IInv'
<1>1. DOMAIN node = Nodes /\ DOMAIN file = Nodes
    BY Zenon DEF IInv
<1>2. /\ DOMAIN node' = Nodes /\ DOMAIN file' = Nodes
      /\ \A m \in Nodes \ {n} : node'[m] = node[m] /\ file'[m] = file[m]
      /\ node'[n] = nd /\ file'[n] = f
    BY <1>1, Zenon
<1>3. /\ VotesOK(blocks, votes')
      /\ \A v \in votes' : v \in votes \/ v.finalizer \in KeysOf[n]
    BY VotesStayOK, Zenon DEF MayVote
<1>4. DOMAIN nd.finalizers \subseteq KeysOf[n]
    <2>1. DOMAIN node[n].finalizers \subseteq KeysOf[n]
        BY Zenon DEF IInv
    <2>2. CASE nd = stopped
        BY <2>2, Zenon DEF stopped, no_info
    <2>3. CASE nd = Decided(n, b, signed)
        <3> DEFINE fin == [k \in DOMAIN node[n].finalizers |-> fsi_after(node[n].finalizers[k], blocks[b])]
        <3>1. PICK h : nd = running(fin, node[n].inactive, h)
            BY <2>3, Zenon DEF Decided
        <3>2. DOMAIN fin = DOMAIN node[n].finalizers
            BY Zenon
        <3> HIDE DEF fin
        <3>3. nd.finalizers = fin
            BY <3>1, RunningFields
        <3>4. QED
            BY <2>1, <3>2, <3>3
    <2>4. QED
        BY <2>2, <2>3
<1>5. ASSUME faults'.lost_file = 0
      PROVE  /\ NodeInfoOK(blocks, votes', KeysOf[n], nd)
             /\ FileInfoOK(blocks, votes', KeysOf[n], f)
    <2>1. faults.lost_file = 0
        BY <1>5, Zenon
    <2>2. /\ NodeInfoOK(blocks, votes', KeysOf[n], Decided(n, b, signed))
          /\ FileInfoOK(blocks, votes', KeysOf[n], Saved(Decided(n, b, signed)))
        BY <2>1, DecidedKeeps, Zenon
    <2>3. NodeInfoOK(blocks, votes', KeysOf[n], stopped) /\ FileInfoOK(blocks, votes', KeysOf[n], torn_file)
        BY NothingKept, Zenon
    <2>4. ASSUME sent = {} PROVE FileInfoOK(blocks, votes', KeysOf[n], file[n])
        <3>1. votes' = votes
            BY <2>4, Zenon DEF VotesFor
        <3>2. FileInfoOK(blocks, votes, KeysOf[n], file[n])
            BY <2>1, Zenon DEF IInv
        <3>3. QED
            BY <3>1, <3>2, Zenon
    <2>5. f = Saved(Decided(n, b, signed)) \/ f = torn_file \/ (f = file[n] /\ sent = {})
        BY Zenon DEF SaveFails
    <2>6. QED
        BY <2>2, <2>3, <2>4, <2>5, Zenon
<1>6. QED
    BY <1>2, <1>3, <1>4, <1>5, NodeStep, Zenon

(* maybe_vote, whatever fails and wherever the process dies in it.         *)
LEMMA VoteKeeps ==
    ASSUME IInv, NEW n \in Nodes, NEW b \in DOMAIN blocks,
           \/ Vote(n, b)
           \/ \E signed \in SUBSET Voters(n, b) : VoteUnsigned(n, b, signed)
           \/ VoteUnsaved(n, b)
           \/ VoteCrash(n, b)
    PROVE  IInv'
<1> DEFINE all == Voters(n, b)
           D(signed) == Decided(n, b, signed)
<1> USE DEF SaveFails
<1>1. /\ faults \in [vote : Nat, stop : Nat, lost_file : Nat]
      /\ DOMAIN node = Nodes /\ DOMAIN file = Nodes
    BY Zenon DEF IInv
<1>2. VoteFault => /\ faults' \in [vote : Nat, stop : Nat, lost_file : Nat]
                   /\ faults'.lost_file = faults.lost_file
    BY <1>1 DEF VoteFault
<1>3. VotesFor(n, b, {}) = {}
    BY Zenon DEF VotesFor
<1>4. CASE Vote(n, b)
    <2>1. /\ MayVote(n, b) /\ node' = [node EXCEPT ![n] = D(all)]
          /\ file' = [file EXCEPT ![n] = Saved(D(all))]
          /\ votes' = votes \cup VotesFor(n, b, all) /\ blocks' = blocks /\ faults' = faults
        BY <1>1, <1>4, Zenon DEF Vote
    <2>2. QED
        BY <1>1, <2>1, VoteStep, Zenon
<1>5. ASSUME NEW signed \in SUBSET all, VoteUnsigned(n, b, signed) PROVE IInv'
    <2>1. /\ MayVote(n, b) /\ VoteFault /\ node' = [node EXCEPT ![n] = D(signed)]
          /\ votes' = votes \cup VotesFor(n, b, signed) /\ blocks' = blocks
        BY <1>5, Zenon DEF VoteUnsigned
    <2>2. PICK f \in SaveFails(n, D(signed)) :
              /\ file' = [file EXCEPT ![n] = f] \/ (file' = file /\ f = file[n])
              /\ signed # {} => f = Saved(D(signed))
        BY <1>1, <1>5, <2>1 DEF VoteUnsigned
    <2>3. QED
        BY <1>2, <2>1, <2>2, VoteStep, Zenon
<1>6. CASE VoteUnsaved(n, b)
    <2>1. /\ MayVote(n, b) /\ VoteFault /\ node' = [node EXCEPT ![n] = D(all)]
          /\ votes' = votes /\ blocks' = blocks
        BY <1>6, Zenon DEF VoteUnsaved
    <2>2. PICK f \in SaveFails(n, D(all)) : file' = [file EXCEPT ![n] = f]
        BY <1>1, <1>6, <2>1, Zenon DEF VoteUnsaved
    <2>3. votes' = votes \cup VotesFor(n, b, {})
        BY <1>3, <2>1, Zenon
    <2>4. QED
        BY <1>2, <2>1, <2>2, <2>3, VoteStep, Zenon
<1>7. CASE VoteCrash(n, b)
    <2>1. /\ MayVote(n, b) /\ VoteFault /\ node' = [node EXCEPT ![n] = stopped] /\ blocks' = blocks
        BY <1>7, Zenon DEF VoteCrash
    <2>2. PICK f \in SaveFails(n, D(all)), sent \in SUBSET all :
              /\ file' = [file EXCEPT ![n] = f]
              /\ sent # {} => f = Saved(D(all))
              /\ votes' = votes \cup VotesFor(n, b, sent)
        <3>1. CASE \E f \in SaveFails(n, D(all)) : file' = [file EXCEPT ![n] = f] /\ votes' = votes
            BY <1>3, <3>1, Zenon
        <3>2. CASE /\ file' = [file EXCEPT ![n] = Saved(D(all))]
                   /\ \E sent \in SUBSET all : votes' = votes \cup VotesFor(n, b, sent)
            BY <3>2, Zenon
        <3>3. QED
            BY <1>7, <3>1, <3>2 DEF VoteCrash
    <2>3. QED
        BY <1>2, <2>1, <2>2, VoteStep, Zenon
<1>8. QED
    BY <1>4, <1>5, <1>6, <1>7

(* maybe_update_fsi: evidence of a strong vote tells a finalizer nothing   *)
(* that its information does not cover, unless a safety file was lost.     *)
LEMMA EvidenceIsOld ==
    ASSUME NEW bl, TreeOK(bl), NEW vs, NEW k, NEW fsi, InfoOK(bl, vs, k, fsi),
           NEW b \in DOMAIN bl, NEW v \in vs, v.finalizer = k, v.block = b
    PROVE  maybe_update_fsi(fsi, bl[b]) = fsi
<1>1. PICK V \in DOMAIN bl : /\ fsi.last_vote = ref_of(bl[V].ref)
                             /\ LastVoteOK(bl, vs, k, V, fsi.other_branch_latest_time)
    BY Zenon DEF InfoOK
<1>2. TimeIn(bl, b) <= TimeIn(bl, V)
    BY <1>1, ZenonT(30) DEF LastVoteOK
<1>3. fsi.last_vote.timestamp = TimeIn(bl, V) /\ TimeIn(bl, V) \in Nat /\ TimeIn(bl, b) \in Nat
    BY <1>1, RefFacts, ZenonT(30)
<1>4. ~(TimeIn(bl, b) > fsi.last_vote.timestamp)
    BY <1>2, <1>3
<1>5. QED
    BY <1>4, Zenon DEF maybe_update_fsi, TimeIn

(* A block with a strong QC arrives. *)
LEMMA ReceiveKeeps ==
    ASSUME IInv, NEW n \in Nodes, NEW b \in DOMAIN blocks, NEW qc \in StrongQCs(b),
           ReceiveStrongQC(n, b, qc)
    PROVE  IInv'
<1> DEFINE fin == node[n].finalizers
           own == qc \cap DOMAIN fin
           updated == [k \in DOMAIN fin |-> IF k \in own THEN maybe_update_fsi(fin[k], blocks[b]) ELSE fin[k]]
<1>1. DOMAIN node = Nodes /\ DOMAIN file = Nodes
    BY Zenon DEF IInv
<1>2. PICK h : node' = [node EXCEPT ![n] = running(updated, node[n].inactive, h)]
    BY Zenon DEF ReceiveStrongQC
<1> DEFINE nd == running(updated, node[n].inactive, h)
<1>3. /\ node[n].up /\ blocks' = blocks /\ votes' = votes /\ faults' = faults
      /\ \E f \in {file[n], torn_file, Saved(node'[n])} : file' = [file EXCEPT ![n] = f]
    BY Zenon DEF ReceiveStrongQC, SaveFails
<1>4. DOMAIN updated = DOMAIN fin /\ DOMAIN fin \subseteq KeysOf[n]
    BY ZenonT(30) DEF IInv
<1>5. ASSUME faults.lost_file = 0
      PROVE  \A k \in DOMAIN fin : updated[k] = fin[k]
    <2> SUFFICES ASSUME NEW k \in own PROVE maybe_update_fsi(fin[k], blocks[b]) = fin[k]
        BY Zenon
    <2>1. InfoOK(blocks, votes, k, fin[k])
        BY <1>5, Zenon DEF IInv, NodeInfoOK
    <2>2. VotedStrong(k, b)
        BY Zenon DEF StrongQCs
    <2>3. PICK v \in votes : v.finalizer = k /\ v.block = b
        BY <2>2, Zenon DEF VotedStrong
    <2>4. QED
        BY <2>1, <2>3, EvidenceIsOld DEF IInv
<1> HIDE DEF updated
<1>6. nd.finalizers = updated /\ nd.inactive = node[n].inactive /\ nd.up
    BY RunningFields
<1> HIDE DEF nd
<1>7. node'[n] = nd /\ node' = [node EXCEPT ![n] = nd]
    BY <1>1, <1>2, Zenon DEF nd
<1>8. PICK f \in {file[n], torn_file, Saved(nd)} : file' = [file EXCEPT ![n] = f]
    BY <1>3, <1>7, Zenon
<1>9. ASSUME faults.lost_file = 0
      PROVE  NodeInfoOK(blocks, votes, KeysOf[n], nd) /\ FileInfoOK(blocks, votes, KeysOf[n], f)
    <2>1. /\ NodeInfoOK(blocks, votes, KeysOf[n], node[n])
          /\ FileInfoOK(blocks, votes, KeysOf[n], file[n])
        BY <1>9, Zenon DEF IInv
    <2>2. \A k \in DOMAIN fin : updated[k] = fin[k]
        BY <1>5, <1>9, Zenon
    <2>3. NodeInfoOK(blocks, votes, KeysOf[n], nd)
        BY <1>3, <1>4, <1>6, <2>1, <2>2 DEF NodeInfoOK
    <2>4. QED
        BY <1>6, <2>1, <2>3, SaveKeepsInfo, NothingKept, Zenon
<1>10. VotesOK(blocks, votes) /\ faults \in [vote : Nat, stop : Nat, lost_file : Nat]
    BY Zenon DEF IInv
<1>11. /\ DOMAIN node' = Nodes /\ DOMAIN file' = Nodes /\ file'[n] = f
       /\ \A m \in Nodes \ {n} : node'[m] = node[m] /\ file'[m] = file[m]
    BY <1>1, <1>7, <1>8
<1>12. QED
    BY <1>3, <1>4, <1>6, <1>7, <1>9, <1>10, <1>11, NodeStep, ZenonT(30)

(* A process ends between two votes, or its safety file is lost. *)
LEMMA StopKeeps ==
    ASSUME IInv, NEW n \in Nodes, Stop(n) \/ LoseFile(n)
    PROVE  IInv'
<1>1. /\ DOMAIN node = Nodes /\ DOMAIN file = Nodes /\ VotesOK(blocks, votes)
      /\ faults \in [vote : Nat, stop : Nat, lost_file : Nat]
      /\ DOMAIN node[n].finalizers \subseteq KeysOf[n]
    BY Zenon DEF IInv
<1>2. CASE Stop(n)
    <2>1. /\ node' = [node EXCEPT ![n] = stopped] /\ blocks' = blocks /\ file' = file /\ votes' = votes
          /\ faults' = [faults EXCEPT !.stop = @ + 1]
        BY <1>2, Zenon DEF Stop
    <2>2. faults' \in [vote : Nat, stop : Nat, lost_file : Nat] /\ faults'.lost_file = faults.lost_file
        BY <1>1, <2>1
    <2>3. DOMAIN stopped.finalizers = {}
        BY Zenon DEF stopped, no_info
    <2>4. NodeInfoOK(blocks, votes, KeysOf[n], stopped)
        BY NothingKept, Zenon
    <2>5. faults.lost_file = 0 => FileInfoOK(blocks, votes, KeysOf[n], file[n])
        BY Zenon DEF IInv
    <2>6. /\ DOMAIN node' = Nodes /\ node'[n] = stopped /\ \A m \in Nodes \ {n} : node'[m] = node[m]
        BY <1>1, <2>1, Zenon
    <2>7. QED
        BY <1>1, <2>1, <2>2, <2>3, <2>4, <2>5, <2>6, NodeStep, ZenonT(30)
<1>3. CASE LoseFile(n)
    <2>1. /\ file' = [file EXCEPT ![n] = no_file] /\ blocks' = blocks /\ node' = node /\ votes' = votes
          /\ faults' = [faults EXCEPT !.lost_file = @ + 1]
        BY <1>3, Zenon DEF LoseFile
    <2>2. faults' \in [vote : Nat, stop : Nat, lost_file : Nat] /\ faults'.lost_file # 0
        BY <1>1, <2>1
    <2>3. /\ DOMAIN file' = Nodes /\ \A m \in Nodes \ {n} : file'[m] = file[m]
        BY <1>1, <2>1, Zenon
    <2>4. QED
        BY <1>1, <2>1, <2>2, <2>3, NodeStep, Zenon
<1>4. QED
    BY <1>2, <1>3

(* The last final block of a block, the root that a node may start with,  *)
(* is a block of its branch.                                               *)
LEMMA FinalBlocksKnown ==
    ASSUME TreeOK(blocks)
    PROVE  \A b \in FinalBlocks : b \in DOMAIN blocks
<1> SUFFICES ASSUME NEW b \in DOMAIN blocks
             PROVE  AncestorAt(b, last_final_block_num(blocks[b].core)) \in DOMAIN blocks
    BY Zenon DEF FinalBlocks
<1> DEFINE num == last_final_block_num(blocks[b].core)
<1>1. SoundCore(blocks[b].core, b.num, {blocks[a].ref : a \in blocks[b].ancestors}) /\ b.num \in Nat
    BY BlockNumbers, Zenon DEF TreeOK, BlockOK
<1>2. num \in 1 .. b.num
    BY <1>1, CoreNumbers, ZenonT(30)
<1>3. num \in Nat /\ num <= num /\ num <= b.num
    BY <1>1, <1>2
<1>4. AncestorIn(blocks, b, num) \in BranchIn(blocks, b)
    BY <1>3, BranchHasNumber, Zenon
<1>5. BranchIn(blocks, b) \subseteq DOMAIN blocks
    BY BranchIsChain, ZenonT(30)
<1>6. QED
    BY <1>4, <1>5, Zenon DEF AncestorAt, AncestorIn, Branch, BranchIn

(* A node starts, with any of its keys and either default: a key that has  *)
(* voted finds its information in the file.                                *)
LEMMA StartKeeps ==
    ASSUME IInv, NEW n \in Nodes, NEW keys \in SUBSET KeysOf[n],
           NEW default_fsi \in DefaultsAtStartup, Start(n, keys, default_fsi)
    PROVE  IInv'
<1> DEFINE nd == Started(keys, file[n].info, default_fsi)
<1>1. /\ DOMAIN node = Nodes /\ DOMAIN file = Nodes /\ TreeOK(blocks) /\ VotesOK(blocks, votes)
      /\ faults \in [vote : Nat, stop : Nat, lost_file : Nat]
    BY Zenon DEF IInv
<1>2. /\ node' = [node EXCEPT ![n] = nd] /\ file[n].status # "torn"
      /\ blocks' = blocks /\ file' = file /\ votes' = votes /\ faults' = faults
    BY Zenon DEF Start
<1>3. \A b \in FinalBlocks : b \in DOMAIN blocks
    BY <1>1, FinalBlocksKnown, Zenon
<1>4. ASSUME NEW k, \A v \in votes : v.finalizer # k
      PROVE  InfoOK(blocks, votes, k, default_fsi)
    <2>1. CASE default_fsi = transition_fsi(ref_of(blocks[genesis].ref))
        <3>1. genesis \in DOMAIN blocks
            BY <1>1, Zenon DEF TreeOK
        <3>2. QED
            BY <1>4, <2>1, <3>1, FreshInfo, Zenon DEF transition_fsi
    <2>2. CASE \E b \in FinalBlocks :
                   default_fsi = safety_information(no_ref, ref_of(blocks[b].ref), NoTimestamp)
        BY <1>3, <1>4, <2>2, FreshInfo, Zenon
    <2>3. QED
        BY <2>1, <2>2, Zenon DEF DefaultsAtStartup
<1>5. faults.lost_file = 0 => NodeInfoOK(blocks, votes, KeysOf[n], nd)
    BY <1>2, <1>4, StartKeepsInfo, Zenon DEF IInv
<1>6. DOMAIN nd.finalizers \subseteq KeysOf[n]
    <2>1. nd.finalizers = set_keys(keys, file[n].info, default_fsi)
        <3>1. PICK h : nd = running(set_keys(keys, file[n].info, default_fsi),
                                    inactive_info(keys, file[n].info), h)
            BY Zenon DEF Started
        <3>2. QED
            BY <3>1, RunningFields
    <2>2. QED
        BY <2>1, ZenonT(30) DEF set_keys
<1> HIDE DEF nd
<1>7. /\ DOMAIN node' = Nodes /\ node'[n] = nd /\ \A m \in Nodes \ {n} : node'[m] = node[m]
    BY <1>1, <1>2, Zenon
<1>8. faults.lost_file = 0 => FileInfoOK(blocks, votes, KeysOf[n], file[n])
    BY Zenon DEF IInv
<1>9. QED
    BY <1>1, <1>2, <1>5, <1>6, <1>7, <1>8, NodeStep, ZenonT(30)

-----------------------------------------------------------------------------
(* What the nodes promise *)

(* The blocks, the nodes' safety information and their files stay sound    *)
(* through every proposal, vote, failed signature or save, crash, restart  *)
(* and change of keys.                                                     *)
THEOREM SavannaInvariant == Spec => []IInv
<1>1. IInv /\ [Next]_vars => IInv'
    <2> SUFFICES ASSUME IInv, [Next]_vars PROVE IInv'
        BY Zenon
    <2>1. ASSUME NEW parent \in DOMAIN blocks, NEW name \in Names, NEW time \in 2 .. MaxTime,
                 NEW num \in 1 .. parent.num, NEW strong \in BOOLEAN,
                 Propose(parent, name, time, qc_claim_t(num, strong))
          PROVE  IInv'
        BY <2>1, ProposeKeeps, Zenon
    <2>2. ASSUME NEW n \in Nodes, NEW b \in DOMAIN blocks,
                 \/ Vote(n, b)
                 \/ \E signed \in SUBSET Voters(n, b) : VoteUnsigned(n, b, signed)
                 \/ VoteUnsaved(n, b)
                 \/ VoteCrash(n, b)
          PROVE  IInv'
        BY <2>2, VoteKeeps, Zenon
    <2>3. ASSUME NEW n \in Nodes, NEW b \in CarriedStrongQCs, NEW qc \in StrongQCs(b),
                 ReceiveStrongQC(n, b, qc)
          PROVE  IInv'
        <3>1. b \in DOMAIN blocks
            BY Zenon DEF CarriedStrongQCs
        <3>2. QED
            BY <2>3, <3>1, ReceiveKeeps
    <2>4. ASSUME NEW n \in Nodes, Stop(n) \/ LoseFile(n) PROVE IInv'
        BY <2>4, StopKeeps, Zenon
    <2>5. ASSUME NEW n \in Nodes, NEW keys \in SUBSET Keys, NEW default_fsi \in DefaultsAtStartup,
                 keys \subseteq KeysOf[n], Start(n, keys, default_fsi)
          PROVE  IInv'
        BY <2>5, StartKeeps, Zenon
    <2>6. CASE UNCHANGED vars
        BY <2>6, Zenon DEF vars, IInv
    <2>7. QED
        BY <2>1, <2>2, <2>3, <2>4, <2>5, <2>6, Zenon DEF Next
<1>2. QED
    BY <1>1, InitHolds, PTL DEF Spec

(* Information that stands for the votes of a key covers each of them.     *)
LEMMA InfoCovers ==
    ASSUME TreeOK(blocks), VotesOK(blocks, votes), NEW v \in votes,
           NEW fsi, InfoOK(blocks, votes, v.finalizer, fsi)
    PROVE  Covers(fsi, v)
<1> DEFINE C == ClaimIn(blocks, v.block)
<1>1. v.block \in DOMAIN blocks
    BY Zenon DEF VotesOK
<1>2. /\ C = ClaimedBlock(v.block) /\ time_of(C) = TimeIn(blocks, C)
      /\ time_of(v.block) = TimeIn(blocks, v.block)
    BY Zenon DEF ClaimIn, ClaimedBlock, ClaimNum, AncestorAt, AncestorIn, Branch, BranchIn, time_of, TimeIn
<1>3. fsi.last_vote.timestamp >= TimeIn(blocks, v.block)
    <2>1. PICK V \in DOMAIN blocks :
              /\ fsi.last_vote = ref_of(blocks[V].ref)
              /\ LastVoteOK(blocks, votes, v.finalizer, V, fsi.other_branch_latest_time)
        BY Zenon DEF InfoOK
    <2>2. TimeIn(blocks, v.block) <= TimeIn(blocks, V)
        BY <2>1, Zenon DEF LastVoteOK
    <2>3. /\ fsi.last_vote.timestamp = TimeIn(blocks, V)
          /\ TimeIn(blocks, V) \in Nat /\ TimeIn(blocks, v.block) \in Nat
        BY <1>1, <2>1, RefFacts, Zenon
    <2>4. QED
        BY <2>2, <2>3, Zenon
<1>4. ASSUME v.strong PROVE fsi.lock.timestamp >= TimeIn(blocks, C)
    <2>1. PICK L \in DOMAIN blocks : /\ fsi.lock = ref_of(blocks[L].ref)
                                     /\ LockOK(blocks, votes, v.finalizer, L)
        BY Zenon DEF InfoOK
    <2>2. C \in BranchIn(blocks, L) \/ TimeIn(blocks, L) > TimeIn(blocks, C)
        BY <1>4, <2>1, Zenon DEF LockOK
    <2>3. C \in DOMAIN blocks
        BY <1>1, ClaimFacts, Zenon
    <2>4. /\ fsi.lock.timestamp = TimeIn(blocks, L)
          /\ TimeIn(blocks, L) \in Nat /\ TimeIn(blocks, C) \in Nat
        BY <2>1, <2>3, RefFacts, Zenon
    <2>5. C \in BranchIn(blocks, L) => TimeIn(blocks, C) <= TimeIn(blocks, L)
        BY BranchIsChain, Zenon
    <2> HIDE DEF C
    <2>6. QED
        BY <2>2, <2>4, <2>5
<1>5. QED
    BY <1>2, <1>3, <1>4, Zenon DEF Covers

(* Every vote a node has sent is covered by what it decides with and by    *)
(* the file it would restart from, whatever fails in maybe_vote, unless    *)
(* the file is lost.                                                       *)
THEOREM VotesAreCovered == Spec => []InfoCoversVotes
<1>1. IInv => InfoCoversVotes
    <2> SUFFICES ASSUME IInv, faults.lost_file = 0, NEW n \in Nodes, NEW v \in votes
                 PROVE  /\ v.finalizer \in KeysOf[n] /\ file[n].status # "torn" =>
                             /\ v.finalizer \in DOMAIN file[n].info
                             /\ Covers(file[n].info[v.finalizer], v)
                        /\ v.finalizer \in DOMAIN node[n].finalizers =>
                             Covers(node[n].finalizers[v.finalizer], v)
        BY Zenon DEF InfoCoversVotes
    <2>1. /\ TreeOK(blocks) /\ VotesOK(blocks, votes)
          /\ NodeInfoOK(blocks, votes, KeysOf[n], node[n])
          /\ FileInfoOK(blocks, votes, KeysOf[n], file[n])
        BY Zenon DEF IInv
    <2>2. ASSUME v.finalizer \in KeysOf[n], file[n].status # "torn"
          PROVE  v.finalizer \in DOMAIN file[n].info /\ Covers(file[n].info[v.finalizer], v)
        BY <2>1, <2>2, InfoCovers, Zenon DEF FileInfoOK
    <2>3. ASSUME v.finalizer \in DOMAIN node[n].finalizers
          PROVE  Covers(node[n].finalizers[v.finalizer], v)
        BY <2>1, <2>3, InfoCovers, Zenon DEF NodeInfoOK
    <2>4. QED
        BY <2>2, <2>3, Zenon
<1>2. QED
    BY <1>1, SavannaInvariant, PTL

-----------------------------------------------------------------------------
(* The safety information never goes back *)

(* The times in safety information; a finalizer that has not voted has no  *)
(* time of a last vote.                                                    *)
FsiOK(fsi) ==
    /\ fsi.lock.timestamp \in Nat
    /\ fsi.last_vote.timestamp \in Nat
    /\ empty(fsi.last_vote) => fsi.last_vote.timestamp = 0

AllOK(info) == \A k \in DOMAIN info : FsiOK(info[k])

(* Information fin and inactive in memory is not behind that of a file. *)
NotBehind(fin, inactive, info) ==
    \A k \in DOMAIN info :
        \/ k \in DOMAIN fin /\ NotOlder(fin[k], info[k])
        \/ k \in DOMAIN inactive \ DOMAIN fin /\ NotOlder(inactive[k], info[k])

(* No restriction on lost files: the file is never ahead of the memory. *)
FilesBehind ==
    /\ \A n \in Nodes : /\ AllOK(node[n].finalizers)
                        /\ AllOK(node[n].inactive)
                        /\ AllOK(file[n].info)
    /\ \A n \in Nodes : node[n].up /\ file[n].status = "good" =>
                            NotBehind(node[n].finalizers, node[n].inactive, file[n].info)

(* NotOlder is an order on the information that finalizers can have. *)
LEMMA NotOlderOrder ==
    /\ \A x : FsiOK(x) => NotOlder(x, x)
    /\ \A x, y, z : FsiOK(x) /\ FsiOK(y) /\ FsiOK(z) /\ NotOlder(x, y) /\ NotOlder(y, z) => NotOlder(x, z)
BY DEF FsiOK, NotOlder

(* References to blocks have times, and are not empty. *)
LEMMA RefOK ==
    ASSUME TreeOK(blocks), NEW b \in DOMAIN blocks
    PROVE  /\ ref_of(blocks[b].ref).timestamp = TimeIn(blocks, b) /\ TimeIn(blocks, b) \in Nat
           /\ ~empty(ref_of(blocks[b].ref)) /\ TimeIn(blocks, b) > 0
<1>1. TimeIn(blocks, b) \in Nat /\ TimeIn(blocks, b) >= 1
    BY Zenon DEF TreeOK, BlockOK
<1>2. QED
    BY <1>1, RefFacts

(* decide_vote moves the last vote and the lock forward only. *)
LEMMA DecisionNotOlder ==
    ASSUME TreeOK(blocks), NEW b \in DOMAIN blocks, b # genesis, NEW fsi, FsiOK(fsi)
    PROVE  FsiOK(fsi_after(fsi, blocks[b])) /\ NotOlder(fsi_after(fsi, blocks[b]), fsi)
<1> DEFINE B == blocks[b]
           C == ClaimIn(blocks, b)
           after == fsi_after(fsi, B)
<1>1. CASE decision(fsi, B) = "no_vote"
    <2>1. after = fsi
        BY <1>1, ZenonT(30) DEF fsi_after
    <2>2. QED
        BY <2>1, NotOlderOrder
<1>2. CASE decision(fsi, B) # "no_vote"
    <2>1. monotony_check(fsi, B)
        BY <1>2, DecisionMeans
    <2>2. /\ ref_of(B.ref).timestamp = TimeIn(blocks, b) /\ TimeIn(blocks, b) \in Nat
          /\ ~empty(ref_of(B.ref)) /\ TimeIn(blocks, b) > 0
        BY RefOK, Zenon
    <2>3. TimeIn(blocks, b) > fsi.last_vote.timestamp
        BY <2>1, <2>2 DEF monotony_check, FsiOK, TimeIn
    <2>4. C \in DOMAIN blocks
        BY ClaimFacts, ZenonT(30)
    <2>5. /\ latest_qc_block_timestamp(B.core) = TimeIn(blocks, C)
          /\ latest_qc_claim__block_ref(B).timestamp = TimeIn(blocks, C)
          /\ TimeIn(blocks, C) \in Nat
        BY <2>4, ClaimFacts, RefOK, ZenonT(30)
    <2>6. after.last_vote = ref_of(B.ref) /\ (after.lock = fsi.lock \/
              (after.lock = latest_qc_claim__block_ref(B) /\ TimeIn(blocks, C) > fsi.lock.timestamp))
        <3>1. CASE decision(fsi, B) = "strong_vote"
            BY <2>5, <3>1 DEF fsi_after, after_strong_vote, safety_information
        <3>2. CASE decision(fsi, B) = "weak_vote"
            BY <3>2, Zenon DEF fsi_after, after_weak_vote, safety_information
        <3>3. QED
            BY <1>2, <3>1, <3>2, DecisionMeans, ZenonT(30)
    <2> HIDE DEF after, B, C
    <2>7. QED
        BY <2>2, <2>3, <2>5, <2>6, SMTT(20) DEF FsiOK, NotOlder, after, B
<1>3. QED
    BY <1>1, <1>2, Zenon

(* maybe_update_fsi too. *)
LEMMA EvidenceNotOlder ==
    ASSUME TreeOK(blocks), NEW b \in DOMAIN blocks, b # genesis, NEW fsi, FsiOK(fsi)
    PROVE  FsiOK(maybe_update_fsi(fsi, blocks[b])) /\ NotOlder(maybe_update_fsi(fsi, blocks[b]), fsi)
<1> DEFINE B == blocks[b]
           C == ClaimIn(blocks, b)
           after == maybe_update_fsi(fsi, B)
<1>1. CASE after = fsi
    BY <1>1, NotOlderOrder, ZenonT(30)
<1>2. CASE after # fsi
    <2>1. /\ ref_of(B.ref).timestamp = TimeIn(blocks, b) /\ TimeIn(blocks, b) \in Nat
          /\ ~empty(ref_of(B.ref))
        BY RefOK, ZenonT(30)
    <2>2. C \in DOMAIN blocks
        BY ClaimFacts
    <2>3. latest_qc_claim__block_ref(B).timestamp = TimeIn(blocks, C) /\ TimeIn(blocks, C) \in Nat
        BY <2>2, ClaimFacts, RefOK, ZenonT(30)
    <2>4. /\ after.last_vote = ref_of(B.ref) /\ TimeIn(blocks, b) > fsi.last_vote.timestamp
          /\ after.lock = latest_qc_claim__block_ref(B) /\ TimeIn(blocks, C) > fsi.lock.timestamp
        BY <1>2, <2>3, ZenonT(30) DEF maybe_update_fsi, safety_information, TimeIn
    <2> HIDE DEF after, B, C
    <2>5. QED
        BY <2>1, <2>3, <2>4 DEF FsiOK, NotOlder, after, B
<1>3. QED
    BY <1>1, <1>2, ZenonT(30)

(* The step of InfoNeverGoesBack. *)
Forward ==
    \A n \in Nodes :
        /\ file[n].status = "good" /\ file'[n].status = "good" =>
              /\ DOMAIN file[n].info \subseteq DOMAIN file'[n].info
              /\ \A k \in DOMAIN file[n].info : NotOlder(file'[n].info[k], file[n].info[k])
        /\ node[n].up /\ node'[n].up =>
              \A k \in DOMAIN node[n].finalizers :
                  NotOlder(node'[n].finalizers[k], node[n].finalizers[k])

(* The information of the finalizers of node n moves forward to fin, and   *)
(* the file stays, is torn, or takes all of it.                            *)
MovesForward(n, fin) ==
    /\ DOMAIN fin = DOMAIN node[n].finalizers
    /\ \A k \in DOMAIN fin : FsiOK(fin[k]) /\ NotOlder(fin[k], node[n].finalizers[k])

MovesTo(n, fin, h, nd, f) ==
    /\ nd \in {running(fin, node[n].inactive, h), stopped}
    /\ node' = [node EXCEPT ![n] = nd]
    /\ f \in {file[n], torn_file, Saved(running(fin, node[n].inactive, h))}
    /\ file' = [file EXCEPT ![n] = f] \/ (file' = file /\ f = file[n])

(* Such a step of a running node is what maybe_vote and maybe_update_fsi   *)
(* have in common.                                                         *)
LEMMA ForwardStep ==
    ASSUME IInv, FilesBehind, NEW n \in Nodes, node[n].up,
           NEW fin, MovesForward(n, fin), NEW h, NEW nd, NEW f, MovesTo(n, fin, h, nd, f)
    PROVE  FilesBehind' /\ Forward
<1> USE DEF MovesForward, MovesTo
<1> DEFINE old  == node[n].finalizers
           idle == node[n].inactive
           info == file[n].info
           all  == saved_info(fin, idle)
<1>1. DOMAIN node = Nodes /\ DOMAIN file = Nodes
    BY Zenon DEF IInv
<1>2. AllOK(old) /\ AllOK(idle) /\ AllOK(info) /\ AllOK(fin)
    BY Zenon DEF FilesBehind, AllOK
<1>3. PICK r : /\ r = running(fin, idle, h)
               /\ r.finalizers = fin /\ r.inactive = idle /\ Saved(r) = safety_file("good", all)
    <2> DEFINE s == running(fin, idle, h)
    <2>1. s.finalizers = fin /\ s.inactive = idle
        BY RunningFields
    <2> HIDE DEF s
    <2>2. Saved(s) = safety_file("good", all)
        BY <2>1, Zenon DEF Saved
    <2>3. QED
        BY <2>1, <2>2, Zenon DEF s
<1>4. nd \in {r, stopped} /\ f \in {file[n], torn_file, safety_file("good", all)}
    BY <1>3, Zenon
<1>5. /\ stopped.finalizers = no_info /\ stopped.inactive = no_info /\ ~stopped.up /\ DOMAIN no_info = {}
      /\ torn_file.status = "torn" /\ torn_file.info = no_info
      /\ safety_file("good", all).status = "good" /\ safety_file("good", all).info = all
    BY Zenon DEF stopped, no_info, torn_file, safety_file
<1>6. /\ DOMAIN all = DOMAIN fin \cup DOMAIN idle
      /\ \A k \in DOMAIN fin : all[k] = fin[k]
      /\ \A k \in DOMAIN idle \ DOMAIN fin : all[k] = idle[k]
    BY ZenonT(30) DEF saved_info
<1> HIDE DEF old, idle, info, all
<1>7. AllOK(all) /\ AllOK(no_info)
    BY <1>2, <1>5, <1>6, ZenonT(30) DEF AllOK
<1>8. ASSUME file[n].status = "good" PROVE NotBehind(fin, idle, info)
    <2>1. NotBehind(old, idle, info)
        BY <1>8, ZenonT(30) DEF FilesBehind, old, idle, info
    <2>2. ASSUME NEW k \in DOMAIN info
          PROVE  \/ k \in DOMAIN fin /\ NotOlder(fin[k], info[k])
                 \/ k \in DOMAIN idle \ DOMAIN fin /\ NotOlder(idle[k], info[k])
        <3>1. CASE k \in DOMAIN old /\ NotOlder(old[k], info[k])
            <4>1. FsiOK(fin[k]) /\ FsiOK(old[k]) /\ FsiOK(info[k]) /\ NotOlder(fin[k], old[k])
                BY <1>2, <3>1, ZenonT(30) DEF AllOK, old
            <4>2. QED
                BY <3>1, <4>1, NotOlderOrder, Zenon DEF old
        <3>2. CASE k \in DOMAIN idle \ DOMAIN old /\ NotOlder(idle[k], info[k])
            BY <3>2, ZenonT(30) DEF old
        <3>3. QED
            BY <2>1, <3>1, <3>2 DEF NotBehind
    <2>3. QED
        BY <2>2, ZenonT(30) DEF NotBehind
<1>9. NotBehind(fin, idle, all)
    <2>1. \A k \in DOMAIN all : NotOlder(all[k], all[k])
        BY <1>7, NotOlderOrder, ZenonT(30) DEF AllOK
    <2>2. QED
        BY <1>6, <2>1, ZenonT(30) DEF NotBehind
<1>10. /\ DOMAIN node' = Nodes /\ DOMAIN file' = Nodes /\ node'[n] = nd /\ file'[n] = f
       /\ \A m \in Nodes \ {n} : node'[m] = node[m] /\ file'[m] = file[m]
    BY <1>1, ZenonT(30)
<1>11. /\ AllOK(nd.finalizers) /\ AllOK(nd.inactive) /\ AllOK(f.info)
       /\ nd.up /\ f.status = "good" => NotBehind(nd.finalizers, nd.inactive, f.info)
    <2>1. AllOK(nd.finalizers) /\ AllOK(nd.inactive)
        BY <1>2, <1>3, <1>4, <1>5, <1>7, ZenonT(30)
    <2>2. AllOK(f.info)
        BY <1>2, <1>4, <1>5, <1>7, ZenonT(30) DEF info
    <2>3. ASSUME nd.up, f.status = "good" PROVE NotBehind(fin, idle, f.info) /\ nd = r
        <3>1. nd = r
            BY <1>4, <1>5, <2>3, ZenonT(30)
        <3>2. f # torn_file
            BY <1>5, <2>3, ZenonT(30)
        <3>3. QED
            BY <1>4, <1>5, <1>8, <1>9, <2>3, <3>1, <3>2, ZenonT(30) DEF info
    <2>4. QED
        BY <1>3, <2>1, <2>2, <2>3, ZenonT(30)
<1>12. FilesBehind'
    BY <1>10, <1>11, ZenonT(30) DEF FilesBehind
<1>13. ASSUME file[n].status = "good", f.status = "good"
       PROVE  DOMAIN info \subseteq DOMAIN f.info /\ \A k \in DOMAIN info : NotOlder(f.info[k], info[k])
    <2>1. CASE f = file[n]
        BY <1>2, <2>1, NotOlderOrder, ZenonT(30) DEF AllOK, info
    <2>2. CASE f = safety_file("good", all)
        BY <1>5, <1>6, <1>8, <1>13, <2>2, ZenonT(30) DEF NotBehind
    <2>3. QED
        BY <1>4, <1>5, <1>13, <2>1, <2>2, ZenonT(30)
<1>14. ASSUME nd.up
       PROVE  \A k \in DOMAIN old : NotOlder(nd.finalizers[k], old[k])
    <2>1. nd.finalizers = fin
        BY <1>3, <1>4, <1>5, <1>14, ZenonT(30)
    <2>2. QED
        BY <2>1, ZenonT(30) DEF old
<1>15. ASSUME NEW m \in Nodes
       PROVE  /\ file[m].status = "good" /\ file'[m].status = "good" =>
                     /\ DOMAIN file[m].info \subseteq DOMAIN file'[m].info
                     /\ \A k \in DOMAIN file[m].info : NotOlder(file'[m].info[k], file[m].info[k])
              /\ node[m].up /\ node'[m].up =>
                     \A k \in DOMAIN node[m].finalizers :
                         NotOlder(node'[m].finalizers[k], node[m].finalizers[k])
    <2>1. CASE m = n
        BY <1>10, <1>13, <1>14, <2>1, ZenonT(30) DEF info, old
    <2>2. CASE m # n
        <3>1. node'[m] = node[m] /\ file'[m] = file[m]
            BY <1>10, <2>2, Zenon
        <3>2. AllOK(node[m].finalizers) /\ AllOK(file[m].info)
            BY Zenon DEF FilesBehind
        <3>3. QED
            BY <3>1, <3>2, NotOlderOrder DEF AllOK
    <2>3. QED
        BY <2>1, <2>2, ZenonT(30)
<1>16. QED
    BY <1>12, <1>15 DEF Forward

(* maybe_vote, whatever fails in it. *)
LEMMA ForwardVote ==
    ASSUME IInv, FilesBehind, NEW n \in Nodes, NEW b \in DOMAIN blocks,
           \/ Vote(n, b)
           \/ \E signed \in SUBSET Voters(n, b) : VoteUnsigned(n, b, signed)
           \/ VoteUnsaved(n, b)
           \/ VoteCrash(n, b)
    PROVE  FilesBehind' /\ Forward
<1> DEFINE old == node[n].finalizers
           fin == [k \in DOMAIN old |-> fsi_after(old[k], blocks[b])]
<1>1. MayVote(n, b)
    BY Zenon DEF Vote, VoteUnsigned, VoteUnsaved, VoteCrash
<1>2. node[n].up /\ b # genesis
    BY <1>1, ZenonT(30) DEF MayVote
<1>3. \A k \in DOMAIN fin : FsiOK(fin[k]) /\ NotOlder(fin[k], old[k])
    <2> SUFFICES ASSUME NEW k \in DOMAIN old
                 PROVE  /\ FsiOK(fsi_after(old[k], blocks[b]))
                        /\ NotOlder(fsi_after(old[k], blocks[b]), old[k])
        BY Zenon
    <2>1. FsiOK(old[k])
        BY Zenon DEF FilesBehind, AllOK
    <2>2. QED
        BY <1>2, <2>1, DecisionNotOlder DEF IInv
<1>4. \A signed \in SUBSET Voters(n, b) : \E h : Decided(n, b, signed) = running(fin, node[n].inactive, h)
    BY Zenon DEF Decided
<1>5. MovesForward(n, fin)
    BY <1>3, Zenon DEF MovesForward
<1> HIDE DEF fin
<1>6. ASSUME NEW signed \in SUBSET Voters(n, b),
             NEW nd, nd \in {Decided(n, b, signed), stopped}, node' = [node EXCEPT ![n] = nd],
             NEW f, f \in {file[n], torn_file, Saved(Decided(n, b, signed))},
             file' = [file EXCEPT ![n] = f] \/ (file' = file /\ f = file[n])
      PROVE  FilesBehind' /\ Forward
    <2>1. PICK h : Decided(n, b, signed) = running(fin, node[n].inactive, h)
        BY <1>4, Zenon
    <2>2. MovesTo(n, fin, h, nd, f)
        BY <1>6, <2>1, Zenon DEF MovesTo
    <2>3. QED
        BY <1>2, <1>5, <2>2, ForwardStep, Zenon
<1>7. DOMAIN node = Nodes
    BY Zenon DEF IInv
<1>8. CASE Vote(n, b)
    <2>1. /\ node' = [node EXCEPT ![n] = Decided(n, b, Voters(n, b))]
          /\ file' = [file EXCEPT ![n] = Saved(Decided(n, b, Voters(n, b)))]
        BY <1>7, <1>8 DEF Vote
    <2>2. QED
        BY <1>6, <2>1, Zenon
<1>9. ASSUME NEW signed \in SUBSET Voters(n, b), VoteUnsigned(n, b, signed) PROVE FilesBehind' /\ Forward
    <2>1. node' = [node EXCEPT ![n] = Decided(n, b, signed)]
        BY <1>9, Zenon DEF VoteUnsigned
    <2>2. PICK f \in {file[n], torn_file, Saved(Decided(n, b, signed))} :
              file' = [file EXCEPT ![n] = f] \/ (file' = file /\ f = file[n])
        BY <1>7, <1>9, <2>1 DEF VoteUnsigned
    <2>3. QED
        BY <1>6, <2>1, <2>2, Zenon
<1>10. CASE VoteUnsaved(n, b)
    <2>1. node' = [node EXCEPT ![n] = Decided(n, b, Voters(n, b))]
        BY <1>10, Zenon DEF VoteUnsaved
    <2>2. node'[n] = Decided(n, b, Voters(n, b))
        BY <1>7, <2>1, Zenon
    <2>3. PICK f \in {file[n], torn_file, Saved(Decided(n, b, Voters(n, b)))} : file' = [file EXCEPT ![n] = f]
        BY <1>10, <2>2, Zenon DEF VoteUnsaved, SaveFails
    <2>4. QED
        BY <1>6, <2>1, <2>3, Zenon
<1>11. CASE VoteCrash(n, b)
    <2>1. node' = [node EXCEPT ![n] = stopped]
        BY <1>11, Zenon DEF VoteCrash
    <2>2. PICK f \in {file[n], torn_file, Saved(Decided(n, b, Voters(n, b)))} : file' = [file EXCEPT ![n] = f]
        BY <1>11, Zenon DEF VoteCrash, SaveFails
    <2>3. QED
        BY <1>6, <2>1, <2>2, Zenon
<1>12. QED
    BY <1>8, <1>9, <1>10, <1>11, ZenonT(30)

(* maybe_update_fsi: the signers of a QC that the node receives have voted *)
(* for a block that is not the block of the transition.                    *)
LEMMA ForwardReceive ==
    ASSUME IInv, FilesBehind, NEW n \in Nodes, NEW b \in DOMAIN blocks, NEW qc \in StrongQCs(b),
           ReceiveStrongQC(n, b, qc)
    PROVE  FilesBehind' /\ Forward
<1> DEFINE old == node[n].finalizers
           own == qc \cap DOMAIN old
           fin == [k \in DOMAIN old |-> IF k \in own THEN maybe_update_fsi(old[k], blocks[b]) ELSE old[k]]
<1>1. DOMAIN node = Nodes
    BY Zenon DEF IInv
<1>2. PICK h : node' = [node EXCEPT ![n] = running(fin, node[n].inactive, h)]
    BY Zenon DEF ReceiveStrongQC
<1>3. node[n].up /\ \E f \in {file[n], torn_file, Saved(node'[n])} : file' = [file EXCEPT ![n] = f]
    BY Zenon DEF ReceiveStrongQC, SaveFails
<1>4. \A k \in DOMAIN fin : FsiOK(fin[k]) /\ NotOlder(fin[k], old[k])
    <2> SUFFICES ASSUME NEW k \in DOMAIN old PROVE FsiOK(fin[k]) /\ NotOlder(fin[k], old[k])
        BY Zenon
    <2>1. FsiOK(old[k])
        BY ZenonT(30) DEF FilesBehind, AllOK
    <2>2. CASE k \in own
        <3>1. PICK v \in votes : v.block = b
            BY <2>2, Zenon DEF StrongQCs, VotedStrong
        <3>2. b # genesis
            BY <3>1, Zenon DEF IInv, VotesOK
        <3>3. fin[k] = maybe_update_fsi(old[k], blocks[b])
            BY <2>2, Zenon
        <3>4. QED
            BY <2>1, <3>2, <3>3, EvidenceNotOlder, ZenonT(30) DEF IInv
    <2>3. CASE k \notin own
        BY <2>1, <2>3, NotOlderOrder
    <2>4. QED
        BY <2>2, <2>3, Zenon
<1>5. MovesForward(n, fin)
    BY <1>4, Zenon DEF MovesForward
<1> HIDE DEF fin
<1>6. node'[n] = running(fin, node[n].inactive, h)
    BY <1>1, <1>2, Zenon
<1>7. PICK f \in {file[n], torn_file, Saved(running(fin, node[n].inactive, h))} : file' = [file EXCEPT ![n] = f]
    BY <1>3, <1>6, Zenon
<1>8. MovesTo(n, fin, h, running(fin, node[n].inactive, h), f)
    BY <1>2, <1>7, Zenon DEF MovesTo
<1>9. QED
    BY <1>3, <1>5, <1>8, ForwardStep, Zenon

(* The node and the file of one node change, and the new ones are related  *)
(* as the old ones were (Stop, Start, a file that is lost).                *)
LEMMA ForwardElsewhere ==
    ASSUME IInv, FilesBehind, NEW n \in Nodes, NEW nd, NEW f,
           node' = [node EXCEPT ![n] = nd] \/ (node' = node /\ nd = node[n]),
           file' = [file EXCEPT ![n] = f] \/ (file' = file /\ f = file[n]),
           AllOK(nd.finalizers) /\ AllOK(nd.inactive) /\ AllOK(f.info),
           nd.up /\ f.status = "good" => NotBehind(nd.finalizers, nd.inactive, f.info),
           f = file[n] \/ f.status # "good",
           ~node[n].up \/ ~nd.up
    PROVE  FilesBehind' /\ Forward
<1>1. DOMAIN node = Nodes /\ DOMAIN file = Nodes
    BY Zenon DEF IInv
<1>2. /\ node'[n] = nd /\ file'[n] = f
      /\ \A m \in Nodes \ {n} : node'[m] = node[m] /\ file'[m] = file[m]
    BY <1>1, Zenon
<1>3. FilesBehind'
    BY <1>2, Zenon DEF FilesBehind
<1>4. \A m \in Nodes : AllOK(node[m].finalizers) /\ AllOK(file[m].info)
    BY Zenon DEF FilesBehind
<1>5. \A m \in Nodes : \A k \in DOMAIN file[m].info : NotOlder(file[m].info[k], file[m].info[k])
    BY <1>4, NotOlderOrder, ZenonT(30) DEF AllOK
<1>6. \A m \in Nodes : \A k \in DOMAIN node[m].finalizers :
          NotOlder(node[m].finalizers[k], node[m].finalizers[k])
    BY <1>4, NotOlderOrder, ZenonT(30) DEF AllOK
<1>7. Forward
    BY <1>2, <1>5, <1>6, ZenonT(30) DEF Forward
<1>8. QED
    BY <1>3, <1>7, Zenon

(* The node stops, or its file is lost while it is stopped. *)
LEMMA ForwardStop ==
    ASSUME IInv, FilesBehind, NEW n \in Nodes, Stop(n) \/ LoseFile(n)
    PROVE  FilesBehind' /\ Forward
<1>1. /\ AllOK(node[n].finalizers) /\ AllOK(node[n].inactive) /\ AllOK(file[n].info)
      /\ node[n].up /\ file[n].status = "good" =>
            NotBehind(node[n].finalizers, node[n].inactive, file[n].info)
    BY Zenon DEF FilesBehind
<1>2. CASE Stop(n)
    <2>1. /\ ~stopped.up /\ AllOK(stopped.finalizers) /\ AllOK(stopped.inactive)
          /\ node' = [node EXCEPT ![n] = stopped] /\ file' = file
        BY <1>2, Zenon DEF Stop, stopped, no_info, AllOK
    <2>2. QED
        BY <1>1, <2>1, ForwardElsewhere, Zenon
<1>3. CASE LoseFile(n)
    <2>1. /\ no_file.status # "good" /\ AllOK(no_file.info) /\ ~node[n].up
          /\ file' = [file EXCEPT ![n] = no_file] /\ node' = node
        BY <1>3, Zenon DEF LoseFile, no_file, safety_file, no_info, AllOK
    <2>2. QED
        BY <1>1, <2>1, ForwardElsewhere, Zenon
<1>4. QED
    BY <1>2, <1>3

(* set_keys: a node starts with the information of its file.               *)
LEMMA ForwardStart ==
    ASSUME IInv, FilesBehind, NEW n \in Nodes, NEW keys \in SUBSET KeysOf[n],
           NEW default_fsi \in DefaultsAtStartup, Start(n, keys, default_fsi)
    PROVE  FilesBehind' /\ Forward
<1> DEFINE info == file[n].info
           fin  == set_keys(keys, info, default_fsi)
           idle == inactive_info(keys, info)
<1>1. FsiOK(default_fsi)
    <2>1. TreeOK(blocks) /\ genesis \in DOMAIN blocks
        BY Zenon DEF IInv, TreeOK
    <2>2. ASSUME NEW b \in DOMAIN blocks, NEW last_vote, last_vote = no_ref \/ last_vote = ref_of(blocks[b].ref)
          PROVE  FsiOK(safety_information(last_vote, ref_of(blocks[b].ref), NoTimestamp))
        <3>1. ref_of(blocks[b].ref).timestamp \in Nat /\ ~empty(ref_of(blocks[b].ref))
            BY <2>1, RefOK, Zenon
        <3>2. no_ref.timestamp = 0
            BY Zenon DEF no_ref
        <3>3. QED
            BY <2>2, <3>1, <3>2, SMTT(30) DEF FsiOK, safety_information
    <2>3. \A b \in FinalBlocks : b \in DOMAIN blocks
        BY <2>1, FinalBlocksKnown, Zenon
    <2>4. CASE default_fsi = transition_fsi(ref_of(blocks[genesis].ref))
        BY <2>1, <2>2, <2>4, Zenon DEF transition_fsi
    <2>5. CASE \E b \in FinalBlocks :
                   default_fsi = safety_information(no_ref, ref_of(blocks[b].ref), NoTimestamp)
        BY <2>2, <2>3, <2>5, Zenon
    <2>6. QED
        BY <2>4, <2>5 DEF DefaultsAtStartup
<1>2. AllOK(info)
    BY Zenon DEF FilesBehind
<1>3. AllOK(fin) /\ AllOK(idle)
    BY <1>1, <1>2 DEF AllOK, set_keys, inactive_info
<1>4. NotBehind(fin, idle, info)
    <2>1. \A k \in DOMAIN info : NotOlder(info[k], info[k])
        BY <1>2, NotOlderOrder, Zenon DEF AllOK
    <2>2. QED
        BY <2>1, Zenon DEF NotBehind, set_keys, inactive_info
<1>5. PICK h : Started(keys, info, default_fsi) = running(fin, idle, h)
    BY Zenon DEF Started
<1>6. PICK nd : /\ nd = Started(keys, info, default_fsi)
                /\ nd.finalizers = fin /\ nd.inactive = idle
    <2> DEFINE s == running(fin, idle, h)
    <2>1. s.finalizers = fin /\ s.inactive = idle
        BY RunningFields
    <2> HIDE DEF s
    <2>2. QED
        BY <1>5, <2>1, ZenonT(30) DEF s
<1>7. ~node[n].up /\ node' = [node EXCEPT ![n] = nd] /\ file' = file
    BY <1>6, Zenon DEF Start
<1> HIDE DEF fin, idle
<1>8. QED
    BY <1>2, <1>3, <1>4, <1>6, <1>7, ForwardElsewhere, Zenon

(* When the chain makes the transition to Savanna no node has a file, and  *)
(* the finalizers start from the block of the transition.                  *)
LEMMA InitBehind == Init => FilesBehind
<1> SUFFICES ASSUME Init PROVE FilesBehind
    OBVIOUS
<1> DEFINE default == transition_fsi(ref_of(blocks[genesis].ref))
           fin(n)  == set_default_safety_information(set_keys(KeysOf[n], no_info, unset_fsi), default)
<1>1. TreeOK(blocks) /\ genesis \in DOMAIN blocks
    BY InitTree DEF TreeOK
<1>2. FsiOK(default) /\ FsiOK(unset_fsi)
    <2>1. ref_of(blocks[genesis].ref).timestamp \in Nat /\ ~empty(ref_of(blocks[genesis].ref))
        BY <1>1, RefOK, ZenonT(30)
    <2>2. QED
        BY <2>1, Zenon DEF FsiOK, transition_fsi, unset_fsi, no_ref, safety_information
<1>3. \A n \in Nodes : AllOK(fin(n)) /\ AllOK(no_info)
    BY <1>2 DEF AllOK, no_info, set_keys, set_default_safety_information
<1>4. \A n \in Nodes : node[n] = running(fin(n), no_info, FALSE)
    BY Zenon DEF Init
<1>5. \A n \in Nodes : file[n].status # "good" /\ file[n].info = no_info
    BY Zenon DEF Init, no_file, safety_file
<1> HIDE DEF fin
<1>6. \A n \in Nodes : AllOK(node[n].finalizers) /\ AllOK(node[n].inactive) /\ AllOK(file[n].info)
    <2> SUFFICES ASSUME NEW n \in Nodes
                 PROVE  AllOK(node[n].finalizers) /\ AllOK(node[n].inactive) /\ AllOK(file[n].info)
        BY Zenon
    <2>0. PICK h : node[n] = running(fin(n), no_info, h)
        BY <1>4, Zenon
    <2> DEFINE s == running(fin(n), no_info, h)
    <2>1. s.finalizers = fin(n) /\ s.inactive = no_info
        BY RunningFields
    <2> HIDE DEF s
    <2>2. node[n] = s
        BY <2>0, Zenon DEF s
    <2>3. QED
        BY <1>3, <1>5, <2>1, <2>2, ZenonT(30)
<1>7. QED
    BY <1>5, <1>6, Zenon DEF FilesBehind

(* No step takes the information of a finalizer back, in memory or in a    *)
(* file.                                                                   *)
LEMMA StepForward ==
    ASSUME IInv, FilesBehind, [Next]_vars
    PROVE  FilesBehind' /\ Forward
<1>1. ASSUME node' = node, file' = file PROVE FilesBehind' /\ Forward
    <2>1. FilesBehind'
        BY <1>1, Zenon DEF FilesBehind
    <2>2. \A m \in Nodes : AllOK(node[m].finalizers) /\ AllOK(file[m].info)
        BY Zenon DEF FilesBehind
    <2>3. QED
        BY <1>1, <2>1, <2>2, NotOlderOrder, ZenonT(30) DEF AllOK, Forward
<1>2. ASSUME NEW parent \in DOMAIN blocks, NEW name \in Names, NEW time \in 2 .. MaxTime,
             NEW num \in 1 .. parent.num, NEW strong \in BOOLEAN,
             Propose(parent, name, time, qc_claim_t(num, strong))
      PROVE  FilesBehind' /\ Forward
    BY <1>1, <1>2, ZenonT(30) DEF Propose
<1>3. ASSUME NEW n \in Nodes, NEW b \in DOMAIN blocks,
             \/ Vote(n, b)
             \/ \E signed \in SUBSET Voters(n, b) : VoteUnsigned(n, b, signed)
             \/ VoteUnsaved(n, b)
             \/ VoteCrash(n, b)
      PROVE  FilesBehind' /\ Forward
    BY <1>3, ForwardVote
<1>4. ASSUME NEW n \in Nodes, NEW b \in CarriedStrongQCs, NEW qc \in StrongQCs(b), ReceiveStrongQC(n, b, qc)
      PROVE  FilesBehind' /\ Forward
    <2>1. b \in DOMAIN blocks
        BY Zenon DEF CarriedStrongQCs
    <2>2. QED
        BY <1>4, <2>1, ForwardReceive
<1>5. ASSUME NEW n \in Nodes, Stop(n) \/ LoseFile(n) PROVE FilesBehind' /\ Forward
    BY <1>5, ForwardStop, ZenonT(30)
<1>6. ASSUME NEW n \in Nodes, NEW keys \in SUBSET Keys, NEW default_fsi \in DefaultsAtStartup,
             keys \subseteq KeysOf[n], Start(n, keys, default_fsi)
      PROVE  FilesBehind' /\ Forward
    BY <1>6, ForwardStart
<1>7. CASE UNCHANGED vars
    BY <1>1, <1>7 DEF vars
<1>8. QED
    BY <1>2, <1>3, <1>4, <1>5, <1>6, <1>7, ZenonT(30) DEF Next

(* save_finalizer_safety_info keeps the entries of all keys that the node  *)
(* has ever used and takes none of them back, and neither a vote nor the   *)
(* evidence of an old one takes the last vote or the lock of a running     *)
(* finalizer back, whatever the votes, failures, restarts and lost files.  *)
THEOREM InformationMovesForward == Spec => InfoNeverGoesBack
<1>1. IInv /\ FilesBehind /\ [Next]_vars => FilesBehind' /\ [Forward]_vars
    BY StepForward, Zenon
<1>2. Spec => [][Forward]_vars
    BY <1>1, InitBehind, SavannaInvariant, PTL DEF Spec
<1>3. QED
    BY <1>2, Zenon DEF InfoNeverGoesBack, Forward

-----------------------------------------------------------------------------
(* The rules of SafetyRules are kept *)

(* The maps are those of the instance of SafetyRules. *)
LEMMA MapsAreRules ==
    /\ [b \in BlockIds |-> IF b \in DOMAIN blocks THEN time_of(b) - 1 ELSE 0] = TimeMap(blocks)
    /\ [b \in BlockIds |-> IF b \in DOMAIN blocks THEN blocks[b].ancestors ELSE {}] = AncestorMap(blocks)
    /\ [b \in BlockIds |-> IF b \in DOMAIN blocks THEN ClaimedBlock(b) ELSE genesis] = ClaimMap(blocks)
BY Zenon DEF TimeMap, AncestorMap, ClaimMap, time_of, TimeIn, ClaimedBlock, ClaimIn, ClaimNum,
       AncestorAt, AncestorIn, Branch, BranchIn

(* ... and after a step. *)
LEMMA MapsAreRulesNext ==
    /\ [b \in BlockIds |-> IF b \in DOMAIN blocks THEN time_of(b) - 1 ELSE 0]' = TimeMap(blocks')
    /\ [b \in BlockIds |-> IF b \in DOMAIN blocks THEN blocks[b].ancestors ELSE {}]' = AncestorMap(blocks')
    /\ [b \in BlockIds |-> IF b \in DOMAIN blocks THEN ClaimedBlock(b) ELSE genesis]' = ClaimMap(blocks')
BY Zenon DEF TimeMap, AncestorMap, ClaimMap, time_of, TimeIn, ClaimedBlock, ClaimIn, ClaimNum,
       AncestorAt, AncestorIn, Branch, BranchIn

(* QCs are those of SafetyRules. *)
LEMMA QCsAreRules == \A b : QCIn(votes, b) => Rules!HasQC(b)
BY Zenon DEF QCIn, Rules!HasQC, Rules!VotesOf

(* Init *)
LEMMA InitIsRules == Init => Rules!Init
<1> SUFFICES ASSUME Init PROVE Rules!Init
    BY Zenon
<1>1. TreeOK(blocks) /\ DOMAIN blocks = {genesis} /\ votes = {}
    BY InitTree, Zenon DEF Init
<1>2. blocks[genesis].ancestors = {} /\ TimeIn(blocks, genesis) = 1
    BY <1>1, Zenon DEF TreeOK
<1>3. ClaimIn(blocks, genesis) = genesis
    BY <1>1, <1>2, ClaimFacts, Zenon DEF BranchIn
<1>4. /\ TimeMap(blocks) = [b \in BlockIds |-> 0]
      /\ AncestorMap(blocks) = [b \in BlockIds |-> {}]
      /\ ClaimMap(blocks) = [b \in BlockIds |-> genesis]
    BY <1>1, <1>2, <1>3 DEF TimeMap, AncestorMap, ClaimMap
<1>5. QED
    BY <1>1, <1>4, MapsAreRules, Zenon DEF Rules!Init

(* A proposal is one of SafetyRules. *)
LEMMA ProposeIsRules ==
    ASSUME IInv, NEW parent \in DOMAIN blocks, NEW name \in Names, NEW time \in 2 .. MaxTime,
           NEW num \in 1 .. parent.num, NEW strong \in BOOLEAN,
           Propose(parent, name, time, qc_claim_t(num, strong))
    PROVE  Rules!Next
<1>1. PICK id, C :
          /\ id \in BlockIds /\ id \notin DOMAIN blocks
          /\ DOMAIN blocks' = DOMAIN blocks \cup {id}
          /\ Extended(blocks, blocks')
          /\ TimeIn(blocks', id) = time /\ time > TimeIn(blocks, parent)
          /\ blocks'[id].ancestors = BranchIn(blocks, parent)
          /\ ClaimIn(blocks', id) = C /\ C \in BranchIn(blocks, parent) /\ QCIn(votes, C)
    BY ProposeFacts, ZenonT(30)
<1>2. TreeOK(blocks) /\ TimeIn(blocks, parent) \in Int
    BY MapValues, Zenon DEF IInv
<1>3. votes' = votes
    BY Zenon DEF Propose
<1>4. /\ time - 1 \in 1 .. MaxTime
      /\ time - 1 > TimeMap(blocks)[parent]
    <2>1. TimeMap(blocks)[parent] = TimeIn(blocks, parent) - 1
        BY <1>2, MapValues, Zenon
    <2>2. QED
        BY <1>1, <1>2, <2>1, MaxBlockNumAssumption, SMTT(20)
<1>5. /\ C = parent \/ C \in AncestorMap(blocks)[parent]
      /\ C \in DOMAIN blocks
      /\ AncestorMap(blocks)[parent] \cup {parent} = BranchIn(blocks, parent)
    <2>1. AncestorMap(blocks)[parent] = blocks[parent].ancestors
        BY <1>2, MapValues, Zenon
    <2>2. BranchIn(blocks, parent) = blocks[parent].ancestors \cup {parent}
        BY Zenon DEF BranchIn
    <2>3. BranchIn(blocks, parent) \subseteq DOMAIN blocks
        BY <1>2, BranchIsChain, Zenon
    <2>4. C \in BranchIn(blocks, parent)
        BY <1>1, ZenonT(30)
    <2>5. QED
        BY <2>1, <2>2, <2>3, <2>4, ZenonT(30)
<1>6. /\ TimeMap(blocks') = [TimeMap(blocks) EXCEPT ![id] = time - 1]
      /\ AncestorMap(blocks') = [AncestorMap(blocks) EXCEPT ![id] = AncestorMap(blocks)[parent] \cup {parent}]
      /\ ClaimMap(blocks') = [ClaimMap(blocks) EXCEPT ![id] = C]
    BY <1>1, <1>5, MapGrows
<1>7. Rules!HasQC(C)
    BY <1>1, QCsAreRules, Zenon
<1>8. Rules!Propose(id, parent, time - 1, C)
    BY <1>1, <1>3, <1>4, <1>5, <1>6, <1>7, MapsAreRules, MapsAreRulesNext, Zenon DEF Rules!Propose, Rules!Extends
<1>9. id \in BlockIds \ DOMAIN blocks /\ C \in DOMAIN blocks /\ time - 1 \in 1 .. MaxTime
    BY <1>1, <1>4, <1>5, Zenon
<1>10. \E b \in BlockIds \ DOMAIN blocks, p \in DOMAIN blocks :
          \E c \in DOMAIN blocks, t \in 1 .. MaxTime : Rules!Propose(b, p, t, c)
    BY <1>8, <1>9, Zenon
<1>11. QED
    BY <1>10, Zenon DEF Rules!Next

(* decide_vote lets a finalizer vote only as the rules allow, as long as   *)
(* its information stands for its votes.                                   *)
LEMMA DecisionIsRules ==
    ASSUME IInv, NEW b \in DOMAIN blocks, b # genesis,
           NEW k, NEW fsi, InfoOK(blocks, votes, k, fsi), decision(fsi, blocks[b]) # "no_vote"
    PROVE  /\ Rules!Monotone(k, b)
           /\ Rules!RespectsLocks(k, b)
           /\ decision(fsi, blocks[b]) = "strong_vote" => Rules!NoForkSinceClaim(k, b)
<1>1. TreeOK(blocks) /\ VotesOK(blocks, votes) /\ ClaimsOK(blocks, votes)
    BY ZenonT(30) DEF IInv
<1>2. ASSUME NEW v \in votes, v.finalizer = k
      PROVE  /\ TimeMap(blocks)[v.block] < TimeMap(blocks)[b]
             /\ v.strong => \/ ClaimMap(blocks)[v.block] = b
                            \/ ClaimMap(blocks)[v.block] \in AncestorMap(blocks)[b]
                            \/ \E c \in AncestorMap(blocks)[b] :
                                  /\ Rules!HasQC(c)
                                  /\ TimeMap(blocks)[c] > TimeMap(blocks)[ClaimMap(blocks)[v.block]]
             /\ decision(fsi, blocks[b]) = "strong_vote" =>
                   (TimeMap(blocks)[v.block] > TimeMap(blocks)[ClaimMap(blocks)[b]] =>
                       v.block = b \/ v.block \in AncestorMap(blocks)[b])
    <2>1. v.block \in DOMAIN blocks
        BY <1>1, Zenon DEF VotesOK
    <2> DEFINE C == ClaimIn(blocks, v.block)
               B == ClaimIn(blocks, b)
    <2>2. C \in DOMAIN blocks /\ B \in DOMAIN blocks
        BY <1>1, <2>1, ClaimFacts, Zenon
    <2>3. blocks[b].ancestors \subseteq DOMAIN blocks
        BY <1>1, Zenon DEF TreeOK, BlockOK
    <2>4. /\ TimeIn(blocks, v.block) < TimeIn(blocks, b)
          /\ v.strong => \/ C \in BranchIn(blocks, b)
                         \/ \E c \in blocks[b].ancestors :
                               QCIn(votes, c) /\ TimeIn(blocks, c) > TimeIn(blocks, C)
          /\ decision(fsi, blocks[b]) = "strong_vote" =>
                (TimeIn(blocks, v.block) > TimeIn(blocks, B) => v.block \in BranchIn(blocks, b))
        BY <1>1, <1>2, DecisionKeepsRules, ZenonT(30)
    <2>5. /\ ClaimMap(blocks)[v.block] = C /\ ClaimMap(blocks)[b] = B
          /\ AncestorMap(blocks)[b] = blocks[b].ancestors
        BY <1>1, <2>1, <2>2, MapValues, ZenonT(30)
    <2>6. \A c \in blocks[b].ancestors :
              TimeMap(blocks)[c] > TimeMap(blocks)[C] <=> TimeIn(blocks, c) > TimeIn(blocks, C)
        BY <1>1, <2>2, <2>3, TimesCompare, ZenonT(30)
    <2>7. \A c : QCIn(votes, c) => Rules!HasQC(c)
        BY QCsAreRules, ZenonT(30)
    <2> HIDE DEF C, B
    <2>8. TimeMap(blocks)[v.block] < TimeMap(blocks)[b]
        BY <1>1, <2>1, <2>4, TimesCompare, ZenonT(30)
    <2>9. ASSUME v.strong
          PROVE  \/ C = b \/ C \in AncestorMap(blocks)[b]
                 \/ \E c \in AncestorMap(blocks)[b] :
                       Rules!HasQC(c) /\ TimeMap(blocks)[c] > TimeMap(blocks)[C]
        <3>1. CASE C \in BranchIn(blocks, b)
            BY <2>5, <3>1, ZenonT(30) DEF BranchIn
        <3>2. CASE \E c \in blocks[b].ancestors :
                       QCIn(votes, c) /\ TimeIn(blocks, c) > TimeIn(blocks, C)
            <4>1. PICK c \in blocks[b].ancestors : QCIn(votes, c) /\ TimeIn(blocks, c) > TimeIn(blocks, C)
                BY <3>2, ZenonT(30)
            <4>2. TimeMap(blocks)[c] > TimeMap(blocks)[C]
                BY <2>6, <4>1, ZenonT(30)
            <4>3. QED
                BY <2>5, <2>7, <4>1, <4>2, ZenonT(30)
        <3>3. QED
            BY <2>4, <2>9, <3>1, <3>2, ZenonT(30)
    <2>10. ASSUME decision(fsi, blocks[b]) = "strong_vote",
                  TimeMap(blocks)[v.block] > TimeMap(blocks)[B]
           PROVE  v.block = b \/ v.block \in AncestorMap(blocks)[b]
        <3>1. TimeIn(blocks, v.block) > TimeIn(blocks, B)
            BY <1>1, <2>1, <2>2, <2>10, TimesCompare, ZenonT(30)
        <3>2. v.block \in BranchIn(blocks, b)
            BY <2>4, <2>10, <3>1, ZenonT(30)
        <3>3. QED
            BY <2>5, <3>2, ZenonT(30) DEF BranchIn
    <2>11. QED
        BY <2>5, <2>8, <2>9, <2>10, ZenonT(30)
<1>3. \A v : v \in Rules!VotesOf(k) <=> v \in votes /\ v.finalizer = k
    BY Zenon DEF Rules!VotesOf
<1>4. Rules!Monotone(k, b)
    BY <1>2, <1>3, MapsAreRules, Zenon DEF Rules!Monotone
<1>5. Rules!RespectsLocks(k, b)
    BY <1>2, <1>3, MapsAreRules, Zenon DEF Rules!RespectsLocks, Rules!Extends
<1>6. decision(fsi, blocks[b]) = "strong_vote" => Rules!NoForkSinceClaim(k, b)
    BY <1>2, <1>3, MapsAreRules, Zenon DEF Rules!NoForkSinceClaim, Rules!Extends
<1>7. QED
    BY <1>4, <1>5, <1>6, Zenon

(* The votes that leave a node are a step of SafetyRules. *)
LEMMA VoteIsRules ==
    ASSUME IInv, faults.lost_file = 0, NEW n \in Nodes, NEW b \in DOMAIN blocks, MayVote(n, b),
           NEW sent \in SUBSET Voters(n, b),
           votes' = votes \cup VotesFor(n, b, sent), blocks' = blocks
    PROVE  Rules!Next
<1>1. PICK S, W : /\ S = {k \in sent : decision(node[n].finalizers[k], blocks[b]) = "strong_vote"}
                  /\ W = sent \ S
    BY Zenon
<1>2. \A k \in sent : /\ k \in DOMAIN node[n].finalizers
                      /\ decision(node[n].finalizers[k], blocks[b]) # "no_vote"
    BY Zenon DEF Voters
<1>3. /\ NodeInfoOK(blocks, votes, KeysOf[n], node[n])
      /\ DOMAIN node[n].finalizers \subseteq KeysOf[n] /\ KeysOf[n] \subseteq Keys
    BY KeysOfAssumption, Zenon DEF IInv
<1>4. S \subseteq Keys /\ W \subseteq Keys /\ S \cap W = {} /\ sent = S \cup W
    BY <1>1, <1>2, <1>3, Zenon
<1>5. ASSUME NEW k \in sent
      PROVE  /\ Rules!Monotone(k, b)
             /\ Rules!RespectsLocks(k, b)
             /\ decision(node[n].finalizers[k], blocks[b]) = "strong_vote" => Rules!NoForkSinceClaim(k, b)
    <2>1. InfoOK(blocks, votes, k, node[n].finalizers[k])
        BY <1>2, <1>3, Zenon DEF NodeInfoOK
    <2>2. b # genesis
        BY Zenon DEF MayVote
    <2>3. QED
        BY <1>2, <2>1, <2>2, DecisionIsRules, SMTT(20)
<1>6. \A k \in S : Rules!MayVote(k, b, TRUE)
    BY <1>1, <1>5, Zenon DEF Rules!MayVote
<1>7. \A k \in W : Rules!MayVote(k, b, FALSE)
    BY <1>1, <1>5, Zenon DEF Rules!MayVote
<1>8. VotesFor(n, b, sent) = Rules!VotesFor(b, S, TRUE) \cup Rules!VotesFor(b, W, FALSE)
    <2>1. ASSUME NEW v \in VotesFor(n, b, sent)
          PROVE  v \in Rules!VotesFor(b, S, TRUE) \cup Rules!VotesFor(b, W, FALSE)
        <3>1. PICK k \in sent : v = [finalizer |-> k, block |-> b,
                                     strong |-> decision(node[n].finalizers[k], blocks[b]) = "strong_vote"]
            BY Zenon DEF VotesFor
        <3>2. CASE decision(node[n].finalizers[k], blocks[b]) = "strong_vote"
            <4>1. (decision(node[n].finalizers[k], blocks[b]) = "strong_vote") = TRUE
                BY <3>2, Zenon
            <4>2. v = [finalizer |-> k, block |-> b, strong |-> TRUE] /\ k \in S
                BY <1>1, <3>1, <4>1, Zenon
            <4>3. QED
                BY <4>2, Zenon DEF Rules!VotesFor
        <3>3. CASE decision(node[n].finalizers[k], blocks[b]) # "strong_vote"
            <4>1. (decision(node[n].finalizers[k], blocks[b]) = "strong_vote") = FALSE
                BY <3>3, Zenon
            <4>2. v = [finalizer |-> k, block |-> b, strong |-> FALSE] /\ k \in W
                BY <1>1, <3>1, <3>3, <4>1, Zenon
            <4>3. QED
                BY <4>2, Zenon DEF Rules!VotesFor
        <3>4. QED
            BY <3>2, <3>3, Zenon
    <2>2. ASSUME NEW v \in Rules!VotesFor(b, S, TRUE)
          PROVE  v \in VotesFor(n, b, sent)
        <3>1. PICK k \in S : v = [finalizer |-> k, block |-> b, strong |-> TRUE]
            BY Zenon DEF Rules!VotesFor
        <3>2. (decision(node[n].finalizers[k], blocks[b]) = "strong_vote") = TRUE /\ k \in sent
            BY <1>1, Zenon
        <3>3. QED
            BY <3>1, <3>2, Zenon DEF VotesFor
    <2>3. ASSUME NEW v \in Rules!VotesFor(b, W, FALSE)
          PROVE  v \in VotesFor(n, b, sent)
        <3>1. PICK k \in W : v = [finalizer |-> k, block |-> b, strong |-> FALSE]
            BY Zenon DEF Rules!VotesFor
        <3>2. (decision(node[n].finalizers[k], blocks[b]) = "strong_vote") = FALSE /\ k \in sent
            BY <1>1, Zenon
        <3>3. QED
            BY <3>1, <3>2, Zenon DEF VotesFor
    <2>4. QED
        BY <2>1, <2>2, <2>3, Zenon
<1>9. b \in DOMAIN blocks \ {genesis} /\ b \in BlockIds
    BY Zenon DEF MayVote, IInv, TreeOK, BlockOK
<1>10. votes' = votes \cup Rules!VotesFor(b, S, TRUE) \cup Rules!VotesFor(b, W, FALSE)
    BY <1>8, Zenon
<1>11. Rules!Vote(b, S, W)
    BY <1>6, <1>7, <1>9, <1>10, MapsAreRules, MapsAreRulesNext, Zenon DEF Rules!Vote
<1>12. QED
    BY <1>4, <1>9, <1>11, Zenon DEF Rules!Next

(* Whatever else a node does, SafetyRules does not see it.  *)
LEMMA OthersAreStutters == UNCHANGED << blocks, votes >> => UNCHANGED Rules!vars
BY MapsAreRules, MapsAreRulesNext, Zenon DEF Rules!vars

(* Every step of Savanna is one of SafetyRules, or changes nothing there,  *)
(* as long as no safety file is lost.                                      *)
LEMMA StepIsRules ==
    ASSUME IInv, faults.lost_file = 0, [Next]_vars
    PROVE  [Rules!Next]_(Rules!vars)
<1>1. ASSUME NEW parent \in DOMAIN blocks, NEW name \in Names, NEW time \in 2 .. MaxTime,
             NEW num \in 1 .. parent.num, NEW strong \in BOOLEAN,
             Propose(parent, name, time, qc_claim_t(num, strong))
      PROVE  Rules!Next
    BY <1>1, ProposeIsRules, Zenon
<1>2. ASSUME NEW n \in Nodes, NEW b \in DOMAIN blocks, Vote(n, b)
      PROVE  Rules!Next
    BY <1>2, VoteIsRules, Zenon DEF Vote
<1>3. ASSUME NEW n \in Nodes, NEW b \in DOMAIN blocks,
             NEW signed \in SUBSET Voters(n, b), VoteUnsigned(n, b, signed)
      PROVE  Rules!Next
    BY <1>3, VoteIsRules, Zenon DEF VoteUnsigned
<1>4. ASSUME NEW n \in Nodes, NEW b \in DOMAIN blocks, VoteCrash(n, b)
      PROVE  Rules!Next \/ UNCHANGED << blocks, votes >>
    <2>1. CASE \E sent \in SUBSET Voters(n, b) : votes' = votes \cup VotesFor(n, b, sent)
        BY <1>4, <2>1, VoteIsRules, Zenon DEF VoteCrash
    <2>2. CASE votes' = votes
        BY <1>4, <2>2, Zenon DEF VoteCrash
    <2>3. QED
        BY <1>4, <2>1, <2>2, Zenon DEF VoteCrash
<1>5. ASSUME \/ \E n \in Nodes, b \in DOMAIN blocks : VoteUnsaved(n, b)
             \/ \E n \in Nodes, b \in CarriedStrongQCs : \E qc \in StrongQCs(b) : ReceiveStrongQC(n, b, qc)
             \/ \E n \in Nodes : Stop(n) \/ LoseFile(n)
             \/ \E n \in Nodes, keys \in SUBSET Keys, default_fsi \in DefaultsAtStartup :
                   Start(n, keys, default_fsi)
             \/ UNCHANGED vars
      PROVE  UNCHANGED << blocks, votes >>
    BY <1>5, Zenon DEF VoteUnsaved, ReceiveStrongQC, Stop, LoseFile, Start, vars
<1>6. Rules!Next \/ UNCHANGED << blocks, votes >>
    BY <1>1, <1>2, <1>3, <1>4, <1>5, Zenon DEF Next
<1>7. QED
    BY <1>6, OthersAreStutters, Zenon

(* The finalizers of the code keep the rules that make finality safe, in   *)
(* every behaviour in which no safety file is lost.                        *)
THEOREM SavannaImplementsRules == Spec /\ [](faults.lost_file = 0) => ImplementsRules
<1>1. IInv /\ faults.lost_file = 0 /\ [Next]_vars => [Rules!Next]_(Rules!vars)
    BY StepIsRules, Zenon
<1>2. QED
    BY <1>1, InitIsRules, SavannaInvariant, PTL DEF Spec, ImplementsRules, Rules!Spec

-----------------------------------------------------------------------------
(* Final blocks *)

(* A step adds a block, or only votes. *)
LEMMA StepKinds ==
    ASSUME [Next]_vars,
           ~(\E parent \in DOMAIN blocks, name \in Names, time \in 2 .. MaxTime :
                \E num \in 1 .. parent.num, strong \in BOOLEAN :
                    Propose(parent, name, time, qc_claim_t(num, strong)))
    PROVE  blocks' = blocks /\ votes \subseteq votes'
<1>1. ASSUME NEW n \in Nodes, NEW b \in DOMAIN blocks,
             \/ Vote(n, b)
             \/ \E signed \in SUBSET Voters(n, b) : VoteUnsigned(n, b, signed)
             \/ VoteUnsaved(n, b)
             \/ VoteCrash(n, b)
      PROVE  blocks' = blocks /\ votes \subseteq votes'
    <2>1. CASE Vote(n, b)
        BY <2>1, ZenonT(30) DEF Vote
    <2>2. CASE \E signed \in SUBSET Voters(n, b) : VoteUnsigned(n, b, signed)
        BY <2>2, ZenonT(30) DEF VoteUnsigned
    <2>3. CASE VoteUnsaved(n, b)
        BY <2>3, ZenonT(30) DEF VoteUnsaved
    <2>4. CASE VoteCrash(n, b)
        <3>1. \/ votes' = votes
              \/ \E sent \in SUBSET Voters(n, b) : votes' = votes \cup VotesFor(n, b, sent)
            BY <2>4, ZenonT(30) DEF VoteCrash
        <3>2. blocks' = blocks
            BY <2>4 DEF VoteCrash
        <3>3. QED
            BY <3>1, <3>2, ZenonT(30)
    <2>5. QED
        BY <1>1, <2>1, <2>2, <2>3, <2>4, ZenonT(30)
<1>2. ASSUME \/ \E n \in Nodes, b \in CarriedStrongQCs : \E qc \in StrongQCs(b) : ReceiveStrongQC(n, b, qc)
             \/ \E n \in Nodes : Stop(n) \/ LoseFile(n)
             \/ \E n \in Nodes, keys \in SUBSET Keys, default_fsi \in DefaultsAtStartup :
                   Start(n, keys, default_fsi)
             \/ UNCHANGED vars
      PROVE  blocks' = blocks /\ votes' = votes
    BY <1>2, ZenonT(30) DEF ReceiveStrongQC, Stop, LoseFile, Start, vars
<1>3. QED
    BY <1>1, <1>2, Zenon DEF Next

FInv == IInv /\ \A b \in DOMAIN blocks : FinalityOK(blocks, votes, b)

(* Propose: a strong claim comes with its strong QC, in this block or in   *)
(* an earlier one of the branch.                                           *)
LEMMA ProposeFinalizes ==
    ASSUME FInv, NEW parent \in DOMAIN blocks, NEW name \in Names, NEW time \in 2 .. MaxTime,
           NEW num \in 1 .. parent.num, NEW strong \in BOOLEAN,
           Propose(parent, name, time, qc_claim_t(num, strong))
    PROVE  \A b \in DOMAIN blocks' : FinalityOK(blocks', votes', b)
<1>1. IInv /\ TreeOK(blocks)
    BY Zenon DEF FInv, IInv
<1> DEFINE id == [num |-> parent.num + 1, name |-> name]
<1>2. PICK claim \in Claims :
          /\ id \in BlockIds /\ id \notin DOMAIN blocks /\ id.num = parent.num + 1
          /\ time > TimeIn(blocks, parent)
          /\ claim.block_num = num
          /\ claim.block_num \in ClaimNum(blocks, parent) .. parent.num
          /\ ClaimIsJustified(parent, claim)
          /\ DOMAIN blocks' = DOMAIN blocks \cup {id} /\ Extended(blocks, blocks')
          /\ blocks'[id].ref = block_ref(id, time, 1, 0)
          /\ blocks'[id].core = next(blocks[parent].core, blocks[parent].ref, claim)
          /\ blocks'[id].ancestors = BranchIn(blocks, parent)
    BY <1>1, ProposeBlock, Zenon
<1>3. TreeOK(blocks') /\ ClaimIn(blocks', id) = AncestorIn(blocks, parent, claim.block_num)
    BY <1>1, <1>2, ProposeFacts, Zenon
<1> HIDE DEF id
<1>4. votes' = votes
    BY Zenon DEF Propose
<1>5. ASSUME claim.is_strong_qc
      PROVE  StrongQCIn(votes, AncestorIn(blocks, parent, claim.block_num))
    <2>1. CASE claim = latest_qc_claim(blocks[parent].core)
        <3>1. StrongQCIn(votes, ClaimIn(blocks, parent))
            BY <1>5, <2>1, Zenon DEF FInv, FinalityOK
        <3>2. QED
            BY <2>1, <3>1 DEF ClaimIn, ClaimNum
    <2>2. CASE claim # latest_qc_claim(blocks[parent].core)
        BY <1>2, <1>5, <2>2, Zenon
        DEF ClaimIsJustified, HasStrongQC, VotedStrong, StrongQCIn, AncestorAt, AncestorIn, Branch, BranchIn
    <2>3. QED
        BY <2>1, <2>2, ZenonT(30)
<1>6. FinalityOK(blocks', votes, id)
    BY <1>1, <1>2, <1>3, <1>5, FinalityGrows, Zenon DEF FInv
<1>7. \A b \in DOMAIN blocks : FinalityOK(blocks', votes, b)
    BY <1>1, <1>2, FinalityStays, Zenon DEF FInv
<1>8. QED
    BY <1>2, <1>4, <1>6, <1>7, ZenonT(30)

(* The finality cores say what the votes have finalized. *)
THEOREM FinalityInvariant == Spec => []FInv
<1>1. Init => FInv
    <2> SUFFICES ASSUME Init PROVE FInv
        OBVIOUS
    <2>1. IInv /\ TreeOK(blocks) /\ DOMAIN blocks = {genesis}
        BY InitHolds, InitTree, Zenon
    <2> DEFINE c == create_core_for_genesis_block(genesis, 1)
    <2>2. blocks[genesis].core = c /\ blocks[genesis].ancestors = {}
        BY Zenon DEF Init
    <2>3. c.links = << qc_link(1, 1, FALSE) >>
        BY Zenon DEF create_core_for_genesis_block, num_from_id, genesis
    <2>4. PICK k : /\ c.links = << k >>
                   /\ k.source_block_num = 1 /\ k.target_block_num = 1 /\ k.is_link_strong = FALSE
        <3>1. /\ qc_link(1, 1, FALSE).source_block_num = 1 /\ qc_link(1, 1, FALSE).target_block_num = 1
              /\ qc_link(1, 1, FALSE).is_link_strong = FALSE
            BY Zenon DEF qc_link
        <3>2. QED
            BY <2>3, <3>1, Zenon
    <2> HIDE DEF c
    <2>5. /\ Len(c.links) = 1 /\ c.links[1] = k
          /\ last_final_block_num(c) = 1 /\ ~latest_qc_claim(c).is_strong_qc
        <3>1. Len(c.links) = 1 /\ c.links[1] = k
            BY <2>4
        <3>2. last_final_block_num(c) = 1 /\ back_link(c).is_link_strong = FALSE
            BY <2>4, <3>1, ZenonT(30) DEF last_final_block_num, front_link, back_link
        <3>3. QED
            BY <3>1, <3>2, ZenonT(30) DEF latest_qc_claim, qc_claim_t
    <2>6. ClaimNum(blocks, genesis) = 1 /\ AncestorIn(blocks, genesis, 1) = genesis
        <3>1. genesis.num = 1
            BY Zenon DEF genesis
        <3>2. ClaimNum(blocks, genesis) \in 1 .. genesis.num
            BY <2>1, ClaimFacts, ZenonT(30)
        <3>3. AncestorIn(blocks, genesis, genesis.num) = genesis
            BY <2>1, BranchNumbers, ZenonT(30) DEF BranchIn
        <3>4. QED
            BY <3>1, <3>2, <3>3
    <2>7. LinksOK(blocks, genesis)
        BY <2>2, <2>4, <2>5, <2>6, SMTT(20) DEF LinksOK
    <2>8. QED
        BY <2>1, <2>2, <2>5, <2>7, Zenon DEF FInv, FinalityOK
<1>2. FInv /\ IInv' /\ [Next]_vars => FInv'
    <2> SUFFICES ASSUME FInv, IInv', [Next]_vars
                 PROVE  \A b \in DOMAIN blocks' : FinalityOK(blocks', votes', b)
        BY Zenon DEF FInv
    <2>1. ASSUME NEW parent \in DOMAIN blocks, NEW name \in Names, NEW time \in 2 .. MaxTime,
                 NEW num \in 1 .. parent.num, NEW strong \in BOOLEAN,
                 Propose(parent, name, time, qc_claim_t(num, strong))
          PROVE  \A b \in DOMAIN blocks' : FinalityOK(blocks', votes', b)
        BY <2>1, ProposeFinalizes, Zenon
    <2>2. ASSUME blocks' = blocks, votes \subseteq votes'
          PROVE  \A b \in DOMAIN blocks' : FinalityOK(blocks', votes', b)
        <3>1. TreeOK(blocks) /\ Extended(blocks, blocks)
            BY Zenon DEF FInv, IInv, Extended
        <3>2. \A b \in DOMAIN blocks : FinalityOK(blocks, votes', b)
            BY <2>2, <3>1, FinalityStays, ZenonT(30) DEF FInv
        <3>3. QED
            BY <2>2, <3>2, Zenon
    <2>3. QED
        BY <2>1, <2>2, StepKinds, Zenon
<1>3. QED
    BY <1>1, <1>2, SavannaInvariant, PTL DEF Spec

(* What a finality core reports final is the genesis block, or claimed by  *)
(* a block with a strong QC: the block of the front link.                  *)
LEMMA FinalIsClaimed ==
    ASSUME FInv, NEW a \in FinalBlocks
    PROVE  /\ a \in DOMAIN blocks
           /\ a = genesis \/ \E s \in DOMAIN blocks : /\ s # genesis
                                                     /\ a = ClaimIn(blocks, s)
                                                     /\ StrongQCIn(votes, s)
<1>1. TreeOK(blocks)
    BY Zenon DEF FInv, IInv
<1>2. PICK b \in DOMAIN blocks : a = AncestorAt(b, last_final_block_num(blocks[b].core))
    BY Zenon DEF FinalBlocks
<1> DEFINE c == blocks[b].core
           l == last_final_block_num(c)
<1>3. a = AncestorIn(blocks, b, l)
    BY <1>2 DEF AncestorAt, AncestorIn, Branch, BranchIn
<1>4. genesis.num = 1
    BY Zenon DEF genesis
<1>5. CASE l = 1
    <2>1. genesis \in BranchIn(blocks, b) /\ genesis \in DOMAIN blocks
        BY <1>1, Zenon DEF BranchIn, TreeOK, BlockOK
    <2>2. a = genesis
        BY <1>1, <1>3, <1>4, <1>5, <2>1, BranchNumbers, ZenonT(30)
    <2>3. QED
        BY <2>1, <2>2, Zenon
<1>6. CASE l # 1
    <2>1. PICK s : s = FrontBlock(blocks, b)
        BY Zenon
    <2>2. StrongQCIn(votes, s) /\ LinksOK(blocks, b)
        BY <1>6, <2>1, ZenonT(30) DEF FInv, FinalityOK
    <2>3. 1 \in 1 .. Len(c.links) /\ front_link(c) = c.links[1]
        <3>1. b.num \in Nat /\ SoundCore(c, b.num, {blocks[x].ref : x \in blocks[b].ancestors})
            BY <1>1, BlockNumbers, Zenon DEF TreeOK, BlockOK
        <3>2. 1 \in 1 .. Len(c.links)
            BY <3>1, CoreLinks, Zenon
        <3>3. QED
            BY <3>2, Zenon DEF front_link
    <2>4. s \in BranchIn(blocks, b)
        BY <1>1, <2>1, <2>3, LinkNumbers, ZenonT(30) DEF FrontBlock
    <2>5. l = ClaimNum(blocks, s)
        BY <2>1, <2>2, <2>3, ZenonT(30) DEF LinksOK, FrontBlock, last_final_block_num
    <2>6. s \in DOMAIN blocks /\ BranchIn(blocks, s) \subseteq BranchIn(blocks, b)
        BY <1>1, <2>4, BranchIsChain, ZenonT(30)
    <2>7. /\ ClaimIn(blocks, s) \in BranchIn(blocks, s) /\ ClaimIn(blocks, s) \in DOMAIN blocks
          /\ ClaimIn(blocks, s).num = ClaimNum(blocks, s) /\ ClaimNum(blocks, s) \in 1 .. s.num
        BY <1>1, <2>6, ClaimFacts, ZenonT(30)
    <2> HIDE DEF l
    <2>8. s # genesis
        <3>1. ASSUME s = genesis PROVE l \in 1 .. 1
            BY <1>4, <2>5, <2>7, <3>1, ZenonT(30)
        <3>2. 1 \in Nat /\ \A x : x \in 1 .. 1 => x \in Nat
            OBVIOUS
        <3>3. QED
            BY <1>6, <3>1, <3>2, NumberOrder, ZenonT(30)
    <2>9. a = ClaimIn(blocks, s)
        BY <1>1, <1>3, <2>5, <2>6, <2>7, BranchNumbers, ZenonT(30)
    <2>10. QED
        BY <2>2, <2>6, <2>7, <2>8, <2>9, Zenon
<1>7. QED
    BY <1>5, <1>6

-----------------------------------------------------------------------------
(* Finalizers are not locked out *)

(* A finalizer is locked on a block that has a QC, and its last vote, if   *)
(* there is one, was for a block.                                          *)
LocksQC(bl, vs, fsi) ==
    /\ \E L \in DOMAIN bl : fsi.lock = ref_of(bl[L].ref) /\ QCIn(vs, L)
    /\ fsi.last_vote = no_ref \/ \E V \in DOMAIN bl : fsi.last_vote = ref_of(bl[V].ref)

AllLockQC(bl, vs, info) == \A k \in DOMAIN info : LocksQC(bl, vs, info[k])

(* No restriction on lost files: the default at startup is final.          *)
LocksHaveQCs ==
    \A n \in Nodes : /\ AllLockQC(blocks, votes, node[n].finalizers)
                     /\ AllLockQC(blocks, votes, node[n].inactive)
                     /\ AllLockQC(blocks, votes, file[n].info)

(* Blocks and votes are added. *)
LEMMA LocksStay ==
    ASSUME NEW bl, NEW bl2, Extended(bl, bl2), NEW vs, NEW vs2, vs \subseteq vs2,
           NEW info, AllLockQC(bl, vs, info)
    PROVE  AllLockQC(bl2, vs2, info)
<1>1. ASSUME NEW fsi, LocksQC(bl, vs, fsi) PROVE LocksQC(bl2, vs2, fsi)
    <2>1. PICK L \in DOMAIN bl : fsi.lock = ref_of(bl[L].ref) /\ QCIn(vs, L)
        BY <1>1, Zenon DEF LocksQC
    <2>2. QCIn(vs2, L)
        BY <2>1, QCStays, Zenon
    <2>3. \A b \in DOMAIN bl : b \in DOMAIN bl2 /\ bl2[b] = bl[b]
        BY Zenon DEF Extended
    <2>4. QED
        BY <1>1, <2>1, <2>2, <2>3, Zenon DEF LocksQC
<1>2. QED
    BY <1>1, Zenon DEF AllLockQC

(* decide_vote locks the block that the block voted for claims, or keeps   *)
(* the lock.                                                               *)
LEMMA DecisionLocksQC ==
    ASSUME NEW bl, TreeOK(bl), NEW vs, ClaimsOK(bl, vs), NEW b \in DOMAIN bl, b # genesis,
           NEW fsi, LocksQC(bl, vs, fsi)
    PROVE  /\ LocksQC(bl, vs, fsi_after(fsi, bl[b]))
           /\ LocksQC(bl, vs, maybe_update_fsi(fsi, bl[b]))
<1> DEFINE B == bl[b]
           C == ClaimIn(bl, b)
<1>1. C \in DOMAIN bl /\ latest_qc_claim__block_ref(B) = ref_of(bl[C].ref) /\ QCIn(vs, C)
    BY ClaimFacts, Zenon DEF ClaimsOK
<1> HIDE DEF C
<1>2. ASSUME NEW after, after.last_vote = ref_of(B.ref),
             after.lock = fsi.lock \/ after.lock = latest_qc_claim__block_ref(B)
      PROVE  LocksQC(bl, vs, after)
    BY <1>1, <1>2, Zenon DEF LocksQC
<1>3. LocksQC(bl, vs, fsi_after(fsi, B))
    <2> DEFINE after == fsi_after(fsi, B)
    <2>1. CASE decision(fsi, B) = "no_vote"
        BY <2>1, Zenon DEF fsi_after
    <2>2. CASE decision(fsi, B) = "strong_vote"
        <3>1. after.last_vote = ref_of(B.ref) /\ (after.lock = fsi.lock \/ after.lock = latest_qc_claim__block_ref(B))
            BY <2>2, Zenon DEF fsi_after, after_strong_vote, safety_information
        <3>2. QED
            BY <1>2, <3>1, Zenon
    <2>3. CASE decision(fsi, B) = "weak_vote"
        <3>1. after.last_vote = ref_of(B.ref) /\ after.lock = fsi.lock
            BY <2>3, Zenon DEF fsi_after, after_weak_vote, safety_information
        <3>2. QED
            BY <1>2, <3>1, Zenon
    <2>4. QED
        BY <2>1, <2>2, <2>3, DecisionMeans, ZenonT(30)
<1>4. LocksQC(bl, vs, maybe_update_fsi(fsi, B))
    <2> DEFINE after == maybe_update_fsi(fsi, B)
    <2>1. \/ after = fsi
          \/ after.last_vote = ref_of(B.ref) /\ after.lock = latest_qc_claim__block_ref(B)
        BY Zenon DEF maybe_update_fsi, safety_information
    <2>2. QED
        BY <1>2, <2>1, Zenon
<1>5. QED
    BY <1>3, <1>4

(* The node and the file of one node change. *)
LEMMA LocksStep ==
    ASSUME IInv, LocksHaveQCs, NEW n \in Nodes, NEW nd, NEW f,
           blocks' = blocks, votes \subseteq votes',
           node' = [node EXCEPT ![n] = nd] \/ (node' = node /\ nd = node[n]),
           file' = [file EXCEPT ![n] = f] \/ (file' = file /\ f = file[n]),
           AllLockQC(blocks, votes, nd.finalizers), AllLockQC(blocks, votes, nd.inactive),
           AllLockQC(blocks, votes, f.info)
    PROVE  LocksHaveQCs'
<1>1. DOMAIN node = Nodes /\ DOMAIN file = Nodes /\ Extended(blocks, blocks)
    BY Zenon DEF IInv, Extended
<1>2. /\ node'[n] = nd /\ file'[n] = f
      /\ \A m \in Nodes \ {n} : node'[m] = node[m] /\ file'[m] = file[m]
    BY <1>1, Zenon
<1>3. \A info : AllLockQC(blocks, votes, info) => AllLockQC(blocks, votes', info)
    BY <1>1, LocksStay, Zenon
<1>4. ASSUME NEW m \in Nodes
      PROVE  /\ AllLockQC(blocks, votes', node'[m].finalizers)
             /\ AllLockQC(blocks, votes', node'[m].inactive)
             /\ AllLockQC(blocks, votes', file'[m].info)
    <2>1. CASE m = n
        BY <1>2, <1>3, <2>1, Zenon
    <2>2. CASE m # n
        BY <1>2, <1>3, <2>2, Zenon DEF LocksHaveQCs
    <2>3. QED
        BY <2>1, <2>2, Zenon
<1>5. QED
    BY <1>4, Zenon DEF LocksHaveQCs

(* The information of the finalizers of a running node changes to fin. *)
LEMMA LocksMove ==
    ASSUME IInv, LocksHaveQCs, NEW n \in Nodes, NEW fin, AllLockQC(blocks, votes, fin),
           NEW h, NEW nd, NEW f, MovesTo(n, fin, h, nd, f),
           blocks' = blocks, votes \subseteq votes'
    PROVE  LocksHaveQCs'
<1> DEFINE idle == node[n].inactive
           r    == running(fin, idle, h)
           all  == saved_info(fin, idle)
<1>1. AllLockQC(blocks, votes, idle) /\ AllLockQC(blocks, votes, file[n].info)
    BY ZenonT(30) DEF LocksHaveQCs
<1>2. AllLockQC(blocks, votes, all)
    BY <1>1 DEF AllLockQC, saved_info
<1>3. AllLockQC(blocks, votes, no_info)
    BY ZenonT(30) DEF AllLockQC, no_info
<1>4. r.finalizers = fin /\ r.inactive = idle
    BY RunningFields
<1> HIDE DEF r, idle
<1>5. Saved(r).info = all
    BY <1>4, Zenon DEF Saved, safety_file
<1>6. stopped.finalizers = no_info /\ stopped.inactive = no_info /\ torn_file.info = no_info
    BY Zenon DEF stopped, torn_file, safety_file
<1>7. nd \in {r, stopped} /\ f \in {file[n], torn_file, Saved(r)}
    BY Zenon DEF MovesTo, r, idle
<1> HIDE DEF all
<1>8. AllLockQC(blocks, votes, nd.finalizers) /\ AllLockQC(blocks, votes, nd.inactive)
    BY <1>1, <1>3, <1>4, <1>6, <1>7, Zenon
<1>9. AllLockQC(blocks, votes, f.info)
    BY <1>1, <1>2, <1>3, <1>5, <1>6, <1>7, ZenonT(30)
<1>10. QED
    BY <1>8, <1>9, LocksStep, Zenon DEF MovesTo

(* maybe_vote, whatever fails in it. *)
LEMMA LocksVote ==
    ASSUME IInv, LocksHaveQCs, NEW n \in Nodes, NEW b \in DOMAIN blocks,
           blocks' = blocks, votes \subseteq votes',
           \/ Vote(n, b)
           \/ \E signed \in SUBSET Voters(n, b) : VoteUnsigned(n, b, signed)
           \/ VoteUnsaved(n, b)
           \/ VoteCrash(n, b)
    PROVE  LocksHaveQCs'
<1> DEFINE old == node[n].finalizers
           fin == [k \in DOMAIN old |-> fsi_after(old[k], blocks[b])]
<1>1. MayVote(n, b)
    BY Zenon DEF Vote, VoteUnsigned, VoteUnsaved, VoteCrash
<1>2. b # genesis /\ TreeOK(blocks) /\ ClaimsOK(blocks, votes) /\ DOMAIN node = Nodes
    BY <1>1, Zenon DEF MayVote, IInv
<1>3. AllLockQC(blocks, votes, fin)
    <2>1. ASSUME NEW k \in DOMAIN old PROVE LocksQC(blocks, votes, fsi_after(old[k], blocks[b]))
        <3>1. LocksQC(blocks, votes, old[k])
            BY Zenon DEF LocksHaveQCs, AllLockQC
        <3>2. QED
            BY <1>2, <3>1, DecisionLocksQC, Zenon
    <2>2. QED
        BY <2>1, Zenon DEF AllLockQC
<1>4. \A signed \in SUBSET Voters(n, b) : \E h : Decided(n, b, signed) = running(fin, node[n].inactive, h)
    BY Zenon DEF Decided
<1> HIDE DEF fin
<1>5. ASSUME NEW signed \in SUBSET Voters(n, b),
             NEW nd, nd \in {Decided(n, b, signed), stopped}, node' = [node EXCEPT ![n] = nd],
             NEW f, f \in {file[n], torn_file, Saved(Decided(n, b, signed))},
             file' = [file EXCEPT ![n] = f] \/ (file' = file /\ f = file[n])
      PROVE  LocksHaveQCs'
    <2>1. PICK h : Decided(n, b, signed) = running(fin, node[n].inactive, h)
        BY <1>4, Zenon
    <2>2. MovesTo(n, fin, h, nd, f)
        BY <1>5, <2>1, Zenon DEF MovesTo
    <2>3. QED
        BY <1>3, <2>2, LocksMove, Zenon
<1>6. CASE Vote(n, b)
    <2>1. /\ node' = [node EXCEPT ![n] = Decided(n, b, Voters(n, b))]
          /\ file' = [file EXCEPT ![n] = Saved(Decided(n, b, Voters(n, b)))]
        BY <1>2, <1>6 DEF Vote
    <2>2. QED
        BY <1>5, <2>1, ZenonT(30)
<1>7. ASSUME NEW signed \in SUBSET Voters(n, b), VoteUnsigned(n, b, signed) PROVE LocksHaveQCs'
    <2>1. node' = [node EXCEPT ![n] = Decided(n, b, signed)]
        BY <1>7, Zenon DEF VoteUnsigned
    <2>2. PICK f \in {file[n], torn_file, Saved(Decided(n, b, signed))} :
              file' = [file EXCEPT ![n] = f] \/ (file' = file /\ f = file[n])
        BY <1>2, <1>7, <2>1, ZenonT(30) DEF VoteUnsigned
    <2>3. QED
        BY <1>5, <2>1, <2>2, Zenon
<1>8. CASE VoteUnsaved(n, b)
    <2>1. node' = [node EXCEPT ![n] = Decided(n, b, Voters(n, b))]
        BY <1>8, Zenon DEF VoteUnsaved
    <2>2. node'[n] = Decided(n, b, Voters(n, b))
        BY <1>2, <2>1, Zenon
    <2>3. PICK f \in {file[n], torn_file, Saved(Decided(n, b, Voters(n, b)))} : file' = [file EXCEPT ![n] = f]
        BY <1>8, <2>2, Zenon DEF VoteUnsaved, SaveFails
    <2>4. QED
        BY <1>5, <2>1, <2>3, Zenon
<1>9. CASE VoteCrash(n, b)
    <2>1. node' = [node EXCEPT ![n] = stopped]
        BY <1>9, Zenon DEF VoteCrash
    <2>2. PICK f \in {file[n], torn_file, Saved(Decided(n, b, Voters(n, b)))} : file' = [file EXCEPT ![n] = f]
        BY <1>9, Zenon DEF VoteCrash, SaveFails
    <2>3. QED
        BY <1>5, <2>1, <2>2, Zenon
<1>10. QED
    BY <1>6, <1>7, <1>8, <1>9, ZenonT(30)

(* maybe_update_fsi. *)
LEMMA LocksReceive ==
    ASSUME IInv, LocksHaveQCs, NEW n \in Nodes, NEW b \in DOMAIN blocks, NEW qc \in StrongQCs(b),
           ReceiveStrongQC(n, b, qc)
    PROVE  LocksHaveQCs'
<1> DEFINE old == node[n].finalizers
           own == qc \cap DOMAIN old
           fin == [k \in DOMAIN old |-> IF k \in own THEN maybe_update_fsi(old[k], blocks[b]) ELSE old[k]]
<1>1. DOMAIN node = Nodes /\ TreeOK(blocks) /\ ClaimsOK(blocks, votes)
    BY Zenon DEF IInv
<1>2. PICK h : node' = [node EXCEPT ![n] = running(fin, node[n].inactive, h)]
    BY Zenon DEF ReceiveStrongQC
<1>3. /\ \E f \in {file[n], torn_file, Saved(node'[n])} : file' = [file EXCEPT ![n] = f]
      /\ blocks' = blocks /\ votes \subseteq votes'
    BY Zenon DEF ReceiveStrongQC, SaveFails
<1>4. AllLockQC(blocks, votes, fin)
    <2>1. ASSUME NEW k \in DOMAIN old PROVE LocksQC(blocks, votes, fin[k])
        <3>1. LocksQC(blocks, votes, old[k])
            BY Zenon DEF LocksHaveQCs, AllLockQC
        <3>2. CASE k \in own
            <4>1. PICK v \in votes : v.block = b
                BY <3>2, Zenon DEF StrongQCs, VotedStrong
            <4>2. b # genesis
                BY <4>1, Zenon DEF IInv, VotesOK
            <4>3. fin[k] = maybe_update_fsi(old[k], blocks[b])
                BY <3>2, Zenon
            <4>4. QED
                BY <1>1, <3>1, <4>2, <4>3, DecisionLocksQC, ZenonT(30)
        <3>3. CASE k \notin own
            BY <3>1, <3>3, Zenon
        <3>4. QED
            BY <3>2, <3>3, Zenon
    <2>2. QED
        BY <2>1, Zenon DEF AllLockQC
<1> HIDE DEF fin
<1>5. node'[n] = running(fin, node[n].inactive, h)
    BY <1>1, <1>2, Zenon
<1>6. PICK f \in {file[n], torn_file, Saved(running(fin, node[n].inactive, h))} : file' = [file EXCEPT ![n] = f]
    BY <1>3, <1>5, Zenon
<1>7. MovesTo(n, fin, h, running(fin, node[n].inactive, h), f)
    BY <1>2, <1>6, Zenon DEF MovesTo
<1>8. QED
    BY <1>3, <1>4, <1>7, LocksMove, Zenon

(* The last final block of a block has a QC. *)
LEMMA FinalBlocksHaveQCs ==
    ASSUME FInv, NEW a \in FinalBlocks
    PROVE  a \in DOMAIN blocks /\ QCIn(votes, a)
<1>1. ClaimsOK(blocks, votes)
    BY Zenon DEF FInv, IInv
<1>2. a \in DOMAIN blocks /\ (a = genesis \/ \E s \in DOMAIN blocks : a = ClaimIn(blocks, s))
    BY FinalIsClaimed, Zenon
<1>3. CASE a = genesis
    BY <1>2, <1>3, Zenon DEF QCIn
<1>4. CASE \E s \in DOMAIN blocks : a = ClaimIn(blocks, s)
    BY <1>1, <1>2, <1>4, Zenon DEF ClaimsOK
<1>5. QED
    BY <1>2, <1>3, <1>4, Zenon

(* set_keys: a node starts with the information of its file, or with a     *)
(* default that is locked on a final block.                                *)
LEMMA LocksStart ==
    ASSUME FInv, LocksHaveQCs, NEW n \in Nodes, NEW keys \in SUBSET KeysOf[n],
           NEW default_fsi \in DefaultsAtStartup, Start(n, keys, default_fsi)
    PROVE  LocksHaveQCs'
<1> DEFINE info == file[n].info
           fin  == set_keys(keys, info, default_fsi)
           idle == inactive_info(keys, info)
<1>1. LocksQC(blocks, votes, default_fsi)
    <2>1. ASSUME NEW b \in DOMAIN blocks, QCIn(votes, b),
                 NEW last_vote, last_vote = no_ref \/ last_vote = ref_of(blocks[b].ref)
          PROVE  LocksQC(blocks, votes, safety_information(last_vote, ref_of(blocks[b].ref), NoTimestamp))
        BY <2>1, Zenon DEF LocksQC, safety_information
    <2>2. genesis \in DOMAIN blocks /\ QCIn(votes, genesis)
        BY Zenon DEF FInv, IInv, TreeOK, QCIn
    <2>3. CASE default_fsi = transition_fsi(ref_of(blocks[genesis].ref))
        BY <2>1, <2>2, <2>3, Zenon DEF transition_fsi
    <2>4. CASE \E b \in FinalBlocks :
                   default_fsi = safety_information(no_ref, ref_of(blocks[b].ref), NoTimestamp)
        BY <2>1, <2>4, FinalBlocksHaveQCs, Zenon
    <2>5. QED
        BY <2>3, <2>4, ZenonT(30) DEF DefaultsAtStartup
<1>2. AllLockQC(blocks, votes, info)
    BY ZenonT(30) DEF LocksHaveQCs
<1>3. AllLockQC(blocks, votes, fin) /\ AllLockQC(blocks, votes, idle)
    BY <1>1, <1>2, ZenonT(30) DEF AllLockQC, set_keys, inactive_info
<1>4. PICK h : Started(keys, info, default_fsi) = running(fin, idle, h)
    BY Zenon DEF Started
<1>5. PICK nd : /\ nd = Started(keys, info, default_fsi)
                /\ nd.finalizers = fin /\ nd.inactive = idle
    <2> DEFINE s == running(fin, idle, h)
    <2>1. s.finalizers = fin /\ s.inactive = idle
        BY RunningFields
    <2> HIDE DEF s
    <2>2. QED
        BY <1>4, <2>1, Zenon DEF s
<1>6. /\ node' = [node EXCEPT ![n] = nd] /\ file' = file
      /\ blocks' = blocks /\ votes \subseteq votes' /\ IInv
    BY <1>5, Zenon DEF Start, FInv
<1> HIDE DEF fin, idle
<1>7. QED
    BY <1>2, <1>3, <1>5, <1>6, LocksStep, ZenonT(30)

(* At the transition all finalizers are locked on the genesis block. *)
LEMMA InitLocks == Init => LocksHaveQCs
<1> SUFFICES ASSUME Init PROVE LocksHaveQCs
    OBVIOUS
<1> DEFINE default == transition_fsi(ref_of(blocks[genesis].ref))
           fin(n)  == set_default_safety_information(set_keys(KeysOf[n], no_info, unset_fsi), default)
<1>1. genesis \in DOMAIN blocks /\ QCIn(votes, genesis)
    BY InitTree, Zenon DEF TreeOK, QCIn
<1>2. LocksQC(blocks, votes, default)
    BY <1>1, Zenon DEF LocksQC, transition_fsi, safety_information
<1>3. empty(unset_fsi.last_vote) /\ empty(unset_fsi.lock)
    BY Zenon DEF empty, unset_fsi, no_ref, safety_information
<1>4. ASSUME NEW n PROVE AllLockQC(blocks, votes, fin(n)) /\ AllLockQC(blocks, votes, no_info)
    <2> DEFINE unset == set_keys(KeysOf[n], no_info, unset_fsi)
    <2>1. DOMAIN unset = KeysOf[n] /\ \A k \in KeysOf[n] : unset[k] = unset_fsi
        BY Zenon DEF set_keys, no_info
    <2> HIDE DEF unset
    <2>2. \A k \in DOMAIN fin(n) : fin(n)[k] = default
        BY <1>3, <2>1, Zenon DEF set_default_safety_information, unset
    <2>3. QED
        BY <1>2, <2>2, Zenon DEF AllLockQC, no_info
<1> HIDE DEF fin
<1>5. \A n \in Nodes : node[n] = running(fin(n), no_info, FALSE)
    BY Zenon DEF Init, fin
<1>6. \A n \in Nodes : file[n].info = no_info
    BY Zenon DEF Init, no_file, safety_file
<1>7. ASSUME NEW n \in Nodes
      PROVE  /\ AllLockQC(blocks, votes, node[n].finalizers)
             /\ AllLockQC(blocks, votes, node[n].inactive)
             /\ AllLockQC(blocks, votes, file[n].info)
    <2>1. PICK h : node[n] = running(fin(n), no_info, h)
        BY <1>5, Zenon
    <2> DEFINE s == running(fin(n), no_info, h)
    <2>2. s.finalizers = fin(n) /\ s.inactive = no_info
        BY RunningFields
    <2> HIDE DEF s
    <2>3. node[n] = s
        BY <2>1, Zenon DEF s
    <2>4. QED
        BY <1>4, <1>6, <2>2, <2>3, ZenonT(30)
<1>8. QED
    BY <1>7, Zenon DEF LocksHaveQCs

(* No vote, failure, restart or lost file locks a finalizer on a block     *)
(* that has no QC.                                                         *)
LEMMA StepLocks ==
    ASSUME FInv, LocksHaveQCs, [Next]_vars
    PROVE  LocksHaveQCs'
<1>1. IInv
    BY Zenon DEF FInv
<1>2. ASSUME NEW parent \in DOMAIN blocks, NEW name \in Names, NEW time \in 2 .. MaxTime,
             NEW num \in 1 .. parent.num, NEW strong \in BOOLEAN,
             Propose(parent, name, time, qc_claim_t(num, strong))
      PROVE  LocksHaveQCs'
    <2>1. Extended(blocks, blocks')
        BY <1>1, <1>2, ProposeFacts, Zenon
    <2>2. node' = node /\ file' = file /\ votes' = votes /\ votes \subseteq votes
        BY <1>2, Zenon DEF Propose
    <2>3. \A info : AllLockQC(blocks, votes, info) => AllLockQC(blocks', votes, info)
        BY <2>1, <2>2, LocksStay, Zenon
    <2>4. QED
        BY <2>2, <2>3, Zenon DEF LocksHaveQCs
<1>3. ASSUME NEW n \in Nodes, NEW b \in DOMAIN blocks,
             \/ Vote(n, b)
             \/ \E signed \in SUBSET Voters(n, b) : VoteUnsigned(n, b, signed)
             \/ VoteUnsaved(n, b)
             \/ VoteCrash(n, b)
      PROVE  LocksHaveQCs'
    <2>1. blocks' = blocks
        BY <1>3, Zenon DEF Vote, VoteUnsigned, VoteUnsaved, VoteCrash
    <2>2. ~(\E parent \in DOMAIN blocks, name \in Names, time \in 2 .. MaxTime :
                \E num \in 1 .. parent.num, strong \in BOOLEAN :
                    Propose(parent, name, time, qc_claim_t(num, strong)))
        <3>1. ASSUME NEW parent \in DOMAIN blocks, NEW name \in Names, NEW time \in 2 .. MaxTime,
                     NEW num \in 1 .. parent.num, NEW strong \in BOOLEAN,
                     Propose(parent, name, time, qc_claim_t(num, strong))
              PROVE  FALSE
            <4>1. PICK id : id \notin DOMAIN blocks /\ DOMAIN blocks' = DOMAIN blocks \cup {id}
                BY <1>1, <3>1, ProposeFacts, Zenon
            <4>2. QED
                BY <2>1, <4>1, ZenonT(30)
        <3>2. QED
            BY <3>1, Zenon
    <2>3. votes \subseteq votes'
        BY <2>2, StepKinds, Zenon
    <2>4. QED
        BY <1>1, <1>3, <2>1, <2>3, LocksVote, Zenon
<1>4. ASSUME NEW n \in Nodes, NEW b \in CarriedStrongQCs, NEW qc \in StrongQCs(b), ReceiveStrongQC(n, b, qc)
      PROVE  LocksHaveQCs'
    <2>1. b \in DOMAIN blocks
        BY Zenon DEF CarriedStrongQCs
    <2>2. QED
        BY <1>1, <1>4, <2>1, LocksReceive, ZenonT(30)
<1>5. ASSUME NEW n \in Nodes, Stop(n) \/ LoseFile(n) PROVE LocksHaveQCs'
    <2>1. /\ AllLockQC(blocks, votes, node[n].finalizers)
          /\ AllLockQC(blocks, votes, node[n].inactive)
          /\ AllLockQC(blocks, votes, file[n].info)
        BY Zenon DEF LocksHaveQCs
    <2>2. /\ AllLockQC(blocks, votes, stopped.finalizers)
          /\ AllLockQC(blocks, votes, stopped.inactive)
          /\ AllLockQC(blocks, votes, no_file.info)
        BY Zenon DEF stopped, no_file, safety_file, no_info, AllLockQC
    <2>3. CASE Stop(n)
        <3>1. /\ node' = [node EXCEPT ![n] = stopped] /\ file' = file
              /\ blocks' = blocks /\ votes \subseteq votes'
            BY <2>3, Zenon DEF Stop
        <3>2. QED
            BY <1>1, <2>1, <2>2, <3>1, LocksStep, Zenon
    <2>4. CASE LoseFile(n)
        <3>1. /\ file' = [file EXCEPT ![n] = no_file] /\ node' = node
              /\ blocks' = blocks /\ votes \subseteq votes'
            BY <2>4, Zenon DEF LoseFile
        <3>2. QED
            BY <1>1, <2>1, <2>2, <3>1, LocksStep, Zenon
    <2>5. QED
        BY <1>5, <2>3, <2>4, ZenonT(30)
<1>6. ASSUME NEW n \in Nodes, NEW keys \in SUBSET Keys, NEW default_fsi \in DefaultsAtStartup,
             keys \subseteq KeysOf[n], Start(n, keys, default_fsi)
      PROVE  LocksHaveQCs'
    BY <1>6, LocksStart, ZenonT(30)
<1>7. CASE UNCHANGED vars
    BY <1>7, Zenon DEF vars, LocksHaveQCs
<1>8. QED
    BY <1>2, <1>3, <1>4, <1>5, <1>6, <1>7, ZenonT(30) DEF Next

(* No other block with a QC is as recent as tip. *)
LatestIsAlone(tip) ==
    /\ tip \in DOMAIN blocks /\ QCIn(votes, tip)
    /\ \A b \in DOMAIN blocks : QCIn(votes, b) =>
          TimeIn(blocks, b) <= TimeIn(blocks, tip) /\ (TimeIn(blocks, b) = TimeIn(blocks, tip) => b = tip)

(* The finalizers of every running node vote for a block on the most       *)
(* recent one that has a QC, and strongly for the next, if no other block  *)
(* with a QC has its timestamp.                                            *)
LEMMA CanFinalize ==
    ASSUME IInv, LocksHaveQCs, LatestIsAlone(Latest(QCBlocks))
    PROVE  FinalizersCanFinalize
<1> DEFINE tip       == Latest(QCBlocks)
           id(num)   == [num |-> num, name |-> "new"]
           latest    == latest_qc_claim(blocks[tip].core)
           tip_claim == IF latest.block_num = tip.num THEN latest ELSE qc_claim_t(tip.num, FALSE)
           first     == [ref  |-> block_ref(id(tip.num + 1), MaxTime + 1, 1, 0),
                         core |-> next(blocks[tip].core, blocks[tip].ref, tip_claim)]
           second    == [ref  |-> block_ref(id(tip.num + 2), MaxTime + 2, 1, 0),
                         core |-> next(first.core, first.ref, qc_claim_t(tip.num + 1, FALSE))]
           Refs      == {blocks[a].ref : a \in blocks[tip].ancestors}
           T         == TimeIn(blocks, tip)
<1>1. TreeOK(blocks)
    BY Zenon DEF IInv
<1>2. /\ tip \in DOMAIN blocks
      /\ \A b \in DOMAIN blocks : QCIn(votes, b) =>
            TimeIn(blocks, b) <= T /\ (TimeIn(blocks, b) = T => b = tip)
    BY Zenon DEF LatestIsAlone
<1>3. /\ first.ref.block_id = id(tip.num + 1) /\ first.ref.timestamp = MaxTime + 1
      /\ second.ref.timestamp = MaxTime + 2
      /\ first.core = next(blocks[tip].core, blocks[tip].ref, tip_claim)
      /\ second.core = next(first.core, first.ref, qc_claim_t(tip.num + 1, FALSE))
      /\ id(tip.num + 1).num = tip.num + 1
    BY Zenon DEF block_ref
<1> SUFFICES \A n \in Nodes : \A k \in DOMAIN node[n].finalizers :
                 /\ decision(node[n].finalizers[k], first) # "no_vote"
                 /\ decision(fsi_after(node[n].finalizers[k], first), second) = "strong_vote"
    BY Zenon DEF FinalizersCanFinalize
<1>4. /\ tip.num \in Nat /\ blocks[tip].ref.block_id = tip
      /\ SoundCore(blocks[tip].core, tip.num, Refs)
      /\ T \in Nat
    BY <1>1, <1>2, BlockNumbers, Zenon DEF TreeOK, BlockOK
<1>5. tip_claim \in Claims /\ tip_claim.block_num = tip.num
    <2>1. ASSUME latest.block_num = tip.num PROVE latest \in Claims
        BY <1>4, CoreLinks, ZenonT(30)
    <2>2. qc_claim_t(tip.num, FALSE) \in Claims /\ qc_claim_t(tip.num, FALSE).block_num = tip.num
        BY <1>4 DEF qc_claim_t, Claims
    <2>3. QED
        BY <2>1, <2>2, Zenon
<1> HIDE DEF first, second, tip_claim, latest, tip, id, Refs
<1>6. \A r \in Refs : r.block_id.num \in Nat /\ r.block_id.num < tip.num
    <2>1. ASSUME NEW a \in blocks[tip].ancestors
          PROVE  blocks[a].ref.block_id.num \in Nat /\ blocks[a].ref.block_id.num < tip.num
        <3>1. a \in DOMAIN blocks /\ a.num < tip.num
            BY <1>1, <1>2, Zenon DEF TreeOK, BlockOK
        <3>2. blocks[a].ref.block_id = a /\ a \in BlockIds
            BY <1>1, <3>1, Zenon DEF TreeOK, BlockOK
        <3>3. QED
            BY <3>1, <3>2, BlockNumbers, Zenon
    <2>2. QED
        BY <2>1, Zenon DEF Refs
<1>7. ClaimsParent(first.core, tip.num, Refs, blocks[tip].ref)
    <2>1. \A r \in Refs : r.block_id.num # tip.num
        BY <1>4, <1>6
    <2>2. QED
        BY <1>3, <1>4, <1>5, <2>1, ParentIsClaimed, ZenonT(30)
<1>8. ClaimsParent(second.core, tip.num + 1, Refs \cup {blocks[tip].ref}, first.ref)
    <2>1. \A r \in Refs \cup {blocks[tip].ref} : r.block_id.num # tip.num + 1
        BY <1>4, <1>6
    <2>2. tip.num + 1 \in Nat
        BY <1>4
    <2>3. /\ qc_claim_t(tip.num + 1, FALSE) \in Claims
          /\ qc_claim_t(tip.num + 1, FALSE).block_num = tip.num + 1
        BY <2>2 DEF qc_claim_t, Claims
    <2>4. first.ref.block_id.num = tip.num + 1
        BY <1>3, Zenon
    <2>5. SoundCore(first.core, tip.num + 1, Refs \cup {blocks[tip].ref})
        BY <1>7, Zenon DEF ClaimsParent
    <2>6. QED
        BY <1>3, <2>1, <2>2, <2>3, <2>4, <2>5, ParentIsClaimed, ZenonT(30)
<1>9. /\ latest_qc_block_timestamp(first.core) = T /\ extends(first.core, tip)
      /\ latest_qc_claim__block_ref(first) = ref_of(blocks[tip].ref)
      /\ latest_qc_block_timestamp(second.core) = MaxTime + 1
    BY <1>3, <1>4, <1>7, <1>8, ZenonT(30) DEF ClaimsParent, latest_qc_claim__block_ref, TimeIn
<1>10. ~empty(ref_of(first.ref))
    <2>1. ref_of(first.ref).block_id.num = tip.num + 1
        BY <1>3, Zenon DEF ref_of
    <2>2. QED
        BY <1>4, <2>1 DEF empty
<1>11. ref_of(blocks[tip].ref).timestamp = T /\ ~empty(ref_of(blocks[tip].ref))
    BY <1>1, <1>2, RefFacts, Zenon
<1>12. \A b \in DOMAIN blocks : TimeIn(blocks, b) \in Nat /\ TimeIn(blocks, b) <= MaxTime
    BY <1>1, BlockTimes, Zenon
<1>13. ASSUME NEW n \in Nodes, NEW k \in DOMAIN node[n].finalizers
       PROVE  /\ decision(node[n].finalizers[k], first) # "no_vote"
              /\ decision(fsi_after(node[n].finalizers[k], first), second) = "strong_vote"
    <2>1. PICK fsi : fsi = node[n].finalizers[k]
        BY Zenon
    <2>2. LocksQC(blocks, votes, fsi)
        BY <2>1, Zenon DEF LocksHaveQCs, AllLockQC
    <2>3. PICK L \in DOMAIN blocks : fsi.lock = ref_of(blocks[L].ref) /\ QCIn(votes, L)
        BY <2>2, Zenon DEF LocksQC
    <2>4. /\ fsi.lock.block_id = L /\ fsi.lock.timestamp = TimeIn(blocks, L)
          /\ ~empty(fsi.lock) /\ TimeIn(blocks, L) \in Nat
        BY <1>1, <2>3, RefFacts, ZenonT(30)
    <2>5. TimeIn(blocks, L) <= T
        BY <1>2, <2>3, Zenon
    <2>6. TimeIn(blocks, L) = T => L = tip
        BY <1>2, <2>3, Zenon
    <2>7. fsi.lock.timestamp < T \/ (fsi.lock.timestamp = T /\ extends(first.core, fsi.lock.block_id))
        <3>1. TimeIn(blocks, L) < T \/ TimeIn(blocks, L) = T
            BY <1>4, <2>4, <2>5, NumberOrder, ZenonT(30)
        <3>2. QED
            BY <1>9, <2>4, <2>6, <3>1, ZenonT(30)
    <2>8. empty(fsi.last_vote) \/ (fsi.last_vote.timestamp \in Nat /\ fsi.last_vote.timestamp <= MaxTime)
        <3>1. CASE fsi.last_vote = no_ref
            <4>1. empty(no_ref)
                BY Zenon DEF no_ref, empty
            <4>2. QED
                BY <3>1, <4>1, Zenon
        <3>2. CASE \E V \in DOMAIN blocks : fsi.last_vote = ref_of(blocks[V].ref)
            <4>1. PICK V \in DOMAIN blocks : fsi.last_vote = ref_of(blocks[V].ref)
                BY <3>2, Zenon
            <4>2. ref_of(blocks[V].ref).timestamp = TimeIn(blocks, V)
                BY <1>1, RefFacts, Zenon
            <4>3. TimeIn(blocks, V) \in Nat /\ TimeIn(blocks, V) <= MaxTime
                BY <1>12, Zenon
            <4>4. QED
                BY <4>1, <4>2, <4>3, Zenon
        <3>3. QED
            BY <2>2, <3>1, <3>2, Zenon DEF LocksQC
    <2>9. MaxTime \in Nat /\ T <= MaxTime
        BY <1>2, <1>12, MaxBlockNumAssumption, ZenonT(30)
    <2>10. fsi.lock.timestamp \in Nat
        BY <2>4, Zenon
    <2> HIDE DEF T
    <2>11. /\ decision(fsi, first) # "no_vote"
           /\ decision(fsi_after(fsi, first), second) = "strong_vote"
        BY <1>3, <1>4, <1>9, <1>10, <1>11, <2>4, <2>7, <2>8, <2>9, <2>10, VotesForBoth, ZenonT(30)
    <2>12. QED
        BY <2>1, <2>11, Zenon
<1>14. QED
    BY <1>13, Zenon

-----------------------------------------------------------------------------
(* Agreement *)

RulesProofs == INSTANCE SafetyRulesProofs WITH
    Blocks    <- BlockIds,
    Genesis   <- genesis,
    Times     <- 1 .. MaxTime,
    Honest    <- Keys,
    Quorums   <- Quorums,
    known     <- DOMAIN blocks,
    timestamp <- [b \in BlockIds |-> IF b \in DOMAIN blocks THEN time_of(b) - 1 ELSE 0],
    ancestors <- [b \in BlockIds |-> IF b \in DOMAIN blocks THEN blocks[b].ancestors ELSE {}],
    claim     <- [b \in BlockIds |-> IF b \in DOMAIN blocks THEN ClaimedBlock(b) ELSE genesis],
    votes     <- votes

(* Two quorums have an honest finalizer in common: the threshold is above  *)
(* half of the weight, and faulty finalizers are few.                      *)
QuorumsMeet == \A Q1, Q2 \in Quorums : \E k \in Keys : k \in Q1 /\ k \in Q2

(* The constants of Savanna are as SafetyRules assumes. *)
LEMMA RulesAssumptions ==
    ASSUME QuorumsMeet
    PROVE  /\ genesis \in BlockIds
           /\ 1 .. MaxTime \subseteq Nat
           /\ \A Q1, Q2 \in Quorums : \E f \in Keys : f \in Q1 /\ f \in Q2
<1>1. genesis \in BlockIds
    BY Zenon DEF BlockIds
<1>2. 1 .. MaxTime \subseteq Nat
    BY MaxBlockNumAssumption
<1>3. QED
    BY <1>1, <1>2, ZenonT(30) DEF QuorumsMeet

(* The two instances of SafetyRules are one. *)
LEMMA SameRules ==
    /\ Rules!Init => RulesProofs!Init
    /\ [Rules!Next]_(Rules!vars) => [RulesProofs!Next]_(RulesProofs!vars)
<1>1. Rules!Init => RulesProofs!Init
    BY Zenon DEF Rules!Init, RulesProofs!Init
<1>2. [Rules!Next]_(Rules!vars) => [RulesProofs!Next]_(RulesProofs!vars)
    BY Zenon DEF Rules!Next, RulesProofs!Next, Rules!vars, RulesProofs!vars,
       Rules!Propose, RulesProofs!Propose, Rules!Vote, RulesProofs!Vote, Rules!VotesFor, RulesProofs!VotesFor,
       Rules!MayVote, RulesProofs!MayVote, Rules!Monotone, RulesProofs!Monotone,
       Rules!RespectsLocks, RulesProofs!RespectsLocks, Rules!NoForkSinceClaim, RulesProofs!NoForkSinceClaim,
       Rules!HasQC, RulesProofs!HasQC, Rules!VotesOf, RulesProofs!VotesOf, Rules!Extends, RulesProofs!Extends
<1>3. QED
    BY <1>1, <1>2, ZenonT(30)

(* A lost safety file is never found again. *)
LEMMA LostStaysLost ==
    ASSUME IInv, [Next]_vars, faults'.lost_file = 0
    PROVE  faults.lost_file = 0
<1>1. faults \in [vote : Nat, stop : Nat, lost_file : Nat]
    BY Zenon DEF IInv
<1>2. CASE faults' = faults
    BY <1>2, ZenonT(30)
<1>3. CASE \/ faults' = [faults EXCEPT !.vote = @ + 1]
           \/ faults' = [faults EXCEPT !.stop = @ + 1]
    BY <1>1, <1>3, ZenonT(30)
<1>4. CASE faults' = [faults EXCEPT !.lost_file = @ + 1]
    <2>1. faults.lost_file \in Nat /\ faults'.lost_file = faults.lost_file + 1
        BY <1>1, <1>4, ZenonT(30)
    <2>2. QED
        BY <2>1, SMTT(20)
<1>5. \/ faults' = faults
      \/ faults' = [faults EXCEPT !.vote = @ + 1]
      \/ faults' = [faults EXCEPT !.stop = @ + 1]
      \/ faults' = [faults EXCEPT !.lost_file = @ + 1]
    BY ZenonT(30) DEF Next, vars, Propose, Vote, VoteUnsigned, VoteUnsaved, VoteCrash, VoteFault, ReceiveStrongQC,
                 Stop, LoseFile, Start
<1>6. QED
    BY <1>2, <1>3, <1>4, <1>5, ZenonT(30)

(* As long as no safety file is lost, the votes so far are as the rules    *)
(* allow.                                                                  *)
LEMMA VotesKeepRules ==
    ASSUME QuorumsMeet
    PROVE  Spec => [](faults.lost_file = 0 => RulesProofs!IInv)
<1> DEFINE J == faults.lost_file = 0 => RulesProofs!IInv
<1>1. Init => J
    BY InitIsRules, SameRules, RulesAssumptions, RulesProofs!InitEstablishes, ZenonT(30)
<1>2. IInv /\ J /\ [Next]_vars => J'
    <2> SUFFICES ASSUME IInv, J, [Next]_vars, faults'.lost_file = 0
                 PROVE  RulesProofs!IInv'
        BY Zenon
    <2>1. faults.lost_file = 0
        BY LostStaysLost, ZenonT(30)
    <2>2. [RulesProofs!Next]_(RulesProofs!vars)
        BY <2>1, StepIsRules, SameRules, ZenonT(30)
    <2>3. RulesProofs!IInv
        BY <2>1, Zenon
    <2>4. QED
        BY <2>2, <2>3, RulesAssumptions, RulesProofs!StepPreserves, ZenonT(30)
<1> HIDE DEF J
<1>3. Spec => []J
    BY <1>1, <1>2, SavannaInvariant, PTL DEF Spec
<1>4. QED
    BY <1>3, Zenon DEF J

(* What a finality core reports final is final by the two-chain rule. *)
LEMMA ReportedIsFinal ==
    ASSUME FInv, NEW a \in FinalBlocks
    PROVE  a \in DOMAIN blocks /\ RulesProofs!Final(a)
<1>1. TreeOK(blocks) /\ a \in DOMAIN blocks
    BY FinalIsClaimed, Zenon DEF FInv, IInv
<1>2. CASE a = genesis
    BY <1>1, <1>2, ZenonT(30) DEF RulesProofs!Final
<1>3. ASSUME NEW s \in DOMAIN blocks, s # genesis, a = ClaimIn(blocks, s), StrongQCIn(votes, s)
      PROVE  RulesProofs!Final(a)
    <2>1. ClaimMap(blocks)[s] = a
        BY <1>1, <1>3, MapValues, ZenonT(30)
    <2>2. RulesProofs!HasStrongQC(s)
        <3>1. ASSUME NEW k, [finalizer |-> k, block |-> s, strong |-> TRUE] \in votes
              PROVE  \E v \in RulesProofs!VotesOf(k) : v.block = s /\ v.strong
            <4>1. PICK v \in votes : v = [finalizer |-> k, block |-> s, strong |-> TRUE]
                BY <3>1, Zenon
            <4>2. v.finalizer = k /\ v.block = s /\ v.strong
                BY <4>1, Zenon
            <4>3. QED
                BY <4>2, Zenon DEF RulesProofs!VotesOf
        <3>2. QED
            BY <1>3, <3>1, ZenonT(30) DEF StrongQCIn, RulesProofs!HasStrongQC
    <2>3. QED
        BY <1>1, <1>3, <2>1, <2>2, MapsAreRules, ZenonT(30) DEF RulesProofs!Final
<1>4. QED
    BY <1>1, <1>2, <1>3, FinalIsClaimed, ZenonT(30)

(* The blocks that the finality cores of any two blocks report final, on   *)
(* whatever branches, are on one branch: no two nodes, and no node at two  *)
(* times, has conflicting irreversible blocks.                             *)
FinalBlocksAgree == \A a, b \in FinalBlocks : a \in Branch(b) \/ b \in Branch(a)

(* The fork database prefers the branch with the most recent QC; a block   *)
(* whose claim is as recent as a final block extends it.                   *)
RecentClaimsExtendFinal ==
    \A a \in FinalBlocks, b \in DOMAIN blocks :
        time_of(ClaimedBlock(b)) >= time_of(a) => a \in Branch(b)

(* What SafetyRules proves of the votes holds of the blocks of Savanna. *)
LEMMA RulesMeanAgreement ==
    ASSUME QuorumsMeet, FInv, RulesProofs!IInv
    PROVE  FinalBlocksAgree /\ RecentClaimsExtendFinal
<1>1. RulesProofs!Agreement /\ RulesProofs!BestBranchExtendsFinal
    BY RulesAssumptions, RulesProofs!InvariantImpliesAgreement, RulesProofs!InvariantImpliesBestBranch, ZenonT(30)
<1>2. TreeOK(blocks)
    BY Zenon DEF FInv, IInv
<1>3. ASSUME NEW a \in DOMAIN blocks, NEW b \in DOMAIN blocks
      PROVE  RulesProofs!Extends(a, b) <=> b \in Branch(a)
    <2>1. AncestorMap(blocks)[a] = blocks[a].ancestors
        BY <1>2, MapValues, ZenonT(30)
    <2>2. QED
        BY <2>1, MapsAreRules, ZenonT(30) DEF RulesProofs!Extends, Branch
<1>4. FinalBlocksAgree
    <2> SUFFICES ASSUME NEW a \in FinalBlocks, NEW b \in FinalBlocks
                 PROVE  a \in Branch(b) \/ b \in Branch(a)
        BY Zenon DEF FinalBlocksAgree
    <2>1. /\ a \in DOMAIN blocks /\ RulesProofs!Final(a)
          /\ b \in DOMAIN blocks /\ RulesProofs!Final(b)
        BY ReportedIsFinal, Zenon
    <2>2. RulesProofs!Extends(a, b) \/ RulesProofs!Extends(b, a)
        BY <1>1, <2>1, ZenonT(30) DEF RulesProofs!Agreement
    <2>3. QED
        BY <1>3, <2>1, <2>2, ZenonT(30)
<1>5. RecentClaimsExtendFinal
    <2> SUFFICES ASSUME NEW a \in FinalBlocks, NEW b \in DOMAIN blocks,
                        time_of(ClaimedBlock(b)) >= time_of(a)
                 PROVE  a \in Branch(b)
        BY Zenon DEF RecentClaimsExtendFinal
    <2>1. a \in DOMAIN blocks /\ RulesProofs!Final(a)
        BY ReportedIsFinal, Zenon
    <2>2. PICK C : C = ClaimIn(blocks, b)
        BY ZenonT(30)
    <2>3. C \in DOMAIN blocks
        BY <1>2, <2>2, ClaimFacts, ZenonT(30)
    <2>4. ClaimMap(blocks)[b] = C
        BY <1>2, <2>2, MapValues, ZenonT(30)
    <2>5. C = ClaimedBlock(b) /\ TimeIn(blocks, C) >= TimeIn(blocks, a)
        BY <2>2, ZenonT(30) DEF ClaimIn, ClaimedBlock, ClaimNum, AncestorAt, AncestorIn, Branch, BranchIn, time_of, TimeIn
    <2>6. TimeMap(blocks)[ClaimMap(blocks)[b]] >= TimeMap(blocks)[a]
        BY <1>2, <2>1, <2>3, <2>4, <2>5, TimesCompare, ZenonT(30)
    <2>7. RulesProofs!Extends(b, a)
        BY <1>1, <2>1, <2>6, MapsAreRules, ZenonT(30) DEF RulesProofs!BestBranchExtendsFinal
    <2>8. QED
        BY <1>3, <2>1, <2>7, ZenonT(30)
<1>6. QED
    BY <1>4, <1>5, ZenonT(30)

(* No fork of the irreversible chain, with the code's finality cores and   *)
(* the code's finalizers, for any tree of blocks and any failures of the   *)
(* nodes, until a safety file is lost.                                     *)
THEOREM FinalityIsSafe ==
    ASSUME QuorumsMeet
    PROVE  Spec => [](faults.lost_file = 0 => FinalBlocksAgree /\ RecentClaimsExtendFinal)
<1>1. FInv /\ (faults.lost_file = 0 => RulesProofs!IInv) =>
          (faults.lost_file = 0 => FinalBlocksAgree /\ RecentClaimsExtendFinal)
    BY RulesMeanAgreement, Zenon
<1>2. Spec => [](faults.lost_file = 0 => RulesProofs!IInv)
    BY VotesKeepRules, ZenonT(30)
<1>3. QED
    BY <1>1, <1>2, FinalityInvariant, PTL

(* Blocks with a QC are told apart by their timestamps: two quorums have   *)
(* an honest finalizer in common, which votes once at a time.              *)
LEMMA QCsHaveTheirTime ==
    ASSUME QuorumsMeet, IInv, RulesProofs!IInv,
           NEW a \in DOMAIN blocks, QCIn(votes, a), NEW b \in DOMAIN blocks, QCIn(votes, b),
           TimeIn(blocks, a) = TimeIn(blocks, b)
    PROVE  a = b
<1>1. TreeOK(blocks)
    BY Zenon DEF IInv
<1>2. ASSUME NEW c \in DOMAIN blocks, c # genesis PROVE TimeIn(blocks, c) # TimeIn(blocks, genesis)
    <2>1. genesis \in blocks[c].ancestors /\ genesis \in DOMAIN blocks
        BY <1>1, <1>2, ZenonT(30) DEF TreeOK, BlockOK
    <2>2. /\ TimeIn(blocks, genesis) < TimeIn(blocks, c)
          /\ TimeIn(blocks, genesis) \in Nat /\ TimeIn(blocks, c) \in Nat
        BY <1>1, <2>1, ZenonT(30) DEF TreeOK, BlockOK
    <2>3. QED
        BY <2>2, NumberOrder, ZenonT(30)
<1>3. CASE a = genesis \/ b = genesis
    BY <1>2, <1>3, ZenonT(30)
<1>4. CASE a # genesis /\ b # genesis
    <2>1. PICK Q1 \in Quorums : \A k \in Q1 \cap Keys : \E v \in votes : v.finalizer = k /\ v.block = a
        BY <1>4, Zenon DEF QCIn
    <2>2. PICK Q2 \in Quorums : \A k \in Q2 \cap Keys : \E v \in votes : v.finalizer = k /\ v.block = b
        BY <1>4, Zenon DEF QCIn
    <2>3. PICK k \in Keys : k \in Q1 /\ k \in Q2
        BY Zenon DEF QuorumsMeet
    <2>4. PICK v \in votes : v.finalizer = k /\ v.block = a
        BY <2>1, <2>3, ZenonT(30)
    <2>5. PICK w \in votes : w.finalizer = k /\ w.block = b
        BY <2>2, <2>3, ZenonT(30)
    <2>6. TimeMap(blocks)[v.block] = TimeMap(blocks)[w.block]
        BY <1>1, <2>4, <2>5, TimesCompare, ZenonT(30)
    <2>7. RulesProofs!OneVotePerTime
        BY Zenon DEF RulesProofs!IInv
    <2>8. QED
        BY <2>4, <2>5, <2>6, <2>7, MapsAreRules, ZenonT(30) DEF RulesProofs!OneVotePerTime
<1>5. QED
    BY <1>3, <1>4, ZenonT(30)

(* The most recent block with a QC. *)
LEMMA LatestQC ==
    ASSUME QuorumsMeet, IInv, RulesProofs!IInv
    PROVE  LatestIsAlone(Latest(QCBlocks))
<1>0. TreeOK(blocks)
    BY Zenon DEF IInv
<1>1. \A b : b \in QCBlocks <=> b \in DOMAIN blocks /\ QCIn(votes, b)
    BY <1>0, Zenon DEF QCBlocks, QCIn, HasQC, TreeOK
<1>2. genesis \in QCBlocks
    BY Zenon DEF QCBlocks
<1>3. \A b \in QCBlocks : TimeIn(blocks, b) \in Nat /\ TimeIn(blocks, b) <= MaxTime
    BY <1>0, <1>1, BlockTimes, ZenonT(30)
<1> DEFINE T == {MaxTime - TimeIn(blocks, b) : b \in QCBlocks}
<1>a. MaxTime \in Nat
    BY MaxBlockNumAssumption, Zenon
<1>4. T \subseteq Nat /\ T # {}
    <2>1. \A b \in QCBlocks : MaxTime - TimeIn(blocks, b) \in Nat
        BY <1>3, <1>a, CountDown, ZenonT(30)
    <2>2. QED
        BY <1>2, <2>1, ZenonT(30)
<1> HIDE DEF T
<1>5. PICK x \in T : \A y \in T : ~(y < x)
    BY <1>4, RulesAssumptions, RulesProofs!LeastNat, ZenonT(30)
<1>6. PICK a \in QCBlocks : x = MaxTime - TimeIn(blocks, a)
    BY Zenon DEF T
<1>7. ASSUME NEW b \in QCBlocks PROVE TimeIn(blocks, b) <= TimeIn(blocks, a)
    <2>1. ~(MaxTime - TimeIn(blocks, b) < MaxTime - TimeIn(blocks, a))
        BY <1>5, <1>6, ZenonT(30) DEF T
    <2>2. QED
        BY <1>3, <1>a, <2>1, CountDown, ZenonT(30)
<1>8. PICK L : L = Latest(QCBlocks)
    BY Zenon
<1>9. L \in QCBlocks /\ \A b \in QCBlocks : TimeIn(blocks, b) <= TimeIn(blocks, L)
    BY <1>7, <1>8, ZenonT(30) DEF Latest, time_of, TimeIn
<1>10. QED
    BY <1>1, <1>8, <1>9, QCsHaveTheirTime, ZenonT(30) DEF LatestIsAlone

(* No set of votes, failed signatures and saves, crashes, restarts and     *)
(* changes of keys locks a finalizer out: until a safety file is lost,     *)
(* every running one would vote for a block on the most recent one that    *)
(* has a QC, and strongly for the next.  Its lock has a QC, and so has no  *)
(* other block with the same timestamp.                                    *)
THEOREM FinalizersAreNotLockedOut ==
    ASSUME QuorumsMeet
    PROVE  Spec => [](faults.lost_file = 0 => FinalizersCanFinalize)
<1>1. FInv /\ LocksHaveQCs /\ [Next]_vars => LocksHaveQCs'
    BY StepLocks, Zenon
<1>2. Spec => []LocksHaveQCs
    BY <1>1, InitLocks, FinalityInvariant, PTL DEF Spec
<1>3. FInv /\ LocksHaveQCs /\ (faults.lost_file = 0 => RulesProofs!IInv) =>
          (faults.lost_file = 0 => FinalizersCanFinalize)
    BY LatestQC, CanFinalize, ZenonT(30) DEF FInv
<1>4. Spec => [](faults.lost_file = 0 => RulesProofs!IInv)
    BY VotesKeepRules, Zenon
<1>5. QED
    BY <1>2, <1>3, <1>4, FinalityInvariant, PTL

=============================================================================
