-------------------------- MODULE SafetyRulesProofs --------------------------
(***************************************************************************)
(* Agreement follows from the three rules, for every set of blocks, every  *)
(* set of finalizers and every set of quorums that meet in an honest one.  *)
(*                                                                         *)
(* The inductive invariant IInv says that the known blocks form a tree on  *)
(* whose branches timestamps grow, that claims are backed by QCs, and that *)
(* any two votes of one finalizer obey the rules.  Agreement is then a     *)
(* property of a single state: let b finalize a; a block with a QC, more   *)
(* recent than a, that does not extend a has an oldest instance c, and the *)
(* honest finalizer that voted for both b and c has broken a rule.         *)
(***************************************************************************)
EXTENDS SafetyRules, TLAPS, WellFoundedInduction

TreeInv ==
    /\ Genesis \in known
    /\ ancestors[Genesis] = {}
    /\ \A b \in known : ancestors[b] \subseteq known
    /\ \A b \in known : \A a \in ancestors[b] :
          timestamp[a] < timestamp[b] /\ ancestors[a] \subseteq ancestors[b]
    /\ \A b \in known : \A a1, a2 \in ancestors[b] : Extends(a1, a2) \/ Extends(a2, a1)

ClaimInv ==
    \A b \in known \ {Genesis} :
        claim[b] \in ancestors[b] /\ Genesis \in ancestors[b] /\ HasQC(claim[b])

GenesisClaim == claim[Genesis] = Genesis

VotesKnown == \A v \in votes : v.block \in known \ {Genesis}

OneVotePerTime ==
    \A v, w \in votes :
        v.finalizer = w.finalizer /\ timestamp[v.block] = timestamp[w.block] => v.block = w.block

StrongSeesNoFork ==
    \A v, w \in votes :
        /\ v.finalizer = w.finalizer
        /\ v.strong
        /\ timestamp[w.block] < timestamp[v.block]
        /\ timestamp[w.block] > timestamp[claim[v.block]]
        => Extends(v.block, w.block)

LocksRespected ==
    \A v, w \in votes :
        /\ v.finalizer = w.finalizer
        /\ v.strong
        /\ timestamp[v.block] < timestamp[w.block]
        => \/ Extends(w.block, claim[v.block])
           \/ \E c \in ancestors[w.block] : HasQC(c) /\ timestamp[c] > timestamp[claim[v.block]]

IInv == TypeOK /\ TreeInv /\ ClaimInv /\ GenesisClaim /\ VotesKnown /\ OneVotePerTime /\ StrongSeesNoFork /\ LocksRespected

-----------------------------------------------------------------------------
(* A non-empty set of natural numbers has a least element.                 *)
LEMMA LeastNat ==
    ASSUME NEW T, T \subseteq Nat, T # {}
    PROVE  \E x \in T : \A y \in T : ~(y < x)
<1>1. PICK x \in T : \A y \in T : ~(<< y, x >> \in OpToRel(<, Nat))
  BY NatLessThanWellFounded, WFMin, Zenon
<1>2. \A y \in T : ~(y < x)
  BY <1>1, Zenon DEF OpToRel
<1> QED  BY <1>2

(* A QC and a strong QC have an honest finalizer in common.                *)
LEMMA CommonVoter ==
    ASSUME NEW b, NEW c, HasStrongQC(b), HasQC(c), c # Genesis
    PROVE  \E v, w \in votes : /\ v.finalizer = w.finalizer
                               /\ v.block = b /\ v.strong
                               /\ w.block = c
<1>1. PICK Q1 \in Quorums : \A f \in Q1 \cap Honest : \E v \in VotesOf(f) : v.block = b /\ v.strong
  BY DEF HasStrongQC
<1>2. PICK Q2 \in Quorums : \A f \in Q2 \cap Honest : \E v \in VotesOf(f) : v.block = c
  BY DEF HasQC
<1>3. PICK f \in Honest : f \in Q1 /\ f \in Q2
  BY QuorumAssumption
<1> QED  BY <1>1, <1>2, <1>3 DEF VotesOf

(* There are no two blocks with a QC and one timestamp.                    *)
LEMMA OneQCPerTime ==
    ASSUME IInv, NEW c \in known \ {Genesis}, NEW d \in known \ {Genesis},
           HasQC(c), HasQC(d), timestamp[c] = timestamp[d]
    PROVE  c = d
<1>1. PICK Q1 \in Quorums : \A f \in Q1 \cap Honest : \E v \in VotesOf(f) : v.block = c
  BY DEF HasQC
<1>2. PICK Q2 \in Quorums : \A f \in Q2 \cap Honest : \E v \in VotesOf(f) : v.block = d
  BY DEF HasQC
<1>3. PICK f \in Honest : f \in Q1 /\ f \in Q2
  BY QuorumAssumption
<1>4. PICK v, w \in votes : v.finalizer = w.finalizer /\ v.block = c /\ w.block = d
  BY <1>1, <1>2, <1>3 DEF VotesOf
<1> QED  BY <1>4 DEF IInv, OneVotePerTime

(* Once b finalizes a, every block with a QC that is more recent than a    *)
(* extends a.                                                              *)
LEMMA FinalIsExtended ==
    ASSUME IInv, NEW a, NEW b \in known \ {Genesis}, claim[b] = a, HasStrongQC(b),
           NEW d \in known, HasQC(d), timestamp[d] > timestamp[a]
    PROVE  Extends(d, a)
<1> DEFINE Bad == {c \in known : HasQC(c) /\ timestamp[c] > timestamp[a] /\ ~Extends(c, a)}
           T   == {timestamp[c] : c \in Bad}
<1>1. a \in known /\ a \in Blocks /\ a \in ancestors[b]
  BY DEF IInv, ClaimInv, TreeInv, TypeOK
<1>2. \A c \in known : c \in Blocks /\ timestamp[c] \in Nat
  BY DEF IInv, TypeOK
<1> SUFFICES ASSUME d \in Bad
             PROVE  FALSE
  OBVIOUS
<1>3. T \subseteq Nat /\ T # {}
  BY <1>2
<1>4. PICK t \in T : \A y \in T : ~(y < t)
  BY <1>3, LeastNat, Zenon
<1>5. PICK c \in Bad : timestamp[c] = t
  BY <1>4
<1>6. c # Genesis
  <2>1. a = Genesis \/ Genesis \in ancestors[a]
    BY <1>1 DEF IInv, ClaimInv
  <2>2. timestamp[Genesis] <= timestamp[a]
    BY <1>1, <1>2, <2>1 DEF IInv, TreeInv
  <2> QED  BY <1>1, <1>2, <2>2 DEF IInv, TreeInv
<1>7. PICK v, w \in votes : v.finalizer = w.finalizer /\ v.block = b /\ v.strong /\ w.block = c
  BY <1>5, <1>6, CommonVoter
<1>8. CASE timestamp[c] = timestamp[b]
  <2>1. b = c
    BY <1>7, <1>8 DEF IInv, OneVotePerTime
  <2> QED  BY <1>1, <1>5, <2>1 DEF Extends
<1>9. CASE timestamp[c] < timestamp[b]
  <2>1. Extends(b, c)
    BY <1>5, <1>7, <1>9 DEF IInv, StrongSeesNoFork
  <2>2. c \in ancestors[b]
    BY <1>2, <1>5, <1>9, <2>1 DEF Extends
  <2>3. Extends(a, c) \/ Extends(c, a)
    BY <1>1, <2>2 DEF IInv, TreeInv
  <2>4. ~Extends(a, c)
    BY <1>1, <1>2, <1>5 DEF Extends, IInv, TreeInv
  <2> QED  BY <1>5, <2>3, <2>4
<1>10. CASE timestamp[c] > timestamp[b]
  <2>1. Extends(c, a) \/ \E e \in ancestors[c] : HasQC(e) /\ timestamp[e] > timestamp[a]
    BY <1>2, <1>5, <1>7, <1>10 DEF IInv, LocksRespected
  <2>2. PICK e \in ancestors[c] : HasQC(e) /\ timestamp[e] > timestamp[a]
    BY <1>5, <2>1
  <2>3. e \in known
    BY <1>5 DEF IInv, TreeInv
  <2>4. timestamp[e] < timestamp[c] /\ ancestors[e] \subseteq ancestors[c]
    BY <1>5, <2>2 DEF IInv, TreeInv
  <2>5. ~Extends(e, a)
    BY <1>5, <2>2, <2>4 DEF Extends
  <2>6. e \in Bad
    BY <2>2, <2>3, <2>5
  <2>7. timestamp[e] \in T
    BY <2>6
  <2> QED  BY <1>4, <1>5, <2>4, <2>7
<1> QED  BY <1>2, <1>5, <1>8, <1>9, <1>10

(* What the invariant says of a single state.                              *)
LEMMA InvariantImpliesAgreement == IInv => Agreement
<1> SUFFICES ASSUME IInv, NEW a \in known, NEW d \in known, Final(a), Final(d)
             PROVE  Extends(a, d) \/ Extends(d, a)
  BY DEF Agreement
<1>1. CASE a = Genesis \/ d = Genesis
  BY <1>1 DEF IInv, ClaimInv, Extends
<1>2. CASE a # Genesis /\ d # Genesis
  <2>1. PICK b \in known \ {Genesis} : claim[b] = a /\ HasStrongQC(b)
    BY <1>2 DEF Final
  <2>2. PICK e \in known \ {Genesis} : claim[e] = d /\ HasStrongQC(e)
    BY <1>2 DEF Final
  <2>3. HasQC(a) /\ HasQC(d)
    BY <2>1, <2>2 DEF IInv, ClaimInv
  <2>4. timestamp[a] \in Nat /\ timestamp[d] \in Nat
    BY DEF IInv, TypeOK
  <2>5. CASE timestamp[a] = timestamp[d]
    BY <1>2, <2>3, <2>5, OneQCPerTime DEF Extends
  <2>6. CASE timestamp[d] > timestamp[a]
    BY <2>1, <2>3, <2>6, FinalIsExtended
  <2>7. CASE timestamp[a] > timestamp[d]
    BY <2>2, <2>3, <2>7, FinalIsExtended
  <2> QED  BY <2>4, <2>5, <2>6, <2>7
<1> QED  BY <1>1, <1>2

(* A block that claims a QC as recent as the final block a claims it on a  *)
(* or on a block that extends a.                                           *)
LEMMA InvariantImpliesBestBranch == IInv => BestBranchExtendsFinal
<1> SUFFICES ASSUME IInv, NEW a \in known, NEW d \in known, Final(a),
                    timestamp[claim[d]] >= timestamp[a]
             PROVE  Extends(d, a)
  BY DEF BestBranchExtendsFinal
<1>1. CASE a = Genesis
  BY <1>1 DEF IInv, ClaimInv, Extends
<1>2. CASE a # Genesis
  <2>1. PICK b \in known \ {Genesis} : claim[b] = a /\ HasStrongQC(b)
    BY <1>2 DEF Final
  <2>2. HasQC(a) /\ a \in Blocks /\ timestamp[a] \in Nat
    BY <2>1 DEF IInv, ClaimInv, TypeOK
  <2>3. timestamp[Genesis] < timestamp[a]
    BY <1>2 DEF IInv, ClaimInv, TreeInv
  <2>4. claim[Genesis] = Genesis
    BY DEF IInv, GenesisClaim
  <2>5. d # Genesis
    BY <2>2, <2>3, <2>4, GenesisAssumption DEF IInv, TypeOK
  <2>6. claim[d] \in ancestors[d] /\ claim[d] \in known /\ HasQC(claim[d])
    BY <2>5 DEF IInv, ClaimInv, TreeInv
  <2>7. ancestors[claim[d]] \subseteq ancestors[d] /\ timestamp[claim[d]] \in Nat
    BY <2>6 DEF IInv, TreeInv, TypeOK
  <2>8. Extends(claim[d], a)
    <3>1. CASE timestamp[claim[d]] = timestamp[a]
      <4>1. claim[d] # Genesis
        BY <2>2, <2>3, <3>1
      <4> QED  BY <1>2, <2>2, <2>6, <3>1, <4>1, OneQCPerTime DEF Extends
    <3>2. CASE timestamp[claim[d]] > timestamp[a]
      BY <2>1, <2>6, <3>2, FinalIsExtended
    <3> QED  BY <2>2, <2>7, <3>1, <3>2
  <2> QED  BY <2>6, <2>7, <2>8 DEF Extends
<1> QED  BY <1>1, <1>2

-----------------------------------------------------------------------------
(* The genesis block alone, with no votes, satisfies the invariant.        *)
LEMMA InitEstablishes == Init => IInv
  BY GenesisAssumption
  DEF Init, IInv, TypeOK, TreeInv, ClaimInv, GenesisClaim, VotesKnown, OneVotePerTime, StrongSeesNoFork,
      LocksRespected, Votes

(* Votes only add to QCs.                                                  *)
LEMMA QCsStay ==
    ASSUME votes \subseteq votes', NEW b, HasQC(b)
    PROVE  HasQC(b)'
  BY DEF HasQC, VotesOf

(* A proposed block that passes the controller's checks on its QC claim    *)
(* disturbs neither the tree nor the facts about earlier votes.            *)
LEMMA ProposePreserves ==
    ASSUME IInv, NEW b \in Blocks, NEW parent \in Blocks, NEW c \in Blocks, NEW time \in Times,
           Propose(b, parent, time, c)
    PROVE  IInv'
<1> USE DEF Propose
<1>1. /\ parent \in known /\ b \notin known /\ time \in Nat
      /\ known' = known \cup {b} /\ votes' = votes
  BY TimesAssumption
<1>2. TypeOK'
  <2>1. timestamp' \in [Blocks -> Nat]
    BY <1>1 DEF IInv, TypeOK
  <2>2. ancestors[parent] \cup {parent} \in SUBSET Blocks
    BY DEF IInv, TypeOK
  <2>3. ancestors' \in [Blocks -> SUBSET Blocks]
    BY <2>2 DEF IInv, TypeOK
  <2>4. claim' \in [Blocks -> Blocks]
    BY DEF IInv, TypeOK
  <2> QED  BY <2>1, <2>3, <2>4 DEF IInv, TypeOK
<1>3. \A x \in known : timestamp'[x] = timestamp[x] /\ ancestors'[x] = ancestors[x] /\ claim'[x] = claim[x]
  BY <1>1 DEF IInv, TypeOK
<1>4. timestamp'[b] = time /\ ancestors'[b] = ancestors[parent] \cup {parent} /\ claim'[b] = c
  BY DEF IInv, TypeOK
<1>5. \A x \in known : \A y : Extends(x, y)' <=> Extends(x, y)
  BY <1>3 DEF Extends
<1>6. TreeInv'
  <2>1. Genesis \in known' /\ ancestors'[Genesis] = {}
    BY <1>1, <1>3 DEF IInv, TreeInv
  <2>2. \A x \in known' : ancestors'[x] \subseteq known /\ ancestors'[x] \subseteq known'
    BY <1>1, <1>3, <1>4 DEF IInv, TreeInv
  <2>3. ASSUME NEW x \in known', NEW y \in ancestors'[x]
        PROVE  timestamp'[y] < timestamp'[x] /\ ancestors'[y] \subseteq ancestors'[x]
    <3>1. CASE x \in known
      BY <1>3, <2>2, <2>3, <3>1 DEF IInv, TreeInv
    <3>2. CASE x = b
      <4>1. y \in known /\ (y = parent \/ y \in ancestors[parent])
        BY <1>4, <2>2, <2>3, <3>2
      <4>2. timestamp[y] <= timestamp[parent] /\ ancestors[y] \subseteq ancestors[parent]
        BY <1>1, <4>1 DEF IInv, TreeInv, TypeOK
      <4>3. timestamp[parent] < time /\ timestamp[parent] \in Nat /\ timestamp[y] \in Nat
        BY <4>1 DEF IInv, TypeOK
      <4>4. timestamp[y] < time
        BY <1>1, <4>2, <4>3
      <4> QED  BY <1>3, <1>4, <3>2, <4>1, <4>2, <4>4
    <3> QED  BY <1>1, <3>1, <3>2
  <2>4. ASSUME NEW x \in known', NEW y \in ancestors'[x], NEW z \in ancestors'[x]
        PROVE  (Extends(y, z) \/ Extends(z, y))'
    <3>1. y \in known /\ z \in known
      BY <2>2
    <3>2. Extends(y, z) \/ Extends(z, y)
      <4>1. CASE x \in known
        BY <1>3, <4>1 DEF IInv, TreeInv
      <4>2. CASE x = b
        <5>1. (y = parent \/ y \in ancestors[parent]) /\ (z = parent \/ z \in ancestors[parent])
          BY <1>4, <4>2
        <5> QED  BY <1>1, <5>1 DEF Extends, IInv, TreeInv
      <4> QED  BY <1>1, <4>1, <4>2
    <3> QED  BY <1>5, <3>1, <3>2
  <2> QED  BY <2>1, <2>2, <2>3, <2>4 DEF TreeInv
<1>7. ClaimInv'
  <2> SUFFICES ASSUME NEW x \in known' \ {Genesis}
               PROVE  claim'[x] \in ancestors'[x] /\ Genesis \in ancestors'[x] /\ HasQC(claim[x])'
    BY DEF ClaimInv
  <2>1. \A y : y = claim'[x] /\ HasQC(y) => HasQC(claim[x])'
    BY <1>1 DEF HasQC, VotesOf
  <2>2. CASE x \in known
    <3>1. claim[x] \in ancestors[x] /\ Genesis \in ancestors[x] /\ HasQC(claim[x])
      BY <2>2 DEF IInv, ClaimInv
    <3> QED  BY <1>3, <2>1, <2>2, <3>1
  <2>3. CASE x = b
    <3>1. c \in ancestors'[b]
      BY <1>4 DEF Extends
    <3>2. Genesis \in ancestors'[b]
      BY <1>1, <1>4 DEF IInv, ClaimInv
    <3>3. HasQC(c)
      OBVIOUS
    <3> QED  BY <1>4, <2>1, <2>3, <3>1, <3>2, <3>3
  <2> QED  BY <1>1, <2>2, <2>3
<1>8. VotesKnown' /\ GenesisClaim'
  BY <1>1, <1>3 DEF IInv, VotesKnown, GenesisClaim, TreeInv
<1>9. \A v \in votes' : /\ v.block \in known /\ timestamp'[v.block] = timestamp[v.block]
                        /\ claim'[v.block] = claim[v.block]
                        /\ timestamp'[claim[v.block]] = timestamp[claim[v.block]]
                        /\ \A y : Extends(v.block, y)' <=> Extends(v.block, y)
  <2>1. \A v \in votes : v.block \in known /\ claim[v.block] \in known
    BY DEF IInv, VotesKnown, ClaimInv, TreeInv
  <2> QED  BY <1>1, <1>3, <1>5, <2>1
<1>10. OneVotePerTime'
  BY <1>1, <1>9 DEF IInv, OneVotePerTime
<1>11. StrongSeesNoFork'
  BY <1>1, <1>9 DEF IInv, StrongSeesNoFork
<1>12. LocksRespected'
  <2> SUFFICES ASSUME NEW v \in votes, NEW w \in votes, v.finalizer = w.finalizer, v.strong,
                      timestamp[v.block] < timestamp[w.block],
                      ~Extends(w.block, claim[v.block])
               PROVE  \E e \in ancestors'[w.block] : HasQC(e)' /\ timestamp'[e] > timestamp[claim[v.block]]
    BY <1>1, <1>9 DEF LocksRespected
  <2>1. PICK e \in ancestors[w.block] : HasQC(e) /\ timestamp[e] > timestamp[claim[v.block]]
    BY DEF IInv, LocksRespected
  <2>2. w.block \in known /\ ancestors'[w.block] = ancestors[w.block]
    BY <1>1, <1>3, <1>9
  <2>3. e \in known /\ timestamp'[e] = timestamp[e]
    BY <1>3, <2>1, <2>2 DEF IInv, TreeInv
  <2>4. HasQC(e)'
    BY <1>1, <2>1 DEF HasQC, VotesOf
  <2> QED  BY <2>1, <2>2, <2>3, <2>4
<1> QED  BY <1>2, <1>6, <1>7, <1>8, <1>10, <1>11, <1>12 DEF IInv

(* A vote that decide_vote allows keeps the facts about all votes.         *)
LEMMA VotePreserves ==
    ASSUME IInv, NEW b \in Blocks, NEW strong \in SUBSET Honest, NEW weak \in SUBSET Honest,
           Vote(b, strong, weak)
    PROVE  IInv'
<1>1. /\ b \in known \ {Genesis}
      /\ votes \subseteq votes'
      /\ known' = known /\ timestamp' = timestamp /\ ancestors' = ancestors /\ claim' = claim
  BY Zenon DEF Vote
<1>2. \A x, y : Extends(x, y)' <=> Extends(x, y)
  BY <1>1 DEF Extends
<1>3. \A v \in votes' : v \in votes \/ (v \in Votes /\ v.block = b /\ MayVote(v.finalizer, b, v.strong))
  <2>1. ASSUME NEW v \in VotesFor(b, strong, TRUE)
        PROVE  v \in Votes /\ v.block = b /\ v.strong = TRUE /\ v.finalizer \in strong
    <3>1. PICK f \in strong : v = [finalizer |-> f, block |-> b, strong |-> TRUE]
      BY Zenon DEF VotesFor
    <3>2. v.block = b /\ v.strong = TRUE /\ v.finalizer = f
      BY <3>1, Zenon
    <3>3. v \in Votes
      BY <3>1, Zenon DEF Votes
    <3> QED  BY <3>2, <3>3, Zenon
  <2>2. ASSUME NEW v \in VotesFor(b, weak, FALSE)
        PROVE  v \in Votes /\ v.block = b /\ v.strong = FALSE /\ v.finalizer \in weak
    <3>1. PICK f \in weak : v = [finalizer |-> f, block |-> b, strong |-> FALSE]
      BY Zenon DEF VotesFor
    <3>2. v.block = b /\ v.strong = FALSE /\ v.finalizer = f
      BY <3>1, Zenon
    <3>3. v \in Votes
      BY <3>1, Zenon DEF Votes
    <3> QED  BY <3>2, <3>3, Zenon
  <2>3. \A v \in votes' : v \in votes \/ v \in VotesFor(b, strong, TRUE) \/ v \in VotesFor(b, weak, FALSE)
    BY Zenon DEF Vote
  <2>4. (\A f \in strong : MayVote(f, b, TRUE)) /\ (\A f \in weak : MayVote(f, b, FALSE))
    BY Zenon DEF Vote
  <2> QED  BY <2>1, <2>2, <2>3, <2>4, Zenon
<1>4. \A v \in votes, w \in votes' : w \notin votes /\ v.finalizer = w.finalizer => timestamp[v.block] < timestamp[b]
  BY <1>3 DEF MayVote, Monotone, VotesOf
<1>5. \A v \in votes, w \in votes' :
         /\ w \notin votes /\ w.strong /\ v.finalizer = w.finalizer
         /\ timestamp[v.block] > timestamp[claim[b]]
         => Extends(b, v.block)
  BY <1>3 DEF MayVote, NoForkSinceClaim, VotesOf
<1>6. \A v \in votes, w \in votes' :
         w \notin votes /\ v.finalizer = w.finalizer /\ v.strong =>
            \/ Extends(b, claim[v.block])
            \/ \E c \in ancestors[b] : HasQC(c) /\ timestamp[c] > timestamp[claim[v.block]]
  BY <1>3 DEF MayVote, RespectsLocks, VotesOf
<1>7. \A x \in known : timestamp[x] \in Nat
  BY DEF IInv, TypeOK
<1>8. TypeOK'
  BY <1>1, <1>3 DEF IInv, TypeOK
<1>9. TreeInv'
  BY <1>1, <1>2 DEF IInv, TreeInv
<1>10. ClaimInv'
  <2>1. \A y : HasQC(y) => HasQC(y)'
    BY <1>1, QCsStay
  <2> QED  BY <1>1, <2>1 DEF IInv, ClaimInv
<1>11. VotesKnown' /\ GenesisClaim'
  BY <1>1, <1>3 DEF IInv, VotesKnown, GenesisClaim
<1>12. \A v \in votes' : timestamp[v.block] \in Nat
  BY <1>1, <1>7, <1>11 DEF VotesKnown
<1>13. OneVotePerTime'
  <2> SUFFICES ASSUME NEW v \in votes', NEW w \in votes', v.finalizer = w.finalizer,
                      timestamp[v.block] = timestamp[w.block]
               PROVE  v.block = w.block
    BY <1>1 DEF OneVotePerTime
  <2> QED  BY <1>3, <1>4, <1>12 DEF IInv, OneVotePerTime
<1>14. StrongSeesNoFork'
  <2> SUFFICES ASSUME NEW v \in votes', NEW w \in votes', v.finalizer = w.finalizer, v.strong,
                      timestamp[w.block] < timestamp[v.block],
                      timestamp[w.block] > timestamp[claim[v.block]]
               PROVE  Extends(v.block, w.block)
    BY <1>1, <1>2 DEF StrongSeesNoFork
  <2>1. CASE v \in votes /\ w \in votes
    BY <2>1 DEF IInv, StrongSeesNoFork
  <2>2. CASE v \notin votes /\ w \in votes
    BY <1>3, <1>5, <2>2
  <2>3. CASE w \notin votes
    <3>1. w.block = b
      BY <1>3, <2>3
    <3>2. timestamp[v.block] <= timestamp[b]
      BY <1>3, <1>4, <1>12, <2>3, <3>1
    <3> QED  BY <1>1, <1>7, <1>12, <3>1, <3>2
  <2> QED  BY <2>1, <2>2, <2>3
<1>15. LocksRespected'
  <2> SUFFICES ASSUME NEW v \in votes', NEW w \in votes', v.finalizer = w.finalizer, v.strong,
                      timestamp[v.block] < timestamp[w.block]
               PROVE  \/ Extends(w.block, claim[v.block])
                      \/ \E c \in ancestors[w.block] : HasQC(c)' /\ timestamp[c] > timestamp[claim[v.block]]
    BY <1>1, <1>2 DEF LocksRespected
  <2>1. \A c : HasQC(c) => HasQC(c)'
    BY <1>1, QCsStay
  <2>2. CASE v \in votes /\ w \in votes
    BY <2>1, <2>2 DEF IInv, LocksRespected
  <2>3. CASE v \in votes /\ w \notin votes
    BY <1>3, <1>6, <2>1, <2>3
  <2>4. CASE v \notin votes
    <3>1. v.block = b
      BY <1>3, <2>4
    <3>2. timestamp[w.block] <= timestamp[b]
      BY <1>3, <1>4, <1>12, <2>4, <3>1
    <3> QED  BY <1>1, <1>7, <1>12, <3>1, <3>2
  <2> QED  BY <2>2, <2>3, <2>4
<1> QED  BY <1>8, <1>9, <1>10, <1>11, <1>13, <1>14, <1>15 DEF IInv

(* The invariant is a state predicate of the variables.                    *)
LEMMA StutterPreserves == IInv /\ UNCHANGED vars => IInv'
  BY DEF vars, IInv, TypeOK, TreeInv, ClaimInv, GenesisClaim, VotesKnown, OneVotePerTime, StrongSeesNoFork,
         LocksRespected, Votes, Extends, HasQC, VotesOf

(* A step keeps the invariant. *)
LEMMA StepPreserves == IInv /\ [Next]_vars => IInv'
<1> SUFFICES ASSUME IInv, [Next]_vars PROVE IInv'
  OBVIOUS
<1>1. known \subseteq Blocks
  BY DEF IInv, TypeOK
<1>2. ASSUME NEW b \in Blocks \ known, NEW parent \in known, NEW c \in known, NEW time \in Times,
             Propose(b, parent, time, c)
      PROVE  IInv'
  BY <1>1, <1>2, ProposePreserves
<1>3. ASSUME NEW b \in Blocks, NEW strong \in SUBSET Honest, NEW weak \in SUBSET Honest, Vote(b, strong, weak)
      PROVE  IInv'
  BY <1>3, VotePreserves
<1> QED  BY <1>2, <1>3, StutterPreserves DEF Next

(* The invariant holds of every reachable state.                           *)
THEOREM RulesInvariant == Spec => []IInv
  BY InitEstablishes, StepPreserves, PTL DEF Spec

(* finalizer::decide_vote's rules are enough: no two nodes take blocks of  *)
(* two branches for final.                                                 *)
THEOREM AgreementHolds == Spec => []Agreement
  BY RulesInvariant, InvariantImpliesAgreement, PTL

(* The order of the fork database is sound: preferring the most recent QC  *)
(* never leads a node away from a final block.                             *)
THEOREM BestBranchHolds == Spec => []BestBranchExtendsFinal
  BY RulesInvariant, InvariantImpliesBestBranch, PTL

(* The block tree and the votes of SafetyRules stay well formed as blocks  *)
(* are proposed and voted for.                                             *)
THEOREM RulesTypeCorrect == Spec => []TypeOK
<1>1. IInv => TypeOK
  BY DEF IInv
<1> QED  BY <1>1, RulesInvariant, PTL

=============================================================================
