---------------------------- MODULE OrderedDiff ----------------------------
(***************************************************************************)
(* fc::ordered_diff: the difference of two vectors that a block header     *)
(* carries instead of a whole finalizer or proposer policy.  A diff is     *)
(*                                                                         *)
(*   [remove_indexes : sequence of positions of the source,                *)
(*    insert_indexes : sequence of [index, value], positions of the target] *)
(*                                                                         *)
(* with positions counted from 0 as in the code.  The width of an index    *)
(* (uint16_t) is left out: a policy has at most max_finalizers or          *)
(* max_proposers members, which the code asserts at compile time to fit.   *)
(***************************************************************************)
EXTENDS Integers, Sequences

at(s, i) == s[i + 1]

removing(i, d) == [d EXCEPT !.remove_indexes = << i >> \o @]

inserting(i, v, d) == [d EXCEPT !.insert_indexes = << [index |-> i, value |-> v] >> \o @]

(* The loop over source and target: step[<< s, t >>] is what remains to be *)
(* done from position s of the source and t of the target.                 *)
diff(source, target) ==
    LET S == Len(source)
        T == Len(target)
        step[p \in (0 .. S) \X (0 .. T)] ==
            LET s == p[1]
                t == p[2]
            IN  CASE s = S /\ t = T -> [remove_indexes |-> << >>, insert_indexes |-> << >>]
                  [] s < S /\ t = T -> removing(s, step[<< s + 1, t >>])
                  [] s = S /\ t < T -> inserting(t, at(target, t), step[<< s, t + 1 >>])
                  [] OTHER ->
                     CASE at(source, s) = at(target, t) -> step[<< s + 1, t + 1 >>]
                       [] /\ at(source, s) # at(target, t)
                          /\ \/ s = S - 1 /\ t = T - 1
                             \/ s + 1 < S /\ t + 1 < T /\ at(source, s + 1) = at(target, t + 1) ->
                             removing(s, inserting(t, at(target, t), step[<< s + 1, t + 1 >>]))
                       [] OTHER ->
                             IF t + 1 < T /\ at(source, s) = at(target, t + 1)
                             THEN inserting(t, at(target, t), step[<< s, t + 1 >>])
                             ELSE removing(s, step[<< s + 1, t >>])
    IN  step[<< 0, 0 >>]

erase(s, i) == SubSeq(s, 1, i) \o SubSeq(s, i + 2, Len(s))

insert(s, i, v) == SubSeq(s, 1, i) \o << v >> \o SubSeq(s, i + 1, Len(s))

(* The container once the first n indexes are removed, and then the first  *)
(* n values inserted.                                                      *)
removed(container, d, n) ==
    LET after[i \in 0 .. n] ==
            IF i = 0 THEN container ELSE erase(after[i - 1], d.remove_indexes[i] - (i - 1))
    IN  after[n]

inserted(container, d, n) ==
    LET after[i \in 0 .. n] ==
            IF i = 0 THEN container
            ELSE insert(after[i - 1], d.insert_indexes[i].index, d.insert_indexes[i].value)
    IN  after[n]

apply_diff(container, d) ==
    inserted(removed(container, d, Len(d.remove_indexes)), d, Len(d.insert_indexes))

(* apply_diff does not throw: the indexes increase and stay in range.      *)
applies(container, d) ==
    /\ \A i \in 1 .. Len(d.remove_indexes) :
          /\ i > 1 => d.remove_indexes[i] > d.remove_indexes[i - 1]
          /\ d.remove_indexes[i] < Len(container)
    /\ \A i \in 1 .. Len(d.insert_indexes) :
          /\ i > 1 => d.insert_indexes[i].index > d.insert_indexes[i - 1].index
          /\ d.insert_indexes[i].index <= Len(container) - Len(d.remove_indexes) + i - 1

=============================================================================
