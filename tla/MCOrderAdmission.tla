---------------------------- MODULE MCOrderAdmission ----------------------------
\* OrderAdmission with the tail defence and the gap track, by the ids that the
\* strategies register under.
EXTENDS OrderAdmission
MCTracks == <<"TRACK1_TAIL_DEFENSE", "track5_gap_divergence">>
MCTemplates == [id : {<<1, 1>>}, instrument : Instruments, side : Sides, qty : {1}]
\* A position is shown by its instrument's id, which no key is.
MCKeyOf == [i \in Instruments |-> <<"FUTURES", i>>]
\* One contract of each instrument.
MCOvernight == {[i \in Instruments |-> 1]}
Symmetry == Permutations(Instruments)
================================================================================
