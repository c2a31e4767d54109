------------------------------ MODULE MCStore ------------------------------
(***************************************************************************)
(* An instance of Store for TLC.  Block g is the big bang block, a and f   *)
(* are two blocks with number 1, e has no solution sets, and r repeats a   *)
(* solution set of a, twice.  The address of f comes before that of a.     *)
(***************************************************************************)
EXTENDS Store

CONSTANTS g, a, f, e, r, s1, s2, s3, s4, c1, c2

MCBlocks == {g, a, f, e, r}

MCNumber == g :> 0 @@ a :> 1 @@ f :> 1 @@ e :> 2 @@ r :> 2

MCTime == g :> <<0, 1>> @@ a :> <<1, 1>> @@ f :> <<1, 0>> @@ e :> <<2, 0>> @@ r :> <<2, 0>>

MCSets == g :> <<s1>> @@ a :> <<s2, s3>> @@ f :> <<s3, s4>> @@ e :> << >> @@ r :> <<s2, s2>>

MCSolutionSets == {s1, s2, s3, s4}

MCContracts == {c1, c2}

\* s3 has no rows and is shared without harm; s1 has two solutions.
MCSolutions ==
    s1 :> <<[contract |-> c1, mutations |-> <<<<<<0>>, <<1>>>>, <<<<1>>, << >>>>>>,
             data |-> <<<<-2>>>>],
            [contract |-> c2, mutations |-> <<<<<<0>>, <<-1, 0>>>>>>, data |-> <<<<1>>, <<0>>>>]>>
    @@ s2 :> <<[contract |-> c1, mutations |-> <<<<<<0>>, <<-2>>>>>>, data |-> << >>]>>
    @@ s3 :> <<[contract |-> c1, mutations |-> << >>, data |-> << >>]>>
    @@ s4 :> <<[contract |-> c1, mutations |-> <<<<<<0>>, <<0>>>>>>, data |-> << >>]>>

MCRank == g :> 3 @@ a :> 2 @@ f :> 1 @@ e :> 4 @@ r :> 5 @@ s1 :> 4 @@ s2 :> 3 @@ s3 :> 2 @@ s4 :> 1

MCRanges == {p \in (0..3) \X (0..3) : p[1] < p[2]}

\* Everything; from within a second on; up to within a second.
MCTimeRanges == {<<<<0, 0>>, <<3, 0>>>>, <<<<1, 1>>, <<2, 1>>>>, <<<<0, 0>>, <<1, 1>>>>}

\* The key that three of the sets mutate.
MCStateWrites == {<<c1, <<0>>, <<1>>>>, <<c1, <<0>>, << >>>>}
=============================================================================
